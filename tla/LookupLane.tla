----------------------------- MODULE LookupLane -----------------------------
(***************************************************************************)
(* The lane that asks a provider about one object at a time: InternetDB    *)
(* about the IPv4 addresses of a page of the sweep, CIRCL hashlookup about *)
(* captured samples.  Its ledger is cache, backoff and daily budget in one *)
(* table; a verdict is cached only after its objects were published, and   *)
(* is held in memory until then.                                           *)
(***************************************************************************)
EXTENDS ActivitySweep

CONSTANTS
  IPv4,        \* the addresses InternetDB is asked about
  Samples,     \* the sample hashes, in an order of their own
  Knows,       \* the objects a provider has a verdict on, one that makes objects
  Allowance,   \* calls a day for each source, or 0 for no limit
  Always,      \* the addresses that stay active
  Failures,    \* what may fail: see the actions that cite it
  MaxFaults    \* bound on failures

Values == IPv4 \cup Samples
Sources == {"internetdb", "circl"}
Candidates(src) == IF src = "internetdb" THEN IPv4 ELSE Samples

ASSUME LaneAssumption ==
  /\ IPv4 \subseteq Addresses
  /\ Samples \subseteq Nat \ Addresses
  /\ IsFiniteSet(Samples)
  /\ Knows \subseteq Values
  /\ Always \subseteq Addresses
  /\ Allowance \in [Sources -> Nat]
  /\ Failures \subseteq {"read", "fetch", "raise", "report", "crash"}
  /\ MaxFaults \in Nat

VARIABLES
  active,      \* the addresses active within the window
  cache,       \* enrichment_cache
  calls,       \* the calls each object cost the provider today
  cursor,      \* the sweep cursor
  landed,      \* the objects whose verdict OpenCTI holds
  pc,          \* where the cycle is
  page,        \* the rows it read
  pool,        \* the candidates of the current source not handled yet
  spent,       \* calls of the source today, as the cycle counts them
  objects,     \* what it publishes
  pending,     \* verdicts awaiting a confirmed publish
  faults

durable == <<cache, cursor>>
cycle == <<page, pool, spent, objects, pending>>
vars == <<active, durable, calls, landed, pc, cycle, faults>>

\* live: a verdict not expired, or an error within its backoff.
Entry == [status : {"none", "found", "not_found", "error"}, live : BOOLEAN, today : BOOLEAN]
NoEntry == [status |-> "none", live |-> FALSE, today |-> FALSE]
Answer(status) == [status |-> status, live |-> TRUE, today |-> TRUE]

TypeOK ==
  /\ active \subseteq Addresses
  /\ cache \in [Values -> Entry]
  /\ calls \in [Values -> Nat]
  /\ cursor \in Addresses \cup {StartOfPass}
  /\ landed \subseteq Values
  /\ pc \in {"idle", "internetdb", "circl", "publish", "confirm"}
  /\ page \subseteq Addresses
  /\ pool \subseteq Values
  /\ spent \in Nat
  /\ objects \subseteq Values
  /\ pending \subseteq objects
  /\ faults \in Nat

Init ==
  /\ active = Always
  /\ cache = [v \in Values |-> NoEntry]
  /\ calls = [v \in Values |-> 0]
  /\ cursor = StartOfPass
  /\ landed = {}
  /\ pc = "idle"
  /\ page = {}
  /\ pool = {}
  /\ spent = 0
  /\ objects = {}
  /\ pending = {}
  /\ faults = 0

-----------------------------------------------------------------------------
(* CORE's telemetry, and time.                                             *)

Appear(a) ==
  /\ active' = active \cup {a}
  /\ UNCHANGED <<durable, calls, landed, pc, cycle, faults>>

AgeOut(a) ==
  /\ a \notin Always
  /\ active' = active \ {a}
  /\ UNCHANGED <<durable, calls, landed, pc, cycle, faults>>

\* Verdicts keep for days, a backoff for five minutes or more.
Expire(v) ==
  /\ cache[v].live
  /\ cache[v].status # "error" => ~cache[v].today
  /\ cache' = [cache EXCEPT ![v].live = FALSE]
  /\ UNCHANGED <<active, cursor, calls, landed, pc, cycle, faults>>

Midnight ==
  /\ cache' = [v \in Values |-> [cache[v] EXCEPT !.today = FALSE]]
  /\ calls' = [v \in Values |-> 0]
  /\ UNCHANGED <<active, cursor, landed, pc, cycle, faults>>

-----------------------------------------------------------------------------
(* A cycle: the two sources in turn, then one publish for both.            *)

Fail(what) ==
  /\ what \in Failures
  /\ faults < MaxFaults
  /\ faults' = faults + 1

\* spent_today counts the ledger's rows of the day.
SpentOnVerdicts(src) ==
  Cardinality({v \in Candidates(src) : cache[v].today /\ cache[v].status = "found"})  \* mutant
SpentToday(src) == Cardinality({v \in Candidates(src) : cache[v].today})

Begin ==
  /\ pc = "idle"
  /\ page' = Page(active, cursor)
  /\ pool' = page' \cap IPv4
  /\ spent' = SpentToday("internetdb")
  /\ objects' = {}
  /\ pending' = {}
  /\ pc' = "internetdb"
  /\ UNCHANGED <<active, durable, calls, landed, faults>>

\* The telemetry cannot be read: the source has no candidates this cycle.
BeginUnread ==
  /\ pc = "idle"
  /\ Fail("read")
  /\ page' = {}
  /\ pool' = {}
  /\ spent' = 0
  /\ objects' = {}
  /\ pending' = {}
  /\ pc' = "internetdb"
  /\ UNCHANGED <<active, durable, calls, landed>>

\* Candidates are taken in order.
Handles(v) ==
  /\ pc \in Sources
  /\ v \in pool
  /\ \A u \in pool : v <= u

Answered(v) == cache[v].live /\ cache[v].status \in {"found", "not_found"}
InBackoff(v) == cache[v].live /\ cache[v].status = "error"
Exhausted == Allowance[pc] # 0 /\ spent >= Allowance[pc]

\* The object of a cached verdict is published again.  The ledger kept only that
\* the verdict was confirmed, so without what it said; OpenCTI has that.
UseCache(v) ==
  /\ Handles(v)
  /\ Answered(v)
  /\ objects' = IF cache[v].status = "found" THEN objects \cup {v} ELSE objects
  /\ pool' = pool \ {v}
  /\ UNCHANGED <<active, durable, calls, landed, pc, page, spent, pending, faults>>

Skip(v) ==
  /\ Handles(v)
  /\ ~Answered(v)
  /\ InBackoff(v) \/ Exhausted
  /\ pool' = pool \ {v}
  /\ UNCHANGED <<active, durable, calls, landed, pc, page, spent, objects, pending, faults>>

Call(v) ==
  /\ Handles(v)
  /\ ~Answered(v)
  /\ ~InBackoff(v)
  /\ ~Exhausted
  /\ calls' = [calls EXCEPT ![v] = @ + 1]
  /\ spent' = spent + 1
  /\ pool' = pool \ {v}

FetchFails(v) ==
  /\ Call(v)
  /\ Fail("fetch")
  /\ cache' = [cache EXCEPT ![v] = Answer("error")]
  /\ UNCHANGED <<active, cursor, landed, pc, page, objects, pending>>

FetchNothing(v) ==
  /\ v \notin Knows
  /\ Call(v)
  /\ cache' = [cache EXCEPT ![v] = Answer("not_found")]
  /\ UNCHANGED <<active, cursor, landed, pc, page, objects, pending, faults>>

\* No ledger write here: the verdict waits for the publish.
CachedOnFetch(v) == [cache EXCEPT ![v] = Answer("found")]        \* mutant
CachedWhenFound(v) == cache
FetchFound(v) ==
  /\ v \in Knows
  /\ Call(v)
  /\ cache' = CachedWhenFound(v)
  /\ objects' = objects \cup {v}
  /\ pending' = pending \cup {v}
  /\ UNCHANGED <<active, cursor, landed, pc, page, faults>>

\* The sweep moves on before the publish, and not at all when the page has no
\* address to ask about.
CursorAfter == IF page \cap IPv4 = {} THEN cursor ELSE Advanced(page)

EndAddresses ==
  /\ pc = "internetdb"
  /\ pool = {}
  /\ cursor' = CursorAfter
  /\ pool' = Samples
  /\ spent' = SpentToday("circl")
  /\ pc' = "circl"
  /\ UNCHANGED <<active, cache, calls, landed, page, objects, pending, faults>>

EndSamples ==
  /\ pc = "circl"
  /\ pool = {}
  /\ pc' = IF objects = {} THEN "idle" ELSE "publish"
  /\ UNCHANGED <<active, durable, calls, landed, cycle, faults>>

Publish ==
  /\ pc = "publish"
  /\ landed' = landed \cup objects
  /\ pc' = "confirm"
  /\ UNCHANGED <<active, durable, calls, cycle, faults>>

\* publish raised, or returned errors that the lane does not look at; a part
\* of the objects may have landed.
AfterRaiseConfirmed == "confirm"                                 \* mutant
AfterRaise == "idle"
PublishFails(what, part) ==
  /\ pc = "publish"
  /\ Fail(what)
  /\ landed' = landed \cup part
  /\ pc' = IF what = "raise" THEN AfterRaise ELSE "confirm"
  /\ UNCHANGED <<active, durable, calls, cycle>>

Confirm(v) ==
  /\ pc = "confirm"
  /\ v \in pending
  /\ cache' = [cache EXCEPT ![v] = Answer("found")]
  /\ pending' = pending \ {v}
  /\ UNCHANGED <<active, cursor, calls, landed, pc, page, pool, spent, objects, faults>>

Confirmed ==
  /\ pc = "confirm"
  /\ pending = {}
  /\ pc' = "idle"
  /\ UNCHANGED <<active, durable, calls, landed, cycle, faults>>

Crash ==
  /\ pc # "idle"
  /\ Fail("crash")
  /\ pc' = "idle"
  /\ UNCHANGED <<active, durable, calls, landed, cycle>>

Ask(v) == FetchFound(v) \/ FetchNothing(v)

Next ==
  \/ \E a \in Addresses : Appear(a)
  \/ \E a \in Addresses : AgeOut(a)
  \/ \E v \in Values : Expire(v)
  \/ Midnight
  \/ Begin
  \/ BeginUnread
  \/ \E v \in Values : UseCache(v)
  \/ \E v \in Values : Skip(v)
  \/ \E v \in Values : FetchFails(v)
  \/ \E v \in Values : Ask(v)
  \/ EndAddresses
  \/ EndSamples
  \/ Publish
  \/ \E what \in {"raise", "report"}, part \in SUBSET objects : PublishFails(what, part)
  \/ \E v \in Values : Confirm(v)
  \/ Confirmed
  \/ Crash

Spec == Init /\ [][Next]_vars

-----------------------------------------------------------------------------
(* Safety.                                                                 *)

\* "Cache on confirmed, never on attempted": a verdict the ledger would answer
\* with is in OpenCTI, whatever was fetched, failed or cut off on the way.
CachedOnlyLanded == \A v \in Values : cache[v].status = "found" => v \in landed

\* The objects a source was asked about today.
Asked(src) == {v \in Candidates(src) : calls[v] > 0}

\* A day's calls stay within the allowance of their source, over all the cycles of
\* the day and those that run past midnight: no object costs a second call, and no
\* more objects than that are asked about.  A call that leaves no row (its
\* publish failed, the process died) or overwrites one (a retried error) is
\* not counted, so this is promised of days without failures (spent_since).
BudgetKept ==
  faults = 0 =>
    \A src \in Sources :
      Allowance[src] # 0 =>
        /\ \A v \in Candidates(src) : calls[v] <= 1
        /\ Cardinality(Asked(src)) <= Allowance[src]

-----------------------------------------------------------------------------
(* Liveness.  The main loop starts a cycle per interval and goes through   *)
(* its candidates; days pass, backoffs end, MaxFaults bounds the failures. *)

Fairness ==
  /\ WF_vars(Midnight)
  /\ \A v \in Values : WF_vars(cache[v].status = "error" /\ Expire(v))
  /\ WF_vars(Begin)
  /\ WF_vars(\E v \in Values : UseCache(v) \/ Skip(v) \/ Ask(v))
  /\ WF_vars(EndAddresses)
  /\ WF_vars(EndSamples)
  /\ WF_vars(Publish)
  /\ WF_vars(\E v \in Values : Confirm(v))
  /\ WF_vars(Confirmed)

FairSpec == Spec /\ Fairness

\* covering "every address rather than whichever ones happen to be busiest": an
\* address that stays active is answered again and again, however often its
\* verdict expires, fetches and publishes fail, or the budget runs out.
StaysAnswered == \A v \in IPv4 \cap Always : []<>Answered(v)
=============================================================================
