--------------------------- MODULE SightingLedger ---------------------------
(***************************************************************************)
(* The counting core of tpot2cti: one import cycle after another turns the *)
(* hive events of a time window into Sighting writes whose counts OpenCTI  *)
(* adds up.  A ledger in state.db (sighting_counted, sighting_sent,        *)
(* sighting_last_sent) has to make every event count once although a cycle *)
(* may crash anywhere, a publish may half land, the read-back of OpenCTI   *)
(* may fail and an operator may move the cursor.                           *)
(*                                                                         *)
(* Time is counted in ticks.  OpenCTI compares at millisecond precision,   *)
(* and a millisecond has TicksPerMs ticks, so that two events, or an event *)
(* and a window boundary, can share a millisecond.                         *)
(*                                                                         *)
(* One process is modelled here, the holder of the cycle lease; what the   *)
(* lease itself gives is the subject of module CycleLease.                 *)
(***************************************************************************)
EXTENDS Integers, FiniteSets

CONSTANTS
  Ids,          \* Sighting ids: one per (sensor, target)
  Hits,         \* Hits[i]: the ticks of the events ES counts for i
  Parsed,       \* Parsed[i]: those of them a parser turns into sessions
  Start,        \* the cursor when this code first runs, or NoTime
  Legacy,       \* Legacy[i]: the Sighting OpenCTI holds before that
  Lookback,     \* width of the window of a cycle without a cursor
  MaxWindow,    \* the 24 h cap of _compute_window
  CapPolicy,    \* how the volume cap truncates windows: see CapEnds
  TieRead,      \* may documents at the cap's own tick be read before it?
  RewindPolicy, \* how low an operator sets last_run: see MaySetCursor
  Settled,      \* are a cycle's writes landed or lost before the next one?
  Outages,      \* which best-effort calls may fail: see the actions
  MaxTime,      \* bound on the clock
  MaxFaults,    \* bound on crashes, losses and failed calls
  MaxRewinds    \* bound on operator moves of the cursor

NoTime == -1
TicksPerMs == 2
Sighting == [count : Nat, last : Nat \cup {NoTime}]
NoSighting == [count |-> 0, last |-> NoTime]

ASSUME TimeAssumption ==
  /\ Start \in Nat \cup {NoTime}
  /\ Lookback \in Nat \ {0}
  /\ MaxWindow \in Nat \ {0}
  /\ MaxTime \in Nat
  /\ MaxFaults \in Nat
  /\ MaxRewinds \in Nat

ASSUME EventAssumption ==
  /\ Hits \in [Ids -> SUBSET Nat]
  /\ \A i \in Ids : IsFiniteSet(Hits[i])
  /\ Parsed \in [Ids -> SUBSET Nat]
  /\ \A i \in Ids : Parsed[i] \subseteq Hits[i]

\* What OpenCTI holds from earlier versions was imported below the cursor;
\* without a cursor this is the first installation and OpenCTI is empty.
ASSUME LegacyAssumption ==
  /\ Legacy \in [Ids -> Sighting]
  /\ \A i \in Ids : Legacy[i] = NoSighting \/ Legacy[i].last < Start

ASSUME PolicyAssumption ==
  /\ CapPolicy \in {"never", "stable", "any"}
  /\ RewindPolicy \in {"aboveStart", "afterClean", "any"}
  /\ Outages \subseteq {"aggregation", "lookup"}
  /\ TieRead \in BOOLEAN
  /\ Settled \in BOOLEAN

VARIABLES
  now,       \* the clock
  lastRun,   \* state.last_run, the cursor
  counted,   \* sighting_counted: the ticks of all counted intervals
  sent,      \* sighting_sent: rows of attempts not yet published cleanly
  lastSent,  \* sighting_last_sent: latest last_seen ever written per id
  stored,    \* what OpenCTI stores per Sighting
  inflight,  \* writes handed to OpenCTI and neither landed nor lost
  pc,        \* where the current cycle is
  att,       \* its window, scope and rows
  faults,
  rewinds

ledger == <<lastRun, counted, sent, lastSent>>
platform == <<stored, inflight>>
vars == <<now, ledger, platform, pc, att, faults, rewinds>>

Row == [id : Ids, ws : Nat, we : Nat, total : Nat, base : Nat, last : Nat]
Write == [id : Ids, count : Nat, last : Nat]
Modes == {"forward", "none", "backfill"}
Attempt == [ws : Nat, we : Nat, mode : Modes, totals : [Ids -> Nat],
            seen : [Ids -> SUBSET Nat], rows : SUBSET Row, lost : BOOLEAN]
NoAttempt == [ws |-> 0, we |-> 0, mode |-> "none", totals |-> [i \in Ids |-> 0],
              seen |-> [i \in Ids |-> {}], rows |-> {}, lost |-> FALSE]

TypeOK ==
  /\ now \in Nat
  /\ lastRun \in Nat \cup {NoTime}
  /\ counted \in SUBSET Nat
  /\ sent \in SUBSET Row
  /\ lastSent \in [Ids -> Nat \cup {NoTime}]
  /\ stored \in [Ids -> Sighting]
  /\ inflight \in SUBSET Write
  /\ pc \in {"idle", "plan", "record", "publish", "mark", "advance"}
  /\ att \in Attempt
  /\ faults \in Nat
  /\ rewinds \in Nat

-----------------------------------------------------------------------------
(* Time: _trunc_ms and sighting_floor of stix/builder.py.                  *)

Later(a, b) == IF a >= b THEN a ELSE b

Trunc(t) == t - (t % TicksPerMs)

FloorAtTie(t) == Trunc(t)                                        \* mutant
Floor(t) == Trunc(t) + TicksPerMs

Window(a, b) == a..(b - 1)
LastOf(S) == CHOOSE t \in S : \A u \in S : u <= t

-----------------------------------------------------------------------------
(* _compute_window, and the truncation of its end by the volume cap.       *)

WindowStartJump == IF now - lastRun > MaxWindow THEN now - MaxWindow ELSE lastRun  \* mutant
WindowStart == IF lastRun = NoTime THEN Later(0, now - Lookback) ELSE lastRun

WindowEnd ==
  IF lastRun # NoTime /\ now - lastRun > MaxWindow THEN lastRun + MaxWindow ELSE now

\* The cap ends the window at the timestamp of the document that trips it,
\* which is never the window's own start.  Over an unchanged document stream
\* a retry is cut no earlier than the attempt it repeats ("stable"); a lower
\* cap, late documents or the every-n-th-cycle sources move the cut ("any").
CapEnds(ws, end) ==
  {e \in (ws + 1)..(end - 1) :
     \/ CapPolicy = "any"
     \/ CapPolicy = "stable" /\ \A r \in sent : r.ws = ws => r.we <= e}

\* sighting_count_scope: which part of the window still goes into counts.
UncleanIgnored(ws) == FALSE                                      \* mutant
Unclean(ws) == \E r \in sent : r.ws # ws

UncountedWhole(ws, we) == Window(ws, we)                         \* mutant
Uncounted(ws, we) == Window(ws, we) \ counted
AtFrontier(ws) == \A c \in counted : c < ws

ScopeMode(ws, we) ==
  IF Uncounted(ws, we) = {} THEN "none"
  ELSE IF Uncounted(ws, we) = Window(ws, we) /\ AtFrontier(ws) THEN "forward"
  ELSE "backfill"

\* The events of i in the sessions of the cycle; tied: the ids of which a
\* document at the very tick of the cap was read before the cap tripped.
Seen(i, ws, we, tied) ==
  (Parsed[i] \cap Window(ws, we)) \cup (IF i \in tied THEN {we} ELSE {})

\* The count build_sighting gives the Sighting of i.  A forward window takes
\* ES's count and falls back to the per-session sum for an id ES did not
\* report, or for all of them when the aggregation failed.
Total(i, mode, ws, we, seen, aggregated) ==
  LET es == Cardinality(Hits[i] \cap Uncounted(ws, we))
  IN IF mode = "none" THEN 0
     ELSE IF mode = "backfill" \/ (aggregated /\ es > 0) THEN es
     ELSE Cardinality(seen)

-----------------------------------------------------------------------------
(* sighting_plan_for_window and finalize_sighting_counts.                  *)

PriorRows(i) == {r \in sent : r.id = i /\ r.ws = att.ws}
PriorRow(i) == CHOOSE r \in PriorRows(i) : TRUE

LandedStrictly(r, answered) == answered => stored[r.id].last > Trunc(r.last)   \* mutant
LandedAssumed(r, answered) == TRUE                               \* mutant
Landed(r, answered) == answered => stored[r.id].last >= Trunc(r.last)

Base(i, answered) ==
  IF PriorRows(i) = {} THEN 0
  ELSE IF Landed(PriorRow(i), answered) THEN PriorRow(i).total ELSE PriorRow(i).base

\* The latest last_seen known to have been written for i, or NoTime.
KnownLastLedgerOnly(i) == lastSent[i]                            \* mutant
KnownLast(i) ==
  LET priorLast == IF PriorRows(i) = {} THEN NoTime ELSE PriorRow(i).last
      platformLast == IF att.mode = "backfill" THEN stored[i].last ELSE NoTime
  IN Later(Later(lastSent[i], priorLast), platformLast)

LastSeenFloor(i) ==
  IF KnownLast(i) = NoTime THEN Floor(att.ws)
  ELSE Later(Floor(att.ws), Floor(KnownLast(i)))

LastSeen(i) ==
  LET s == LastOf(att.seen[i])
  IN IF Trunc(s) < LastSeenFloor(i) THEN LastSeenFloor(i) ELSE s

\* A Sighting with nothing left to add is dropped: sending it would replace
\* the stored total.
EmittedAnyCount(i, answered) == att.seen[i] # {}                 \* mutant
Emitted(i, answered) ==
  /\ att.seen[i] # {}
  /\ att.totals[i] > Base(i, answered)

RowsOf(answered) ==
  {[id |-> i, ws |-> att.ws, we |-> att.we, total |-> att.totals[i],
    base |-> Base(i, answered), last |-> LastSeen(i)] :
     i \in {j \in Ids : Emitted(j, answered)}}

WriteOf(r) == [id |-> r.id, count |-> r.total - r.base, last |-> r.last]
Writes == {WriteOf(r) : r \in att.rows}

-----------------------------------------------------------------------------
Init ==
  /\ now = IF Start = NoTime THEN 1 ELSE Start
  /\ lastRun = Start
  /\ counted = {}
  /\ sent = {}
  /\ lastSent = [i \in Ids |-> NoTime]
  /\ stored = Legacy
  /\ inflight = {}
  /\ pc = "idle"
  /\ att = NoAttempt
  /\ faults = 0
  /\ rewinds = 0

Tick ==
  /\ now < MaxTime
  /\ now' = now + 1
  /\ UNCHANGED <<ledger, platform, pc, att, faults, rewinds>>

Fault ==
  /\ faults < MaxFaults
  /\ faults' = faults + 1

\* What a cycle that ends leaves of its writes: with Settled the rest is lost.
Abandon == inflight' = IF Settled THEN {} ELSE inflight

\* Window, ES stream, scope and counts.  A failed ES stream records a failed
\* cycle and changes nothing modelled here; a failed aggregation withholds a
\* backfill and makes a forward window fall back.
BeginCycle(aggregated) ==
  /\ pc = "idle"
  /\ LET ws == WindowStart
     IN /\ ws < now
        /\ ~Unclean(ws)
        /\ \E we \in {WindowEnd} \cup CapEnds(ws, WindowEnd) :
           \E tied \in IF TieRead /\ we \in CapEnds(ws, WindowEnd)
                       THEN SUBSET {i \in Ids : we \in Parsed[i]} ELSE {{}} :
             LET mode == ScopeMode(ws, we)
                 seen == [i \in Ids |-> Seen(i, ws, we, tied)]
             IN /\ ~aggregated => mode = "forward" /\ "aggregation" \in Outages
                /\ att' = [ws |-> ws, we |-> we, mode |-> mode,
                           totals |-> [i \in Ids |-> Total(i, mode, ws, we, seen[i], aggregated)],
                           seen |-> seen, rows |-> {}, lost |-> FALSE]
  /\ pc' = "plan"
  /\ IF aggregated THEN UNCHANGED faults ELSE Fault
  /\ UNCHANGED <<now, ledger, platform, rewinds>>

\* sighting_plan_for_window asks OpenCTI only when a row of this window, or a
\* backfill, needs the answer; a backfill without it is withheld.
NeedsLookup ==
  LET ids == {i \in Ids : att.seen[i] # {}}
  IN IF att.mode = "backfill" THEN ids # {} ELSE \E i \in ids : PriorRows(i) # {}

Plan(answered) ==
  /\ pc = "plan"
  /\ ~answered => NeedsLookup /\ att.mode # "backfill" /\ "lookup" \in Outages
  /\ att' = [att EXCEPT !.rows = RowsOf(answered)]
  /\ pc' = "record"
  /\ IF answered THEN UNCHANGED faults ELSE Fault
  /\ UNCHANGED <<now, ledger, platform, rewinds>>

\* INSERT OR REPLACE on the key (sighting_id, window_start).
SameKey(r, n) == n.id = r.id /\ n.ws = r.ws
WithRowsIgnored(rows) == sent \cup {n \in rows : \A r \in sent : ~SameKey(r, n)}  \* mutant
WithRows(rows) == {r \in sent : \A n \in rows : ~SameKey(r, n)} \cup rows

\* record_sightings_sent, in one transaction, then the publish begins.
Record ==
  /\ pc = "record"
  /\ sent' = WithRows(att.rows)
  /\ lastSent' = [i \in Ids |->
       IF \E r \in att.rows : r.id = i
       THEN Later(lastSent[i], (CHOOSE r \in att.rows : r.id = i).last) ELSE lastSent[i]]
  /\ inflight' = inflight \cup Writes
  /\ pc' = "publish"
  /\ UNCHANGED <<now, lastRun, counted, stored, att, faults, rewinds>>

\* OpenCTI's upsert: a write that widens the stored period adds its count,
\* any other replaces it.  (first_seen, which can only widen more, is left out.)
Upsert(s, w) ==
  IF Trunc(w.last) > s.last THEN [count |-> s.count + w.count, last |-> Trunc(w.last)]
                            ELSE [s EXCEPT !.count = w.count]

Land(w) ==
  /\ w \in inflight
  /\ stored' = [stored EXCEPT ![w.id] = Upsert(@, w)]
  /\ inflight' = inflight \ {w}
  /\ UNCHANGED <<now, ledger, pc, att, faults, rewinds>>

Lose(w) ==
  /\ w \in inflight
  /\ Fault
  /\ inflight' = inflight \ {w}
  /\ att' = [att EXCEPT !.lost = @ \/ w \in Writes]
  /\ UNCHANGED <<now, ledger, stored, pc, rewinds>>

\* publish() returned without an error.
PublishedClean ==
  /\ pc = "publish"
  /\ ~att.lost
  /\ inflight \cap Writes = {}
  /\ pc' = "mark"
  /\ UNCHANGED <<now, ledger, platform, att, faults, rewinds>>

\* publish() returned errors: a write was lost, or a wait timed out or another
\* pass failed although every write landed or still may.  The cursor stays and
\* the rows stay in the ledger.
PublishedUnclean ==
  /\ pc = "publish"
  /\ IF att.lost THEN UNCHANGED faults ELSE Fault
  /\ Abandon
  /\ pc' = "idle"
  /\ att' = NoAttempt
  /\ UNCHANGED <<now, ledger, stored, rewinds>>

RowsKept(ws) == sent                                             \* mutant
RowsElsewhere(ws) == {r \in sent : r.ws # ws}

\* mark_window_counted: the window joins the intervals and the rows of its
\* window_start go, in one transaction.
MarkCounted ==
  /\ pc = "mark"
  /\ counted' = counted \cup Window(att.ws, att.we)
  /\ sent' = RowsElsewhere(att.ws)
  /\ pc' = "advance"
  /\ UNCHANGED <<now, lastRun, lastSent, platform, att, faults, rewinds>>

Advance ==
  /\ pc = "advance"
  /\ lastRun' = att.we
  /\ pc' = "idle"
  /\ att' = NoAttempt
  /\ UNCHANGED <<now, counted, sent, lastSent, platform, faults, rewinds>>

\* The process dies, or a step that only withholds the publish fails.
Crash ==
  /\ pc # "idle"
  /\ Fault
  /\ Abandon
  /\ pc' = "idle"
  /\ att' = NoAttempt
  /\ UNCHANGED <<now, ledger, stored, rewinds>>

\* The operator sets last_run between cycles.
MaySetCursor(t) ==
  \/ t >= Start
  \/ RewindPolicy = "afterClean" /\ \E c \in counted : c >= Start
  \/ RewindPolicy = "any"

SetCursor(t) ==
  /\ pc = "idle"
  /\ rewinds < MaxRewinds
  /\ MaySetCursor(t)
  /\ lastRun' = t
  /\ rewinds' = rewinds + 1
  /\ UNCHANGED <<now, counted, sent, lastSent, platform, pc, att, faults>>

Next ==
  \/ Tick
  \/ \E aggregated \in BOOLEAN : BeginCycle(aggregated)
  \/ \E answered \in BOOLEAN : Plan(answered)
  \/ Record
  \/ \E w \in inflight : Land(w)
  \/ \E w \in inflight : Lose(w)
  \/ PublishedClean
  \/ PublishedUnclean
  \/ MarkCounted
  \/ Advance
  \/ Crash
  \/ \E t \in 0..now : SetCursor(t)

Spec == Init /\ [][Next]_vars

-----------------------------------------------------------------------------
(* Safety.                                                                 *)

\* Ticks of windows an unclean attempt has sent writes for.
Open == UNION {Window(r.ws, r.we) : r \in sent}

EventsOf(i, S) == Cardinality(Hits[i] \cap S)

\* A write that reaches OpenCTI widens what is stored, so it is added: no
\* sequence of crashes, retries, rewinds and backfills, and no two events in
\* one millisecond, ever makes a write that replaces a stored total by a delta
\* (finalize_sighting_counts, sighting_floor).
WritesWiden == \A w \in inflight : Trunc(w.last) > stored[w.id].last

\* OpenCTI never holds more events than the hive has in the windows counted
\* so far and in the one unclean attempt that is open.
NeverInflates ==
  \A i \in Ids : stored[i].count <= Legacy[i].count + EventsOf(i, counted \cup Open)

\* Once no attempt is open, what OpenCTI holds for a Sighting is exactly the
\* events of the counted windows.
ExactWhenClosed ==
  pc = "idle" /\ sent = {} =>
    \A i \in Ids : stored[i].count = Legacy[i].count + EventsOf(i, counted)

\* Nothing reaches OpenCTI that the ledger did not record first: every write
\* in flight has its row, and no stored last_seen is later than the ledger's.
LedgerFirst ==
  /\ \A w \in inflight : \E r \in sent : WriteOf(r) = w
  /\ \A i \in Ids : stored[i] # Legacy[i] => stored[i].last <= Trunc(lastSent[i])

\* At most one window is ever unresolved, so the landed share of an attempt
\* can be told from OpenCTI's single last_seen.
OneOpenWindow == \A r, s \in sent : r.ws = s.ws

\* "Next cycle will retry the same window": as long as nobody moves the
\* cursor, the window that follows an unclean attempt starts where it did.
RetriesSameWindow ==
  pc = "idle" /\ rewinds = 0 => \A r \in sent : r.ws = WindowStart

\* As long as nobody moves the cursor, every instant below it was published
\* cleanly: an outage is caught up window by window, never jumped over.
NoGapBelowCursor ==
  rewinds = 0 /\ Start # NoTime => Window(Start, lastRun) \subseteq counted

\* Everything above in one picture: the totals OpenCTI shows behave like the
\* tally of module SightingTally.
Tally == INSTANCE SightingTally
           WITH Before <- [i \in Ids |-> Legacy[i].count],
                tally <- [i \in Ids |-> stored[i].count], done <- counted, tried <- Open
ImplementsTally == Tally!Spec

-----------------------------------------------------------------------------
(* Liveness.  The main loop starts a cycle as long as the process runs, and *)
(* MaxFaults bounds the outages: OpenCTI and the process recover in the end.*)

Fairness ==
  /\ WF_vars(Tick)
  /\ WF_vars(BeginCycle(TRUE))
  /\ WF_vars(Plan(TRUE))
  /\ WF_vars(Record)
  /\ WF_vars(\E w \in inflight : Land(w))
  /\ WF_vars(PublishedClean)
  /\ WF_vars(att.lost /\ PublishedUnclean)
  /\ WF_vars(MarkCounted)
  /\ WF_vars(Advance)

FairSpec == Spec /\ Fairness

\* However its attempts fail on the way, the cursor reaches every instant, as
\* long as nobody moves it: a rewind off an unclean window is rejected for ever.
CatchesUp == [](rewinds = 0) => \A t \in 0..MaxTime : (now = t) ~> (lastRun >= t)
=============================================================================
