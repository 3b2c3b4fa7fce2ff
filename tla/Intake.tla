-------------------------------- MODULE Intake ---------------------------------
(* The first half of a cycle: stream the window's documents from              *)
(* Elasticsearch page by page (es_client.stream_events), send each through    *)
(* the gates (main._run_cycle_locked), stop at the volume cap, and correlate  *)
(* what is left into sessions.  Documents keep arriving, some long after      *)
(* their timestamp; Elasticsearch or the second half of the cycle may fail,   *)
(* and the window is then read again.                                         *)
EXTENDS Parsers

CONSTANTS
  Documents,    \* what the sensors will ever write
  Late,         \* documents that reach the index after their time
  MaxEvents,    \* TPOT2CTI_MAX_EVENTS_PER_CYCLE
  PageSize,     \* batch_size
  MaxWindow,    \* 24 h, in the unit of timestamps
  FattEvery,    \* TPOT2CTI_FATT_CYCLE_MULTIPLIER
  IgnoreTypes,  \* TPOT2CTI_IGNORE_TYPES
  Own,          \* our honeypots, private and excluded networks
  ByOrigin,     \* addresses of research scanners known by AS number or AS name
  ByName,       \* addresses whose confirmed name is a research scanner's
  LookupBudget, \* TPOT2CTI_BENIGN_RDNS_BUDGET
  KeepIcs,      \* cfg.cycle.ics_refusals
  MaxSalvaged,  \* _MAX_UNATTRIBUTED_PER_CYCLE
  Horizon,      \* bound: the clock stops
  MaxFaults     \* bound: failed cycles

(* Elasticsearch sorts by timestamp and _doc, and no two documents share both;*)
(* what a document says is finite, and measured by its length.                *)
ASSUME IntakeAssumption ==
  /\ IsFiniteSet(Documents) /\ Late \subseteq Documents
  /\ \A d \in Documents : d.ts \in Nat /\ d.pos \in Nat
  /\ \A d, e \in Documents : d.ts = e.ts /\ d.pos = e.pos => d = e
  /\ \A d \in Documents :
       d.at \in Nat /\ IsFiniteSet(d.facts) /\ \A f \in d.facts : f.value \in Nat
  /\ {PageSize, MaxWindow, FattEvery} \subseteq Nat \ {0} /\ Gap \in Nat

VARIABLES
  now, index,   \* the clock, and the documents Elasticsearch holds
  cursor,       \* state.last_run
  cycle,        \* number of the cycle, modulo FattEvery
  pc,           \* "idle", "stream", "correlate", "publish"
  from, to,     \* the window
  page, after, ended,   \* hits still to be consumed, search_after, no page left
  read, parsed, dropped, capped,   \* events_read, parsed events, reason -> count
  taken,        \* documents of this cycle that went through the gates
  salvaged,     \* unattributed_events
  budget, names,        \* _rdns_budget (0 too when its time is spent), the resolver's cache
  sessions,     \* of this cycle
  broken,       \* events of this cycle whose correlation or aggregation raised
  done,         \* documents consumed by completed cycles
  lost,         \* those whose event was broken
  published,    \* <<source, fact>> of the sessions of completed cycles
  overdue,      \* documents indexed after their window had been read
  faults

window  == <<from, to>>
stream  == <<page, after, ended>>
tally   == <<read, parsed, dropped, capped, taken, salvaged>>
correlated == <<sessions, broken>>
history == <<done, lost, published, overdue>>
vars == <<now, index, cursor, cycle, pc, window, stream, tally, budget, names, correlated,
          history, faults>>

--------------------------------------------------------------------------------
Reasons == {"unparsed", "src_ip_rejected", "self_or_internal", "benign_scanner"}
NoKey == <<0, 0>>
Idle == pc = "idle"

FattThisCycle == cycle = 0
Ignored == IgnoreTypes \cup (IF FattThisCycle THEN {} ELSE {"Fatt"})

(* _build_query *)
Matches(d) ==
  /\ from <= d.ts /\ d.ts < to
  /\ d.type \notin Ignored
  /\ d.type = "Suricata" => d.alert

(* a page of stream_events: the hits after search_after, by timestamp and _doc *)
FirstOf(hits) ==
  LET rank(d) == Cardinality({e \in hits : Before(Key(e), Key(d))})
      size == IF Cardinality(hits) < PageSize THEN Cardinality(hits) ELSE PageSize
  IN [i \in 1..size |-> CHOOSE d \in hits : rank(d) = i - 1]
PageTimeOnly == FirstOf({d \in index : Matches(d) /\ after[1] < d.ts})  \* mutant
Page == FirstOf({d \in index : Matches(d) /\ Before(after, Key(d))})

--------------------------------------------------------------------------------
(* Environment *)
Tick ==
  /\ now < Horizon
  /\ now' = now + 1
  /\ index' = index \cup {d \in Documents \ Late : d.ts = now}
  /\ UNCHANGED <<cursor, cycle, pc, window, stream, tally, budget, names, correlated,
                 history, faults>>

Arrive(d) ==
  /\ d \in Late \ index /\ d.ts < now
  /\ index' = index \cup {d}
  /\ overdue' = IF d.ts < (IF Idle THEN cursor ELSE to) THEN overdue \cup {d} ELSE overdue
  /\ UNCHANGED <<now, cursor, cycle, pc, window, stream, tally, budget, names, correlated,
                 done, lost, published, faults>>

(* A cached name reaches its age limit or is evicted (rdns.py); only the      *)
(* stream asks for it.                                                        *)
Forget(a) ==
  /\ pc = "stream" /\ a \in DOMAIN names
  /\ names' = [b \in DOMAIN names \ {a} |-> names[b]]
  /\ UNCHANGED <<now, index, cursor, cycle, pc, window, stream, tally, budget, correlated,
                 history, faults>>

--------------------------------------------------------------------------------
(* The stream.  What a cycle keeps to itself is gone when it ends.            *)
EndCycle ==
  /\ pc' = "idle" /\ from' = cursor' /\ to' = cursor'
  /\ page' = <<>> /\ after' = NoKey /\ ended' = FALSE
  /\ read' = 0 /\ parsed' = <<>> /\ dropped' = [r \in Reasons |-> 0] /\ capped' = FALSE
  /\ taken' = {} /\ salvaged' = 0 /\ budget' = 0
  /\ sessions' = {} /\ broken' = {}

StartCycle ==
  /\ Idle /\ cursor < now
  /\ cycle' = (cycle + 1) % FattEvery
  /\ from' = cursor
  /\ to' = IF now - cursor > MaxWindow THEN cursor + MaxWindow ELSE now
  /\ budget' = LookupBudget
  /\ pc' = "stream"
  /\ UNCHANGED <<now, index, cursor, stream, tally, names, correlated, history,
                 faults>>

FetchPage ==
  /\ pc = "stream" /\ page = <<>> /\ ~ended
  /\ page' = Page
  /\ ended' = (Len(Page) < PageSize)
  /\ after' = IF Page = <<>> THEN after ELSE Key(Last(Page))
  /\ UNCHANGED <<now, index, cursor, cycle, pc, window, tally, budget, names, correlated,
                 history, faults>>

(* the search failed, and again after two seconds: record_cycle_failure, raise *)
FetchFails ==
  /\ pc = "stream" /\ page = <<>> /\ ~ended /\ faults < MaxFaults
  /\ faults' = faults + 1
  /\ UNCHANGED <<now, index, cursor, cycle, names, history>>
  /\ EndCycle

EndOfStream ==
  /\ pc = "stream" /\ page = <<>> /\ ended
  /\ pc' = "correlate"
  /\ UNCHANGED <<now, index, cursor, cycle, window, stream, tally, budget, names, correlated,
                 history, faults>>

(* The cap: stop at a document later than the start of the window.  The       *)
(* document is counted as read; the window ends at its timestamp.             *)
AtCapAlways(d) ==                                                   \* mutant
  MaxEvents # 0 /\ read + 1 >= MaxEvents /\ d.stamp = "@timestamp"
AtCap(d) ==
  /\ MaxEvents # 0 /\ read + 1 >= MaxEvents
  /\ d.stamp = "@timestamp" /\ d.ts > from
CutAfter(d) == d.ts + 1                                             \* mutant
Cut(d) == d.ts

StopAtCap ==
  /\ pc = "stream" /\ page # <<>> /\ AtCap(Head(page))
  /\ read' = read + 1 /\ capped' = TRUE
  /\ to' = Cut(Head(page))
  /\ pc' = "correlate"
  /\ UNCHANGED <<now, index, cursor, cycle, from, stream, parsed, dropped, taken, salvaged,
                 budget, names, correlated, history, faults>>

(* The gates, in their order.  Each takes the next document.                  *)
Next_(d) == pc = "stream" /\ page # <<>> /\ d = Head(page) /\ ~AtCap(d)
Taken ==
  /\ page' = Tail(page) /\ read' = read + 1 /\ taken' = taken \cup {Head(page)}
  /\ UNCHANGED <<now, index, cursor, cycle, pc, window, after, ended, capped, correlated,
                 history, faults>>
Drop(reason) == dropped' = [dropped EXCEPT ![reason] = @ + 1] /\ parsed' = parsed
Keep(d) == parsed' = Append(parsed, Event(d)) /\ dropped' = dropped

Unattributable(d) == Source(d) \notin Addresses \cup {NoSource}
Jndi(d) == \E f \in Event(d).facts : f.kind = "jndi"

Unparsed ==
  \E d \in Documents :
    /\ Next_(d) /\ ~Accepted(d)
    /\ Drop("unparsed") /\ Taken /\ UNCHANGED <<salvaged, budget, names>>

BadSourceSilently(d) ==                                             \* mutant
  /\ salvaged' = IF Jndi(d) /\ salvaged < MaxSalvaged THEN salvaged + 1 ELSE salvaged
  /\ IF Jndi(d) THEN UNCHANGED <<parsed, dropped>> ELSE Drop("src_ip_rejected")
BadSourceUncapped(d) ==                                             \* mutant
  /\ salvaged' = IF Jndi(d) THEN salvaged + 1 ELSE salvaged
  /\ Drop("src_ip_rejected")
BadSource(d) ==
  /\ salvaged' = IF Jndi(d) /\ salvaged < MaxSalvaged THEN salvaged + 1 ELSE salvaged
  /\ Drop("src_ip_rejected")
RejectSource ==
  \E d \in Documents :
    /\ Next_(d) /\ Accepted(d) /\ Unattributable(d)
    /\ BadSource(d) /\ Taken /\ UNCHANGED <<budget, names>>

OwnSource ==
  \E d \in Documents :
    /\ Next_(d) /\ Accepted(d) /\ ~Unattributable(d) /\ Source(d) \in Own
    /\ Drop("self_or_internal") /\ Taken /\ UNCHANGED <<salvaged, budget, names>>

(* benign_filter.match.  An address not known by origin is looked up by name, *)
(* while the budget of lookups and of time lasts, and the answer kept; a      *)
(* lookup may fail.                                                           *)
Screened(d) ==
  Next_(d) /\ Accepted(d) /\ ~Unattributable(d) /\ Source(d) \notin Own
Verdict(d, benign) ==
  IF benign /\ ~(Industrial(Event(d)) /\ KeepIcs) THEN Drop("benign_scanner") ELSE Keep(d)

ScreenKnown ==
  \E d \in Documents :
    LET a == Source(d) IN
    /\ Screened(d)
    /\ a \in ByOrigin \cup DOMAIN names \/ budget = 0
    /\ Verdict(d, a \in ByOrigin \/ (a \in DOMAIN names /\ names[a]))
    /\ Taken /\ UNCHANGED <<salvaged, budget, names>>

ScreenByName ==
  \E d \in Documents, benign \in BOOLEAN :
    LET a == Source(d) IN
    /\ Screened(d) /\ a \notin ByOrigin \cup DOMAIN names /\ budget > 0
    /\ benign => a \in ByName
    /\ budget' \in {budget - 1, 0}
    /\ names' = IF a = NoSource THEN names
                ELSE [b \in DOMAIN names \cup {a} |-> IF b = a THEN benign ELSE names[b]]
    /\ Verdict(d, benign)
    /\ Taken /\ UNCHANGED salvaged

--------------------------------------------------------------------------------
(* parser.correlate, type by type.  When it raises, the type is left out of   *)
(* the cycle; an aggregator that raises leaves its session with what it had   *)
(* said so far, unless it is the industrial one, which is asked once more.    *)
OfType(t) == {e \in Range(parsed) : e.type = t}
Correlated(types) == UNION {Correlate(t, OfType(t)) : t \in types}
Forgiving(s) == Parser(s.type).groups # "one" /\ \A e \in s.events : ~Industrial(e)

CorrelateAll ==
  /\ pc = "correlate" /\ pc' = "publish"
  /\ LET types == {e.type : e \in Range(parsed)} IN
     \/ sessions' = Correlated(types) /\ broken' = {} /\ UNCHANGED faults
     \/ /\ faults < MaxFaults /\ faults' = faults + 1
        /\ \/ \E t \in types : sessions' = Correlated(types \ {t}) /\ broken' = OfType(t)
           \/ \E s \in Correlated(types) : \E said \in SUBSET s.facts :
                /\ Forgiving(s)
                /\ sessions' = (Correlated(types) \ {s}) \cup {[s EXCEPT !.facts = said]}
                /\ broken' = s.events
  /\ UNCHANGED <<now, index, cursor, cycle, window, stream, tally, budget, names, history>>

(* The second half of the cycle: the cursor moves to the end of the window *)
Complete ==
  /\ pc = "publish"
  /\ cursor' = to
  /\ LET gone == {d \in taken : d.ts < to} IN
       /\ done' = done \cup gone
       /\ lost' = lost \cup {d \in gone : Event(d) \in broken}
  /\ published' = published \cup UNION {{<<s.src, f>> : f \in s.facts} : s \in sessions}
  /\ UNCHANGED <<now, index, cycle, names, overdue, faults>>
  /\ EndCycle

Fail ==
  /\ pc = "publish" /\ faults < MaxFaults
  /\ faults' = faults + 1
  /\ UNCHANGED <<now, index, cursor, cycle, names, history>>
  /\ EndCycle

Init ==
  /\ now = 1 /\ index = {} /\ cursor = 1 /\ cycle = 0 /\ pc = "idle"
  /\ from = 1 /\ to = 1
  /\ page = <<>> /\ after = NoKey /\ ended = FALSE
  /\ read = 0 /\ parsed = <<>> /\ dropped = [r \in Reasons |-> 0] /\ capped = FALSE
  /\ taken = {} /\ salvaged = 0 /\ budget = 0 /\ names = [a \in {} |-> FALSE]
  /\ sessions = {} /\ broken = {} /\ done = {} /\ lost = {} /\ published = {}
  /\ overdue = {} /\ faults = 0

CycleStep ==
  \/ StartCycle \/ FetchPage \/ EndOfStream \/ StopAtCap
  \/ Unparsed \/ RejectSource \/ OwnSource \/ ScreenKnown \/ ScreenByName
  \/ CorrelateAll \/ Complete
Next ==
  \/ CycleStep \/ FetchFails \/ Fail
  \/ Tick \/ \E d \in Documents : Arrive(d)
  \/ \E a \in Addresses : Forget(a)

Spec == Init /\ [][Next]_vars /\ WF_vars(CycleStep) /\ WF_vars(Tick)

--------------------------------------------------------------------------------
TypeOK ==
  /\ now \in 1..Horizon /\ index \subseteq Documents /\ cursor \in 1..now
  /\ cycle \in 0..FattEvery - 1 /\ pc \in {"idle", "stream", "correlate", "publish"}
  /\ from \in 1..now /\ to \in from..now
  /\ Range(page) \subseteq Documents /\ after \in Nat \X Nat /\ ended \in BOOLEAN
  /\ read \in Nat /\ dropped \in [Reasons -> Nat] /\ capped \in BOOLEAN
  /\ \A i \in DOMAIN parsed : parsed[i].src \in Addresses \cup {NoSource}
  /\ taken \subseteq Documents /\ salvaged \in 0..MaxSalvaged /\ budget \in 0..LookupBudget
  /\ DOMAIN names \subseteq Addresses /\ \A a \in DOMAIN names : names[a] \in BOOLEAN
  /\ \A s \in sessions : s.first <= s.last
  /\ done \cup overdue \subseteq Documents /\ lost \subseteq done /\ broken \subseteq Range(parsed)
  /\ faults \in 0..MaxFaults

(* Nothing is left behind the cursor: a document the cycles are meant to read *)
(* and that was in the index when its window was read has gone through the    *)
(* gates of a completed cycle, whatever the cap cut off, whichever cycles     *)
(* failed and wherever a page ended.                                          *)
Wanted(d) ==
  /\ d.type \notin IgnoreTypes /\ (d.type = "Fatt" => FattEvery = 1)
  /\ d.type = "Suricata" => d.alert
NothingLeftBehind ==
  \A d \in index \ overdue : Wanted(d) /\ d.ts < cursor => d \in done

(* Every document read is accounted for by exactly one counter, except the    *)
(* one that trips the cap, which the next cycle reads again.                  *)
Dropped ==
  dropped["unparsed"] + dropped["src_ip_rejected"] + dropped["self_or_internal"]
    + dropped["benign_scanner"]
ReadAccounted == ~Idle => read = Len(parsed) + Dropped + (IF capped THEN 1 ELSE 0)

(* The sessions of a cycle divide its events: each event is in exactly one,   *)
(* and two are in the same one just when their parser says they belong        *)
(* together, in whatever order they arrived and whoever else attacked.  Only  *)
(* a type whose correlation raised is in none, and then all of it.            *)
Belong(e, f) ==
  LET batch  == OfType(e.type)
      mine   == {g \in batch : Actor(g) = Actor(e)}
      groups == Parser(e.type).groups
      byId   == CASE groups = "any" -> \E g \in batch : HasId(g)
                  [] groups = "all" -> \A g \in batch : HasId(g)
                  [] OTHER -> groups = "id"
      linked(x, y) == \A g \in mine : x.at <= g.at /\ g.at < y.at
                        => \E h \in mine : g.at < h.at /\ h.at <= g.at + Gap
  IN \/ e = f
     \/ /\ e.type = f.type /\ Actor(e) = Actor(f)
        /\ groups # "one"
        /\ IF byId THEN HasId(e) /\ e.sid = f.sid
           ELSE IF e.at <= f.at THEN linked(e, f) ELSE linked(f, e)
SessionsExact ==
  pc = "publish" =>
    LET grouped == UNION {s.events : s \in sessions} IN
    /\ grouped \subseteq Range(parsed)
    /\ \A e \in Range(parsed) \ grouped : OfType(e.type) \subseteq broken \ grouped
    /\ \A e \in grouped : Cardinality({s \in sessions : e \in s.events}) = 1
    /\ \A e, f \in grouped : (\E s \in sessions : {e, f} \subseteq s.events) <=> Belong(e, f)

(* What a genuine attacker's documents say reaches the sessions of the cycle  *)
(* that completes their window: no fact is lost between the stream and the    *)
(* sessions, unless its session holds only one of its kind, correlation       *)
(* raised on it, or it is passed over.  Passed over is a document without an  *)
(* id where its parser groups by id, Mailoney's when another of its window    *)
(* has one (correlate_by_session_id), and what an emulator of industrial      *)
(* devices hears besides requests.                                            *)
Genuine(d) == Accepted(d) /\ Source(d) \in Addresses \ (Own \cup ByOrigin \cup ByName)
Nearby(d) ==
  {c \in index : TypeOf(c) = TypeOf(d) /\ c.ts < d.ts + MaxWindow /\ d.ts < c.ts + MaxWindow}
Nameless(d) ==
  /\ SessionId(d) = NoId /\ ~Industrial(Event(d))
  /\ \/ Parser(TypeOf(d)).groups = "id"
     \/ Parser(TypeOf(d)).groups = "any" /\ \E c \in Nearby(d) : SessionId(c) # NoId
Emulated(d) ==
  \E c \in Documents :
    /\ Industrial(Event(c)) /\ TypeOf(c) = TypeOf(d)
    /\ \/ c = d
       \/ SessionId(d) # NoId /\ SessionId(c) = SessionId(d) /\ Actor(Event(c)) = Actor(Event(d))
PassedOver(d, f) == Nameless(d) \/ (Emulated(d) /\ f.kind \notin {"request", "ics"})
EvidenceCarried ==
  \A d \in {c \in done \ lost : Genuine(c)} : \A f \in Event(d).facts :
    \/ <<Source(d), f>> \in published
    \/ PassedOver(d, f)
    \/ /\ f.kind \in DOMAIN Parser(TypeOf(d)).slots
       /\ \E c \in Documents : \E g \in Event(c).facts :
            g.kind = f.kind /\ <<Source(d), g>> \in published

(* The cursor reaches the present, however many documents share one instant.  *)
MovesPastFlood == <>(cursor = Horizon)
================================================================================
