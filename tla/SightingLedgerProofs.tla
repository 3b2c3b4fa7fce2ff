------------------------ MODULE SightingLedgerProofs ------------------------
(***************************************************************************)
(* Proofs about SightingLedger, for every set of Sightings, every stream   *)
(* of events, every clock and every number of faults and cursor moves.     *)
(***************************************************************************)
EXTENDS SightingLedger, TLAPS, FiniteSetTheorems, WellFoundedInduction

-----------------------------------------------------------------------------
(* Millisecond arithmetic (_trunc_ms, sighting_floor).                     *)

\* Truncation stays within the millisecond, and the floor is the next one.
LEMMA TruncFacts ==
  ASSUME NEW t \in Nat
  PROVE  /\ Trunc(t) \in Nat
         /\ Trunc(t) <= t /\ t <= Trunc(t) + 1
         /\ Floor(t) \in Nat
         /\ Trunc(Floor(t)) = Trunc(t) + 2
         /\ Floor(t) > t
BY DEF Trunc, Floor, TicksPerMs

\* Truncation keeps the order of instants.
LEMMA TruncMonotone ==
  ASSUME NEW t \in Nat, NEW u \in Nat, t <= u
  PROVE  Trunc(t) <= Trunc(u)
BY DEF Trunc, TicksPerMs

\* A bounded nonempty set of instants has a last one, which LastOf returns.
LEMMA LastOfIsIn ==
  ASSUME NEW S \in SUBSET Nat, S # {}, NEW top \in Nat, \A t \in S : t <= top
  PROVE  LastOf(S) \in S /\ \A t \in S : t <= LastOf(S)
<1> DEFINE T == {top - t : t \in S}
           R == OpToRel(<, Nat)
<1>0. \A t \in S : top - t \in Nat
  OBVIOUS
<1>1. T \subseteq Nat /\ T # {}
  BY <1>0
<1>2. IsWellFoundedOn(R, Nat)
  BY NatLessThanWellFounded
<1>3. PICK x \in T : \A y \in T : ~(<<y, x>> \in R)
  <2> HIDE DEF T, R
  <2> QED BY <1>1, <1>2, WFMin
<1>4. \A y \in T : ~(y < x)
  BY <1>1, <1>3 DEF OpToRel
<1>5. PICK t \in S : x = top - t
  OBVIOUS
<1>6. \A u \in S : u <= t
  <2> TAKE u \in S
  <2>1. top - u \in T
    OBVIOUS
  <2>2. ~(top - u < top - t)
    BY <2>1, <1>4, <1>5
  <2>3. u \in Nat /\ t \in Nat
    OBVIOUS
  <2> QED
    BY <2>2, <2>3
<1>7. \E v \in S : \A u \in S : u <= v
  BY <1>6
<1> QED
  BY <1>7 DEF LastOf

-----------------------------------------------------------------------------
(* Types.                                                                  *)

\* A Sighting's count is a natural number whichever way it is obtained.
LEMMA TotalIsNat ==
  ASSUME NEW i \in Ids, NEW mode \in Modes, NEW ws, NEW we,
         NEW seen \in SUBSET Nat, IsFiniteSet(seen), NEW aggregated \in BOOLEAN
  PROVE  Total(i, mode, ws, we, seen, aggregated) \in Nat
<1>1. IsFiniteSet(Hits[i] \cap Uncounted(ws, we))
  BY EventAssumption, FS_Subset
<1>2. Cardinality(Hits[i] \cap Uncounted(ws, we)) \in Nat
  BY <1>1, FS_CardinalityType
<1>3. Cardinality(seen) \in Nat
  BY FS_CardinalityType
<1> QED
  BY <1>2, <1>3 DEF Total, Modes

\* What typing needs besides TypeOK: the sessions of an attempt lie within its
\* window, and a row sends something.
AttemptOK ==
  /\ \A i \in Ids : \A t \in att.seen[i] : t <= att.we
  /\ \A r \in att.rows : r.base < r.total

TypeInv == TypeOK /\ AttemptOK

LEMMA InitTypeInv == Init => TypeInv
<1> SUFFICES ASSUME Init PROVE TypeInv
  OBVIOUS
<1> USE DEF Init, NoTime, NoSighting
<1>1. now \in Nat /\ lastRun \in Nat \cup {NoTime}
  BY TimeAssumption
<1>2. stored \in [Ids -> Sighting]
  BY LegacyAssumption
<1>3. att \in Attempt /\ AttemptOK
  BY DEF NoAttempt, Attempt, AttemptOK, Modes
<1> QED
  BY <1>1, <1>2, <1>3 DEF TypeInv, TypeOK

\* The window a cycle begins with, and what it computes over it, is typed.
LEMMA BeginTypeInv ==
  ASSUME TypeInv, NEW aggregated \in BOOLEAN, BeginCycle(aggregated)
  PROVE  TypeInv'
<1> USE DEF NoTime
<1> DEFINE ws == WindowStart
<1>1. ws \in Nat
  BY TimeAssumption DEF TypeInv, TypeOK, WindowStart, Later
<1>2. WindowEnd \in Nat
  BY TimeAssumption DEF TypeInv, TypeOK, WindowEnd
<1>3. PICK we \in {WindowEnd} \cup CapEnds(ws, WindowEnd) :
      \E tied \in IF TieRead /\ we \in CapEnds(ws, WindowEnd)
                  THEN SUBSET {i \in Ids : we \in Parsed[i]} ELSE {{}} :
        att' = [ws |-> ws, we |-> we, mode |-> ScopeMode(ws, we),
                totals |-> [i \in Ids |-> Total(i, ScopeMode(ws, we), ws, we,
                                                Seen(i, ws, we, tied), aggregated)],
                seen |-> [i \in Ids |-> Seen(i, ws, we, tied)], rows |-> {}, lost |-> FALSE]
  BY DEF BeginCycle
<1>4. we \in Nat
  BY <1>1, <1>2, <1>3 DEF CapEnds
<1>5. PICK tied \in SUBSET Ids :
        att' = [ws |-> ws, we |-> we, mode |-> ScopeMode(ws, we),
                totals |-> [i \in Ids |-> Total(i, ScopeMode(ws, we), ws, we,
                                                Seen(i, ws, we, tied), aggregated)],
                seen |-> [i \in Ids |-> Seen(i, ws, we, tied)], rows |-> {}, lost |-> FALSE]
  BY <1>3
<1>6. ScopeMode(ws, we) \in Modes
  BY DEF ScopeMode, Modes
<1>7. ASSUME NEW i \in Ids
      PROVE  /\ Seen(i, ws, we, tied) \in SUBSET Nat
             /\ \A t \in Seen(i, ws, we, tied) : t <= we
             /\ IsFiniteSet(Seen(i, ws, we, tied))
  <2>1. /\ Seen(i, ws, we, tied) \in SUBSET Nat
        /\ \A t \in Seen(i, ws, we, tied) : t <= we
    BY <1>1, <1>4, EventAssumption DEF Seen, Window
  <2>2. Seen(i, ws, we, tied) \subseteq 0..we
    BY <2>1, <1>4
  <2>3. IsFiniteSet(0..we)
    BY <1>4, FS_Interval
  <2> QED
    BY <2>1, <2>2, <2>3, FS_Subset
<1>8. \A i \in Ids : Total(i, ScopeMode(ws, we), ws, we, Seen(i, ws, we, tied), aggregated) \in Nat
  BY <1>6, <1>7, TotalIsNat
<1>9. att' \in Attempt
  <2> HIDE DEF ws
  <2> QED BY <1>1, <1>4, <1>5, <1>6, <1>7, <1>8 DEF Attempt
<1>10. AttemptOK'
  BY <1>5, <1>7 DEF AttemptOK
<1>11. faults' \in Nat
  BY DEF BeginCycle, Fault, TypeInv, TypeOK
<1> QED
  BY <1>9, <1>10, <1>11 DEF TypeInv, TypeOK, BeginCycle, ledger, platform

\* The base of an id is a natural number: it comes from its ledger row.
LEMMA BaseIsNat ==
  ASSUME TypeInv, NEW i \in Ids, NEW answered \in BOOLEAN
  PROVE  Base(i, answered) \in Nat
<1>1. CASE PriorRows(i) = {}
  BY <1>1 DEF Base
<1>2. CASE PriorRows(i) # {}
  <2>1. PriorRow(i) \in sent
    BY <1>2 DEF PriorRow, PriorRows
  <2>2. PriorRow(i).total \in Nat /\ PriorRow(i).base \in Nat
    BY <2>1 DEF TypeInv, TypeOK, Row
  <2> QED
    BY <1>2, <2>2 DEF Base
<1> QED
  BY <1>1, <1>2

\* The latest known last_seen covers the ledger's, and in a backfill
\* OpenCTI's as well.
LEMMA KnownLastFacts ==
  ASSUME TypeInv, NEW i \in Ids
  PROVE  /\ KnownLast(i) \in Nat \cup {NoTime}
         /\ KnownLast(i) >= lastSent[i]
         /\ att.mode = "backfill" => KnownLast(i) >= stored[i].last
<1> DEFINE prior == IF PriorRows(i) = {} THEN NoTime ELSE PriorRow(i).last
           plat == IF att.mode = "backfill" THEN stored[i].last ELSE NoTime
<1>1. lastSent[i] \in Nat \cup {NoTime} /\ plat \in Nat \cup {NoTime}
  BY DEF TypeInv, TypeOK, Sighting
<1>2. prior \in Nat \cup {NoTime}
  <2>1. PriorRows(i) # {} => PriorRow(i) \in sent
    BY DEF PriorRow, PriorRows
  <2> QED
    BY <2>1 DEF TypeInv, TypeOK, Row
<1>3. KnownLast(i) = Later(Later(lastSent[i], prior), plat)
  BY DEF KnownLast
<1> HIDE DEF prior
<1> QED
  BY <1>1, <1>2, <1>3 DEF Later, NoTime

\* The last_seen of a write is later, in OpenCTI's milliseconds, than the
\* window's start and than everything known to have been written.
LEMMA LastSeenFacts ==
  ASSUME TypeInv, NEW i \in Ids, att.seen[i] # {}
  PROVE  /\ LastSeen(i) \in Nat
         /\ Trunc(LastSeen(i)) > att.ws
         /\ KnownLast(i) # NoTime => Trunc(LastSeen(i)) > KnownLast(i)
<1> DEFINE s == LastOf(att.seen[i])
           f == LastSeenFloor(i)
<1>1. att.ws \in Nat /\ att.we \in Nat /\ att.seen[i] \in SUBSET Nat
  BY DEF TypeInv, TypeOK, Attempt
<1>2. s \in Nat
  <2>1. \A t \in att.seen[i] : t <= att.we
    BY DEF TypeInv, AttemptOK
  <2>2. s \in att.seen[i]
    BY <1>1, <2>1, LastOfIsIn
  <2> QED
    BY <1>1, <2>2
<1>3. /\ f \in Nat /\ Trunc(f) = f /\ f > att.ws
      /\ KnownLast(i) # NoTime => f > KnownLast(i)
  <2>1. Floor(att.ws) \in Nat /\ Floor(att.ws) > att.ws /\ Trunc(Floor(att.ws)) = Floor(att.ws)
    BY <1>1, TruncFacts DEF Floor, TicksPerMs
  <2>2. CASE KnownLast(i) = NoTime
    BY <2>1, <2>2 DEF LastSeenFloor
  <2>3. CASE KnownLast(i) # NoTime
    <3>1. KnownLast(i) \in Nat
      BY <2>3, KnownLastFacts
    <3>2. /\ Floor(KnownLast(i)) \in Nat /\ Floor(KnownLast(i)) > KnownLast(i)
          /\ Trunc(Floor(KnownLast(i))) = Floor(KnownLast(i))
      BY <3>1, TruncFacts DEF Floor, TicksPerMs
    <3> QED
      BY <1>1, <2>1, <2>3, <3>1, <3>2 DEF LastSeenFloor, Later
  <2> QED
    BY <2>2, <2>3
<1>4. LastSeen(i) = IF Trunc(s) < f THEN f ELSE s
  BY DEF LastSeen
<1>5. LastSeen(i) \in Nat /\ Trunc(LastSeen(i)) >= f
  <2> HIDE DEF s, f
  <2> QED
    BY <1>2, <1>3, <1>4, TruncFacts
<1>6. Trunc(LastSeen(i)) \in Nat
  BY <1>5, TruncFacts
<1> HIDE DEF f
<1> QED
  BY <1>1, <1>3, <1>5, <1>6, KnownLastFacts

\* A planned row is a row of the attempt's window that sends something.
LEMMA RowsOfFacts ==
  ASSUME TypeInv, NEW answered \in BOOLEAN, NEW r \in RowsOf(answered)
  PROVE  /\ r \in Row
         /\ r.ws = att.ws /\ r.we = att.we
         /\ r.base < r.total
         /\ att.seen[r.id] # {} /\ r.last = LastSeen(r.id)
         /\ r.total = att.totals[r.id]
<1>1. PICK i \in Ids : /\ Emitted(i, answered)
                       /\ r = [id |-> i, ws |-> att.ws, we |-> att.we,
                               total |-> att.totals[i], base |-> Base(i, answered),
                               last |-> LastSeen(i)]
  BY DEF RowsOf
<1>2. att.ws \in Nat /\ att.we \in Nat /\ att.totals[i] \in Nat
  BY DEF TypeInv, TypeOK, Attempt
<1>3. Base(i, answered) \in Nat /\ LastSeen(i) \in Nat
  BY <1>1, BaseIsNat, LastSeenFacts DEF Emitted
<1> QED
  BY <1>1, <1>2, <1>3 DEF Row, Emitted

\* The write of a typed row is typed.
LEMMA WritesFacts ==
  ASSUME TypeInv
  PROVE  Writes \in SUBSET Write
BY DEF Writes, WriteOf, Write, TypeInv, TypeOK, AttemptOK, Attempt, Row

LEMMA NoAttemptOK == NoAttempt \in Attempt /\ NoAttempt.rows = {} /\ \A i \in Ids : NoAttempt.seen[i] = {}
BY DEF NoAttempt, Attempt, Modes

LEMMA NextTypeInv == TypeInv /\ [Next]_vars => TypeInv'
<1> SUFFICES ASSUME TypeInv, [Next]_vars
             PROVE  TypeInv'
  OBVIOUS
<1> USE DEF ledger, platform
<1>1. CASE Tick
  BY <1>1 DEF Tick, TypeInv, TypeOK, AttemptOK
<1>2. ASSUME NEW aggregated \in BOOLEAN, BeginCycle(aggregated)
      PROVE  TypeInv'
  BY <1>2, BeginTypeInv
<1>3. ASSUME NEW answered \in BOOLEAN, Plan(answered)
      PROVE  TypeInv'
  <2>1. att' = [att EXCEPT !.rows = RowsOf(answered)]
    BY <1>3 DEF Plan
  <2>2. RowsOf(answered) \in SUBSET Row
    BY RowsOfFacts
  <2>3. att' \in Attempt
    BY <2>1, <2>2 DEF TypeInv, TypeOK, Attempt
  <2>4. AttemptOK'
    <3>1. att'.seen = att.seen /\ att'.we = att.we /\ att'.rows = RowsOf(answered)
      BY <2>1 DEF TypeInv, TypeOK, Attempt
    <3> QED
      BY <3>1, RowsOfFacts DEF TypeInv, AttemptOK
  <2> QED
    BY <1>3, <2>3, <2>4 DEF Plan, Fault, TypeInv, TypeOK
<1>4. CASE Record
  <2>1. sent' \in SUBSET Row
    BY <1>4 DEF Record, WithRows, TypeInv, TypeOK, Attempt
  <2>2. lastSent' \in [Ids -> Nat \cup {NoTime}]
    <3>1. ASSUME NEW i \in Ids, \E r \in att.rows : r.id = i
          PROVE  (CHOOSE r \in att.rows : r.id = i).last \in Nat
      BY <3>1 DEF TypeInv, TypeOK, Attempt, Row
    <3>2. \A i \in Ids : lastSent[i] \in Nat \cup {NoTime}
      BY DEF TypeInv, TypeOK
    <3> QED
      BY <1>4, <3>1, <3>2 DEF Record, Later
  <2>3. inflight' \in SUBSET Write
    BY <1>4, WritesFacts DEF Record, TypeInv, TypeOK
  <2> QED
    BY <1>4, <2>1, <2>2, <2>3 DEF Record, TypeInv, TypeOK, AttemptOK
<1>5. ASSUME NEW w \in inflight, Land(w)
      PROVE  TypeInv'
  <2>1. w.id \in Ids /\ w.count \in Nat /\ w.last \in Nat
    BY DEF TypeInv, TypeOK, Write
  <2>2. Upsert(stored[w.id], w) \in Sighting
    BY <2>1, TruncFacts DEF Upsert, Sighting, TypeInv, TypeOK
  <2> QED
    BY <1>5, <2>1, <2>2 DEF Land, TypeInv, TypeOK, AttemptOK
<1>6. ASSUME NEW w \in inflight, Lose(w)
      PROVE  TypeInv'
  <2>1. att' \in Attempt /\ att'.seen = att.seen /\ att'.we = att.we /\ att'.rows = att.rows
    BY <1>6 DEF Lose, TypeInv, TypeOK, Attempt
  <2> QED
    BY <1>6, <2>1 DEF Lose, Fault, TypeInv, TypeOK, AttemptOK
<1>7. CASE PublishedClean
  BY <1>7 DEF PublishedClean, TypeInv, TypeOK, AttemptOK
<1>8. CASE PublishedUnclean
  BY <1>8, NoAttemptOK DEF PublishedUnclean, Fault, Abandon, TypeInv, TypeOK, AttemptOK
<1>9. CASE MarkCounted
  <2>1. Window(att.ws, att.we) \in SUBSET Nat
    BY DEF Window, TypeInv, TypeOK, Attempt
  <2> QED
    BY <1>9, <2>1 DEF MarkCounted, RowsElsewhere, TypeInv, TypeOK, AttemptOK
<1>10. CASE Advance
  <2>1. att.we \in Nat
    BY DEF TypeInv, TypeOK, Attempt
  <2> QED
    BY <1>10, <2>1, NoAttemptOK DEF Advance, TypeInv, TypeOK, AttemptOK
<1>11. CASE Crash
  BY <1>11, NoAttemptOK DEF Crash, Fault, Abandon, TypeInv, TypeOK, AttemptOK
<1>12. ASSUME NEW t \in 0..now, SetCursor(t)
       PROVE  TypeInv'
  BY <1>12 DEF SetCursor, TypeInv, TypeOK, AttemptOK
<1>13. CASE UNCHANGED vars
  BY <1>13 DEF vars, TypeInv, TypeOK, AttemptOK
<1> QED
  BY <1>1, <1>2, <1>3, <1>4, <1>5, <1>6, <1>7, <1>8, <1>9, <1>10, <1>11, <1>12, <1>13 DEF Next

LEMMA TypeInvInvariant == Spec => []TypeInv
BY InitTypeInv, NextTypeInv, PTL DEF Spec

\* The ledger, the cursor, OpenCTI's totals and the attempt keep their types.
THEOREM TypeCorrect == Spec => []TypeOK
<1>1. TypeInv => TypeOK
  BY DEF TypeInv
<1> QED
  BY <1>1, TypeInvInvariant, PTL

-----------------------------------------------------------------------------
(* The cursor: one open window, the same one on a retry, nothing skipped.  *)

\* The window of the current attempt starts at the cursor and is the only one
\* with unresolved rows; once it is marked, no row is left.
AttemptAtCursor ==
  /\ Start # NoTime => lastRun # NoTime
  /\ pc # "idle" => \A r \in sent : r.ws = att.ws
  /\ pc # "idle" /\ Start # NoTime => att.ws = lastRun
  /\ \A r \in att.rows : r.ws = att.ws
  /\ pc = "advance" => sent = {} /\ Window(att.ws, att.we) \subseteq counted

OpenAtCursor ==
  pc = "idle" /\ rewinds = 0 /\ Start # NoTime => \A r \in sent : r.ws = lastRun

CursorInv == AttemptAtCursor /\ OpenAtCursor /\ OneOpenWindow /\ NoGapBelowCursor

LEMMA InitCursorInv == Init => CursorInv
BY TimeAssumption DEF Init, CursorInv, AttemptAtCursor, OpenAtCursor, OneOpenWindow,
   NoGapBelowCursor, Window, NoAttempt, NoTime

LEMMA NextCursorInv == TypeInv /\ TypeInv' /\ CursorInv /\ [Next]_vars => CursorInv'
<1> SUFFICES ASSUME TypeInv, TypeInv', CursorInv, [Next]_vars
             PROVE  CursorInv'
  OBVIOUS
<1> USE DEF ledger, platform, CursorInv, AttemptAtCursor, OpenAtCursor, OneOpenWindow,
            NoGapBelowCursor
<1>1. CASE Tick
  BY <1>1 DEF Tick
<1>2. ASSUME NEW aggregated \in BOOLEAN, BeginCycle(aggregated)
      PROVE  CursorInv'
  <2>1. att'.ws = WindowStart /\ att'.rows = {} /\ ~Unclean(WindowStart) /\ pc' = "plan"
    BY <1>2 DEF BeginCycle
  <2>2. Start # NoTime => WindowStart = lastRun
    BY DEF WindowStart
  <2> QED
    BY <1>2, <2>1, <2>2 DEF BeginCycle, Unclean
<1>3. ASSUME NEW answered \in BOOLEAN, Plan(answered)
      PROVE  CursorInv'
  <2>1. att'.ws = att.ws /\ att'.we = att.we /\ att'.rows = RowsOf(answered)
    BY <1>3 DEF Plan, TypeInv, TypeOK, Attempt
  <2>2. \A r \in RowsOf(answered) : r.ws = att.ws
    BY DEF RowsOf
  <2> QED
    BY <1>3, <2>1, <2>2 DEF Plan
<1>4. CASE Record
  BY <1>4 DEF Record, WithRows
<1>5. ASSUME NEW w \in inflight, Land(w)
      PROVE  CursorInv'
  BY <1>5 DEF Land
<1>6. ASSUME NEW w \in inflight, Lose(w)
      PROVE  CursorInv'
  <2>1. att'.ws = att.ws /\ att'.we = att.we /\ att'.rows = att.rows
    BY <1>6 DEF Lose, TypeInv, TypeOK, Attempt
  <2> QED
    BY <1>6, <2>1 DEF Lose
<1>7. CASE PublishedClean
  BY <1>7 DEF PublishedClean
<1>8. CASE PublishedUnclean
  BY <1>8, NoAttemptOK DEF PublishedUnclean
<1>9. CASE MarkCounted
  <2>1. sent' = {} /\ counted' = counted \cup Window(att.ws, att.we) /\ pc' = "advance"
    BY <1>9 DEF MarkCounted, RowsElsewhere
  <2> QED
    BY <1>9, <2>1 DEF MarkCounted
<1>10. CASE Advance
  <2>1. lastRun' = att.we /\ sent' = {} /\ counted' = counted /\ pc' = "idle"
        /\ att' = NoAttempt /\ rewinds' = rewinds
    BY <1>10 DEF Advance
  <2>2. att.we \in Nat /\ att.ws \in Nat
    BY DEF TypeInv, TypeOK, Attempt
  <2>3. ASSUME rewinds = 0, Start # NoTime
        PROVE  Window(Start, att.we) \subseteq counted
    <3>1. Window(Start, att.ws) \subseteq counted /\ Window(att.ws, att.we) \subseteq counted
      BY <1>10, <2>3 DEF Advance
    <3>2. Window(Start, att.we) \subseteq Window(Start, att.ws) \cup Window(att.ws, att.we)
      BY <2>2, <2>3, TimeAssumption DEF Window
    <3> QED
      BY <3>1, <3>2
  <2> QED
    BY <2>1, <2>2, <2>3, NoAttemptOK DEF NoTime
<1>11. CASE Crash
  BY <1>11, NoAttemptOK DEF Crash
<1>12. ASSUME NEW t \in 0..now, SetCursor(t)
       PROVE  CursorInv'
  BY <1>12 DEF SetCursor, NoTime, TypeInv, TypeOK
<1>13. CASE UNCHANGED vars
  BY <1>13 DEF vars, Window
<1> QED
  BY <1>1, <1>2, <1>3, <1>4, <1>5, <1>6, <1>7, <1>8, <1>9, <1>10, <1>11, <1>12, <1>13 DEF Next

LEMMA CursorInvariant == Spec => [](TypeInv /\ CursorInv)
<1>1. Init => TypeInv /\ CursorInv
  BY InitTypeInv, InitCursorInv
<1>2. TypeInv /\ CursorInv /\ [Next]_vars => (TypeInv /\ CursorInv)'
  BY NextTypeInv, NextCursorInv
<1> QED
  BY <1>1, <1>2, PTL DEF Spec

\* Whatever crashes, publishes uncleanly or is moved by the operator, at most
\* one window ever has unresolved rows.
THEOREM SingleOpenWindow == Spec => []OneOpenWindow
<1>1. CursorInv => OneOpenWindow
  BY DEF CursorInv
<1> QED
  BY <1>1, CursorInvariant, PTL

\* As long as nobody moves the cursor, it never passes an instant that was not
\* published cleanly.
THEOREM NothingSkipped == Spec => []NoGapBelowCursor
<1>1. CursorInv => NoGapBelowCursor
  BY DEF CursorInv
<1> QED
  BY <1>1, CursorInvariant, PTL

\* Where a cursor exists, the window after an unclean attempt starts where
\* that attempt's did, so the retry is never rejected.
THEOREM RetryIsNeverRejected ==
  ASSUME Start # NoTime
  PROVE  Spec => []RetriesSameWindow
<1>1. TypeInv /\ CursorInv => RetriesSameWindow
  BY DEF CursorInv, AttemptAtCursor, OpenAtCursor, RetriesSameWindow, WindowStart
<1> QED
  BY <1>1, CursorInvariant, PTL

-----------------------------------------------------------------------------
(* Every write widens.  Two assumptions carry the proof: the writes of an  *)
(* attempt are landed or lost before the next one reads OpenCTI (Settled), *)
(* and the operator moves the cursor below Start only after a clean cycle. *)

\* The cursor is at or above Start unless something above it was published.
Anchored(t) == t >= Start \/ \E c \in counted : c >= Start

CursorAnchored ==
  /\ Anchored(lastRun)
  /\ pc # "idle" => Anchored(att.ws) /\ att.ws <= att.we
  /\ pc = "plan" /\ att.mode = "forward" => att.ws >= Start
  /\ pc = "plan" /\ att.mode = "none" => \A i \in Ids : att.totals[i] = 0

\* The writes in flight are the current attempt's, one per Sighting, and the
\* ledger has them.
AttemptInFlight ==
  /\ inflight \subseteq Writes
  /\ pc # "publish" => inflight = {}
  /\ pc \in {"idle", "plan"} => att.rows = {}
  /\ \A r, s \in att.rows : r.id = s.id => r = s
  /\ pc = "publish" => att.rows \subseteq sent /\ \A r \in att.rows : r.last <= lastSent[r.id]
  /\ pc = "record" => \A r \in att.rows : Trunc(r.last) > stored[r.id].last

LedgerKnows == \A i \in Ids : stored[i] # Legacy[i] => stored[i].last <= Trunc(lastSent[i])

WidenInv == CursorAnchored /\ AttemptInFlight /\ LedgerKnows /\ WritesWiden

LEMMA InitWidenInv == Init => WidenInv
BY DEF Init, WidenInv, CursorAnchored, Anchored, AttemptInFlight, LedgerKnows, WritesWiden,
   NoAttempt, Writes, TimeAssumption, NoTime

\* Truncation never moves an instant forward, the absent one included.
LEMMA TruncBelow ==
  ASSUME NEW t \in Nat \cup {NoTime}
  PROVE  Trunc(t) \in Int /\ Trunc(t) <= t
BY DEF Trunc, TicksPerMs, NoTime

LEMMA TruncMonotoneAbsent ==
  ASSUME NEW t \in Nat \cup {NoTime}, NEW u \in Nat \cup {NoTime}, t <= u
  PROVE  Trunc(t) <= Trunc(u)
BY DEF Trunc, TicksPerMs, NoTime

\* The heart of the argument: whatever an attempt plans to write is later than
\* what OpenCTI stores.  A forward window knows OpenCTI through the ledger and
\* through its own start; a backfill asks OpenCTI.
LEMMA PlannedRowsWiden ==
  ASSUME TypeInv, WidenInv, pc = "plan", NEW answered \in BOOLEAN,
         NEW r \in RowsOf(answered)
  PROVE  Trunc(r.last) > stored[r.id].last
<1> DEFINE i == r.id
           ls == LastSeen(i)
<1>1. i \in Ids /\ att.seen[i] # {} /\ r.last = ls /\ att.totals[i] > 0
  <2>1. r \in Row /\ r.base < r.total /\ att.seen[i] # {} /\ r.last = ls /\ r.total = att.totals[i]
    BY RowsOfFacts
  <2> QED
    BY <2>1 DEF Row
<1>2. /\ ls \in Nat /\ Trunc(ls) > att.ws
      /\ KnownLast(i) # NoTime => Trunc(ls) > KnownLast(i)
  BY <1>1, LastSeenFacts
<1>3. /\ KnownLast(i) \in Nat \cup {NoTime} /\ KnownLast(i) >= lastSent[i]
      /\ att.mode = "backfill" => KnownLast(i) >= stored[i].last
  BY <1>1, KnownLastFacts
<1>4. /\ stored[i].last \in Nat \cup {NoTime} /\ lastSent[i] \in Nat \cup {NoTime}
      /\ Legacy[i].last \in Nat \cup {NoTime} /\ att.ws \in Nat /\ Trunc(ls) \in Nat
  BY <1>1, <1>2, LegacyAssumption, TruncFacts DEF TypeInv, TypeOK, Sighting, Attempt
<1>5. Trunc(ls) > KnownLast(i)
  BY <1>2, <1>3, <1>4 DEF NoTime
<1> SUFFICES Trunc(ls) > stored[i].last
  BY <1>1
<1> HIDE DEF i, ls
<1>6. CASE att.mode = "backfill"
  BY <1>3, <1>4, <1>5, <1>6 DEF NoTime
<1>7. CASE att.mode = "forward" /\ stored[i] = Legacy[i]
  <2>1. att.ws >= Start
    BY <1>7 DEF WidenInv, CursorAnchored
  <2>2. Legacy[i].last = NoTime \/ Legacy[i].last < Start
    BY <1>1, LegacyAssumption DEF NoSighting
  <2> QED
    BY <1>2, <1>4, <1>7, <2>1, <2>2, TimeAssumption DEF NoTime
<1>8. CASE att.mode = "forward" /\ stored[i] # Legacy[i]
  <2>1. stored[i].last <= Trunc(lastSent[i])
    BY <1>1, <1>8 DEF WidenInv, LedgerKnows
  <2>2. Trunc(lastSent[i]) \in Int /\ Trunc(lastSent[i]) <= lastSent[i]
    BY <1>4, TruncBelow
  <2> QED
    BY <1>3, <1>4, <1>5, <2>1, <2>2 DEF NoTime
<1>9. CASE att.mode = "none"
  BY <1>1, <1>9 DEF WidenInv, CursorAnchored
<1>10. att.mode \in Modes
  BY DEF TypeInv, TypeOK, Attempt
<1> QED
  BY <1>6, <1>7, <1>8, <1>9, <1>10 DEF Modes

\* What BeginCycle decides: a forward window lies above everything counted,
\* so it starts at or above Start; a window that is counted adds nothing.
LEMMA BegunAnchored ==
  ASSUME TypeInv, CursorInv, WidenInv, NEW aggregated \in BOOLEAN, BeginCycle(aggregated)
  PROVE  /\ Anchored(att'.ws) /\ att'.ws <= att'.we
         /\ att'.mode = "forward" => att'.ws >= Start
         /\ att'.mode = "none" => \A i \in Ids : att'.totals[i] = 0
         /\ att'.rows = {}
<1> USE DEF NoTime
<1> DEFINE ws == WindowStart
<1>1. ws \in Nat /\ Anchored(ws)
  BY TimeAssumption
  DEF TypeInv, TypeOK, WindowStart, Later, WidenInv, CursorAnchored, Anchored,
      CursorInv, AttemptAtCursor
<1>2. WindowEnd \in Nat /\ (ws < now => ws <= WindowEnd)
  BY <1>1, TimeAssumption DEF TypeInv, TypeOK, WindowEnd, WindowStart, Later
<1>3. PICK we \in {WindowEnd} \cup CapEnds(ws, WindowEnd) :
      \E tied \in IF TieRead /\ we \in CapEnds(ws, WindowEnd)
                  THEN SUBSET {i \in Ids : we \in Parsed[i]} ELSE {{}} :
        att' = [ws |-> ws, we |-> we, mode |-> ScopeMode(ws, we),
                totals |-> [i \in Ids |-> Total(i, ScopeMode(ws, we), ws, we,
                                                Seen(i, ws, we, tied), aggregated)],
                seen |-> [i \in Ids |-> Seen(i, ws, we, tied)],
                rows |-> {}, lost |-> FALSE]
  BY DEF BeginCycle
<1>4. att'.ws = ws /\ att'.we = we /\ att'.mode = ScopeMode(ws, we) /\ att'.rows = {}
  BY <1>3
<1>5. ws <= we
  BY <1>1, <1>2, <1>3 DEF CapEnds, BeginCycle
<1>6. att'.mode = "none" => \A i \in Ids : att'.totals[i] = 0
  BY <1>3 DEF Total
<1>7. ASSUME att'.mode = "forward" PROVE ws >= Start
  <2>1. \A c \in counted : c < ws
    BY <1>4, <1>7 DEF ScopeMode, AtFrontier
  <2>2. \A c \in counted : c \in Nat
    BY DEF TypeInv, TypeOK
  <2> QED
    BY <1>1, <2>1, <2>2, TimeAssumption DEF Anchored
<1> QED
  BY <1>1, <1>4, <1>5, <1>6, <1>7

\* A landed write stores the instant the ledger had recorded for it, and does
\* not touch the Sighting of any other write.
LEMMA LandWiden ==
  ASSUME TypeInv, WidenInv, NEW w \in inflight, Land(w)
  PROVE  LedgerKnows' /\ WritesWiden'
<1> USE DEF NoTime
<1>1. pc = "publish" /\ w \in Writes /\ w \in Write
  BY DEF WidenInv, AttemptInFlight, TypeInv, TypeOK
<1>2. PICK r \in att.rows : w = WriteOf(r)
  BY <1>1 DEF Writes
<1>3. w.id \in Ids /\ w.last \in Nat /\ w.id = r.id /\ w.last = r.last
  BY <1>1, <1>2 DEF Write, WriteOf
<1>4. Trunc(w.last) > stored[w.id].last
  BY DEF WidenInv, WritesWiden
<1>5. stored'[w.id].last = Trunc(w.last) /\ \A i \in Ids \ {w.id} : stored'[i] = stored[i]
  BY <1>3, <1>4 DEF Land, Upsert, TypeInv, TypeOK
<1>6. r.last <= lastSent[r.id]
  BY <1>1 DEF WidenInv, AttemptInFlight
<1>7. Trunc(w.last) <= Trunc(lastSent[w.id])
  <2>1. lastSent[w.id] \in Nat \cup {NoTime}
    BY <1>3 DEF TypeInv, TypeOK
  <2> QED
    BY <1>3, <1>6, <2>1, TruncMonotoneAbsent
<1>8. LedgerKnows'
  BY <1>3, <1>5, <1>7 DEF Land, ledger, LedgerKnows, WidenInv
<1>9. ASSUME NEW v \in inflight', v.id = w.id
      PROVE  FALSE
  <2>1. v \in Writes /\ v # w
    BY <1>9 DEF Land, WidenInv, AttemptInFlight
  <2>2. PICK s \in att.rows : v = WriteOf(s)
    BY <2>1 DEF Writes
  <2>3. s.id = r.id
    BY <1>3, <1>9, <2>2 DEF WriteOf
  <2>4. s = r
    BY <2>3 DEF WidenInv, AttemptInFlight
  <2> QED
    BY <1>2, <2>1, <2>2, <2>4
<1>10. WritesWiden'
  <2> SUFFICES ASSUME NEW v \in inflight'
               PROVE  Trunc(v.last) > stored'[v.id].last
    BY DEF WritesWiden, Trunc
  <2>1. v \in inflight /\ v.id \in Ids
    BY DEF Land, TypeInv, TypeOK, Write
  <2>2. stored'[v.id] = stored[v.id]
    BY <1>5, <1>9, <2>1
  <2> QED
    BY <2>1, <2>2 DEF WidenInv, WritesWiden
<1> QED
  BY <1>8, <1>10

LEMMA NextWidenInv ==
  ASSUME Settled, RewindPolicy # "any"
  PROVE  TypeInv /\ TypeInv' /\ CursorInv /\ WidenInv /\ [Next]_vars => WidenInv'
<1> SUFFICES ASSUME TypeInv, TypeInv', CursorInv, WidenInv, [Next]_vars
             PROVE  WidenInv'
  OBVIOUS
<1> USE DEF ledger, platform, WidenInv, CursorAnchored, Anchored, AttemptInFlight,
            LedgerKnows, WritesWiden, Writes
<1>1. CASE Tick
  BY <1>1 DEF Tick
<1>2. ASSUME NEW aggregated \in BOOLEAN, BeginCycle(aggregated)
      PROVE  WidenInv'
  <2>1. /\ pc = "idle" /\ pc' = "plan" /\ inflight = {}
        /\ UNCHANGED <<lastRun, counted, sent, lastSent, stored, inflight>>
    BY <1>2 DEF BeginCycle
  <2>2. /\ Anchored(att'.ws) /\ att'.ws <= att'.we
        /\ att'.mode = "forward" => att'.ws >= Start
        /\ att'.mode = "none" => \A i \in Ids : att'.totals[i] = 0
        /\ att'.rows = {}
    BY <1>2, BegunAnchored
  <2> QED
    BY <2>1, <2>2
<1>3. ASSUME NEW answered \in BOOLEAN, Plan(answered)
      PROVE  WidenInv'
  <2>1. /\ pc = "plan" /\ pc' = "record" /\ inflight' = {}
        /\ att'.ws = att.ws /\ att'.we = att.we /\ att'.rows = RowsOf(answered)
        /\ UNCHANGED <<lastRun, counted, sent, lastSent, stored, inflight>>
    BY <1>3 DEF Plan, TypeInv, TypeOK, Attempt
  <2>2. \A r \in RowsOf(answered) : Trunc(r.last) > stored[r.id].last
    BY <2>1, PlannedRowsWiden
  <2>3. \A r, s \in RowsOf(answered) : r.id = s.id => r = s
    BY DEF RowsOf
  <2> QED
    BY <2>1, <2>2, <2>3 DEF Trunc
<1>4. CASE Record
  <2>1. /\ pc = "record" /\ pc' = "publish" /\ inflight = {} /\ inflight' = Writes
        /\ att' = att /\ att.rows \subseteq sent'
        /\ UNCHANGED <<lastRun, counted, stored>>
    BY <1>4 DEF Record, WithRows
  <2>2. \A i \in Ids : lastSent[i] \in Nat \cup {NoTime} /\ lastSent'[i] \in Nat \cup {NoTime}
    BY DEF TypeInv, TypeOK
  <2>3. ASSUME NEW r \in att.rows
        PROVE  r.id \in Ids /\ r.last \in Nat /\ r.last <= lastSent'[r.id]
               /\ lastSent[r.id] <= lastSent'[r.id]
    <3>1. r.id \in Ids /\ r.last \in Nat
      BY DEF TypeInv, TypeOK, Attempt, Row
    <3>2. (CHOOSE x \in att.rows : x.id = r.id) = r
      OBVIOUS
    <3>3. lastSent'[r.id] = Later(lastSent[r.id], r.last)
      BY <1>4, <3>1, <3>2 DEF Record
    <3> QED
      BY <2>2, <3>1, <3>3 DEF Later, NoTime
  <2>4. \A i \in Ids : lastSent[i] <= lastSent'[i]
    <3> SUFFICES ASSUME NEW i \in Ids PROVE lastSent[i] <= lastSent'[i]
      OBVIOUS
    <3>1. CASE \E r \in att.rows : r.id = i
      BY <2>3, <3>1
    <3>2. CASE ~\E r \in att.rows : r.id = i
      BY <1>4, <2>2, <3>2 DEF Record, NoTime
    <3> QED
      BY <3>1, <3>2
  <2>5. LedgerKnows'
    <3> SUFFICES ASSUME NEW i \in Ids, stored[i] # Legacy[i]
                 PROVE  stored[i].last <= Trunc(lastSent'[i])
      BY <2>1 DEF Trunc
    <3>1. stored[i].last <= Trunc(lastSent[i]) /\ stored[i].last \in Nat \cup {NoTime}
      BY DEF TypeInv, TypeOK, Sighting
    <3>2. /\ Trunc(lastSent[i]) <= Trunc(lastSent'[i])
          /\ Trunc(lastSent[i]) \in Int /\ Trunc(lastSent'[i]) \in Int
      BY <2>2, <2>4, TruncMonotoneAbsent, TruncBelow
    <3> QED
      BY <3>1, <3>2 DEF NoTime
  <2>6. WritesWiden'
    <3> SUFFICES ASSUME NEW r \in att.rows
                 PROVE  Trunc(WriteOf(r).last) > stored[WriteOf(r).id].last
      BY <2>1 DEF Trunc
    <3> QED
      BY <2>1 DEF WriteOf
  <2>7. CursorAnchored'
    BY <2>1
  <2>8. AttemptInFlight'
    BY <2>1, <2>3 DEF WriteOf
  <2> QED
    BY <2>5, <2>6, <2>7, <2>8
<1>5. ASSUME NEW w \in inflight, Land(w)
      PROVE  WidenInv'
  <2>1. LedgerKnows' /\ WritesWiden'
    BY <1>5, LandWiden
  <2>2. CursorAnchored' /\ AttemptInFlight'
    BY <1>5 DEF Land
  <2> QED
    BY <2>1, <2>2
<1>6. ASSUME NEW w \in inflight, Lose(w)
      PROVE  WidenInv'
  <2>1. att'.ws = att.ws /\ att'.we = att.we /\ att'.rows = att.rows /\ att'.mode = att.mode
        /\ att'.totals = att.totals
    BY <1>6 DEF Lose, TypeInv, TypeOK, Attempt
  <2> QED
    BY <1>6, <2>1 DEF Lose, Trunc, WriteOf
<1>7. CASE PublishedClean
  BY <1>7 DEF PublishedClean
<1>8. CASE PublishedUnclean
  BY <1>8, NoAttemptOK DEF PublishedUnclean, Abandon
<1>9. CASE MarkCounted
  BY <1>9 DEF MarkCounted
<1>10. CASE Advance
  <2>1. Anchored(att.we)
    BY <1>10, TimeAssumption DEF Advance, TypeInv, TypeOK, Attempt, NoTime
  <2> QED
    BY <1>10, <2>1, NoAttemptOK DEF Advance
<1>11. CASE Crash
  BY <1>11, NoAttemptOK DEF Crash, Abandon
<1>12. ASSUME NEW t \in 0..now, SetCursor(t)
       PROVE  WidenInv'
  BY <1>12 DEF SetCursor, MaySetCursor
<1>13. CASE UNCHANGED vars
  BY <1>13 DEF vars, Trunc, WriteOf
<1> QED
  BY <1>1, <1>2, <1>3, <1>4, <1>5, <1>6, <1>7, <1>8, <1>9, <1>10, <1>11, <1>12, <1>13 DEF Next

LEMMA WidenInvariant ==
  ASSUME Settled, RewindPolicy # "any"
  PROVE  Spec => []WidenInv
<1>1. Init => TypeInv /\ CursorInv /\ WidenInv
  BY InitTypeInv, InitCursorInv, InitWidenInv
<1>2. TypeInv /\ CursorInv /\ WidenInv /\ [Next]_vars => (TypeInv /\ CursorInv /\ WidenInv)'
  BY NextTypeInv, NextCursorInv, NextWidenInv
<1> QED
  BY <1>1, <1>2, PTL DEF Spec

\* OpenCTI adds every write and never lets one replace a stored total.
THEOREM EveryWriteWidens ==
  ASSUME Settled, RewindPolicy # "any"
  PROVE  Spec => []WritesWiden
<1>1. WidenInv => WritesWiden
  BY DEF WidenInv
<1> QED
  BY <1>1, WidenInvariant, PTL

\* Nothing reaches OpenCTI that the ledger does not have.
THEOREM LedgerAlwaysFirst ==
  ASSUME Settled, RewindPolicy # "any"
  PROVE  Spec => []LedgerFirst
<1>1. WidenInv => LedgerFirst
  BY DEF WidenInv, AttemptInFlight, LedgerKnows, LedgerFirst, Writes
<1> QED
  BY <1>1, WidenInvariant, PTL
-----------------------------------------------------------------------------
(* Counts.  What OpenCTI holds for a Sighting is what it held before, the  *)
(* events counted since, and its share of the one open attempt: the total  *)
(* or the base of its row, which the stored last_seen tells apart.         *)

\* The events of a Sighting in any period are finitely many.
LEMMA EventsAreFinite ==
  ASSUME NEW i \in Ids, NEW S
  PROVE  IsFiniteSet(Hits[i] \cap S) /\ EventsOf(i, S) \in Nat
<1>1. IsFiniteSet(Hits[i] \cap S)
  BY EventAssumption, FS_Subset
<1> QED
  BY <1>1, FS_CardinalityType DEF EventsOf

\* A longer period has no fewer events.
LEMMA EventsGrow ==
  ASSUME NEW i \in Ids, NEW S, NEW T, S \subseteq T
  PROVE  EventsOf(i, S) <= EventsOf(i, T)
<1>1. IsFiniteSet(Hits[i] \cap T) /\ Hits[i] \cap S \in SUBSET (Hits[i] \cap T)
  BY EventsAreFinite
<1> QED
  BY <1>1, FS_Subset DEF EventsOf

\* The events of two periods are those of the first and those only the second has.
LEMMA EventsAdd ==
  ASSUME NEW i \in Ids, NEW S, NEW T
  PROVE  EventsOf(i, S) + EventsOf(i, T \ S) = EventsOf(i, S \cup T)
<1> DEFINE A == Hits[i] \cap S
           B == Hits[i] \cap (T \ S)
<1>1. IsFiniteSet(A) /\ IsFiniteSet(B) /\ Cardinality(A) \in Nat /\ Cardinality(B) \in Nat
  BY EventsAreFinite DEF EventsOf
<1>2. A \cup B = Hits[i] \cap (S \cup T) /\ A \cap B = {}
  OBVIOUS
<1>3. Cardinality(A \cup B) = Cardinality(A) + Cardinality(B) - Cardinality(A \cap B)
  BY <1>1, FS_Union
<1>4. Cardinality(A \cap B) = 0
  BY <1>2, FS_EmptySet
<1>5. /\ EventsOf(i, S) = Cardinality(A) /\ EventsOf(i, T \ S) = Cardinality(B)
      /\ EventsOf(i, S \cup T) = Cardinality(A \cup B)
  BY <1>2 DEF EventsOf
<1> HIDE DEF A, B
<1> QED
  BY <1>1, <1>3, <1>4, <1>5

\* The ledger has one row per Sighting and window: INSERT OR REPLACE on the key.
RowPerKey == \A r, s \in sent : r.id = s.id /\ r.ws = s.ws => r = s

\* A row sends something, counts no more than its window still has, and its
\* window ended by now and within the cap.
RowWithin(r) ==
  /\ r.base < r.total
  /\ r.total <= EventsOf(r.id, Uncounted(r.ws, r.we))
  /\ r.we <= now
  /\ r.we <= r.ws + MaxWindow

\* The same of the current attempt, which reaches as far as any it repeats.
AttemptWithin ==
  /\ pc # "idle" => att.we <= now /\ att.we <= att.ws + MaxWindow
  /\ pc # "idle" => \A r \in sent : r.we <= att.we
  /\ pc \in {"plan", "record"} =>
       \A i \in Ids : att.totals[i] <= EventsOf(i, Uncounted(att.ws, att.we))
  /\ \A r \in att.rows : r.we = att.we /\ r.total = att.totals[r.id]

CountBefore(i) == Legacy[i].count + EventsOf(i, counted)
Share(r) == IF stored[r.id].last >= Trunc(r.last) THEN r.total ELSE r.base

SharesBounded ==
  /\ \A i \in Ids : (\A r \in sent : r.id # i) => stored[i].count <= CountBefore(i)
  /\ \A r \in sent : stored[r.id].count <= CountBefore(r.id) + Share(r)
  /\ pc = "record" => \A r \in att.rows : stored[r.id].count <= CountBefore(r.id) + r.base

CountInv == RowPerKey /\ (\A r \in sent : RowWithin(r)) /\ AttemptWithin /\ SharesBounded

LEMMA InitCountInv == Init => CountInv
<1> SUFFICES ASSUME Init PROVE CountInv
  OBVIOUS
<1>1. ASSUME NEW i \in Ids
      PROVE  stored[i].count <= CountBefore(i)
  <2>1. EventsOf(i, counted) \in Nat /\ Legacy[i].count \in Nat
    BY EventsAreFinite, LegacyAssumption DEF Sighting
  <2> QED
    BY <2>1 DEF Init, CountBefore
<1> QED
  BY <1>1 DEF Init, CountInv, RowPerKey, AttemptWithin, SharesBounded, NoAttempt

\* What build_sighting counts for a Sighting is at most what the uncounted
\* part of its window has, if the sessions read are those of the window.
LEMMA TotalWithin ==
  ASSUME NEW i \in Ids, NEW ws, NEW we, NEW seen, seen \subseteq Hits[i] \cap Window(ws, we),
         NEW aggregated \in BOOLEAN
  PROVE  Total(i, ScopeMode(ws, we), ws, we, seen, aggregated) <= EventsOf(i, Uncounted(ws, we))
<1> DEFINE mode == ScopeMode(ws, we)
           es == EventsOf(i, Uncounted(ws, we))
<1>1. es \in Nat
  BY EventsAreFinite
<1>2. Total(i, mode, ws, we, seen, aggregated) =
        IF mode = "none" THEN 0
        ELSE IF mode = "backfill" \/ (aggregated /\ es > 0) THEN es ELSE Cardinality(seen)
  BY DEF Total, EventsOf
<1>3. ASSUME mode # "none", mode # "backfill"
      PROVE  Cardinality(seen) <= es
  <2>1. Uncounted(ws, we) = Window(ws, we)
    BY <1>3 DEF ScopeMode
  <2>2. IsFiniteSet(Hits[i] \cap Window(ws, we))
    BY EventsAreFinite
  <2>3. Cardinality(seen) <= Cardinality(Hits[i] \cap Window(ws, we))
    BY <2>2, FS_Subset
  <2> QED
    BY <2>1, <2>3 DEF EventsOf
<1> HIDE DEF mode, es
<1> QED
  BY <1>1, <1>2, <1>3 DEF mode, es

LEMMA CountBeforeIsNat ==
  ASSUME NEW i \in Ids
  PROVE  CountBefore(i) \in Nat
<1>1. EventsOf(i, counted) \in Nat /\ Legacy[i].count \in Nat
  BY EventsAreFinite, LegacyAssumption DEF Sighting
<1> QED
  BY <1>1 DEF CountBefore

\* What BeginCycle computes: the window ends by now, within the cap, and no
\* earlier than any attempt it repeats; its totals count only what is left.
LEMMA BegunWithin ==
  ASSUME CapPolicy # "any", ~TieRead, Start # NoTime \/ Lookback <= MaxWindow,
         TypeInv, CursorInv, CountInv, NEW aggregated \in BOOLEAN, BeginCycle(aggregated)
  PROVE  AttemptWithin'
<1> USE DEF NoTime
<1> DEFINE ws == WindowStart
<1>1. /\ ws \in Nat /\ now \in Nat /\ MaxWindow \in Nat /\ ws < now
      /\ \A r \in sent : r.ws = ws /\ r.ws \in Nat /\ r.we \in Nat
      /\ \A r \in sent : r.we <= now /\ r.we <= r.ws + MaxWindow
  <2>1. ws \in Nat /\ now \in Nat /\ MaxWindow \in Nat
    BY TimeAssumption DEF TypeInv, TypeOK, WindowStart, Later
  <2>2. ws < now /\ \A r \in sent : r.ws = ws
    BY DEF BeginCycle, Unclean
  <2> QED
    BY <2>1, <2>2 DEF TypeInv, TypeOK, Row, CountInv, RowWithin
<1>2. /\ WindowEnd \in Nat /\ WindowEnd <= now /\ WindowEnd <= ws + MaxWindow
      /\ \A r \in sent : r.we <= WindowEnd
  <2>1. CASE lastRun # NoTime
    BY <1>1, <2>1, TimeAssumption DEF WindowEnd, WindowStart, TypeInv, TypeOK
  <2>2. CASE lastRun = NoTime
    <3>1. Lookback <= MaxWindow
      BY <2>2 DEF CursorInv, AttemptAtCursor
    <3>2. ws >= now - Lookback
      BY <1>1, <2>2, TimeAssumption DEF WindowStart, Later
    <3> HIDE DEF ws
    <3> QED
      BY <1>1, <2>2, <3>1, <3>2, TimeAssumption DEF WindowEnd
  <2> QED
    BY <2>1, <2>2
<1>3. PICK we \in {WindowEnd} \cup CapEnds(ws, WindowEnd) :
        att' = [ws |-> ws, we |-> we, mode |-> ScopeMode(ws, we),
                totals |-> [i \in Ids |-> Total(i, ScopeMode(ws, we), ws, we,
                                                Seen(i, ws, we, {}), aggregated)],
                seen |-> [i \in Ids |-> Seen(i, ws, we, {})],
                rows |-> {}, lost |-> FALSE]
  BY DEF BeginCycle
<1> HIDE DEF ws
<1>4. we \in Nat /\ we <= WindowEnd /\ \A r \in sent : r.we <= we
  BY <1>1, <1>2, <1>3, PolicyAssumption DEF CapEnds
<1>5. \A i \in Ids : Seen(i, ws, we, {}) \subseteq Hits[i] \cap Window(ws, we)
  BY EventAssumption DEF Seen
<1>6. \A i \in Ids : Total(i, ScopeMode(ws, we), ws, we, Seen(i, ws, we, {}), aggregated)
                       <= EventsOf(i, Uncounted(ws, we))
  BY <1>5, TotalWithin
<1>7. /\ att'.ws = ws /\ att'.we = we /\ att'.rows = {}
      /\ \A i \in Ids : att'.totals[i] <= EventsOf(i, Uncounted(ws, we))
  BY <1>3, <1>6
<1>8. we <= now /\ we <= ws + MaxWindow
  BY <1>1, <1>2, <1>4
<1>9. now' = now /\ sent' = sent /\ counted' = counted
  BY DEF BeginCycle, ledger
<1> QED
  BY <1>4, <1>7, <1>8, <1>9 DEF AttemptWithin, EventsOf, Uncounted

\* The heart of the argument: what a retry takes as already landed is at
\* least what did land, so its delta never counts an event twice.
LEMMA PlannedRowsBounded ==
  ASSUME TypeInv, CursorInv, CountInv, pc = "plan", NEW answered \in BOOLEAN,
         NEW r \in RowsOf(answered)
  PROVE  stored[r.id].count <= CountBefore(r.id) + r.base
<1>1. PICK i \in Ids : r.id = i /\ r.base = Base(i, answered)
  BY DEF RowsOf
<1>2. /\ stored[i].count \in Nat /\ CountBefore(i) \in Nat /\ Base(i, answered) \in Nat
  BY BaseIsNat, CountBeforeIsNat DEF TypeInv, TypeOK, Sighting
<1>3. CASE PriorRows(i) = {}
  <2>1. \A s \in sent : s.id # i
    BY <1>3 DEF PriorRows, CursorInv, AttemptAtCursor
  <2>2. stored[i].count <= CountBefore(i)
    BY <2>1 DEF CountInv, SharesBounded
  <2> QED
    BY <1>1, <1>2, <2>2
<1>4. CASE PriorRows(i) # {}
  <2> DEFINE p == PriorRow(i)
  <2>1. p \in sent /\ p.id = i
    BY <1>4 DEF PriorRow, PriorRows
  <2>2. stored[i].count <= CountBefore(i) + Share(p)
    BY <2>1 DEF CountInv, SharesBounded
  <2>3. Share(p) <= Base(i, answered)
    <3>1. p.total \in Nat /\ p.base \in Nat /\ p.base < p.total
      BY <2>1 DEF TypeInv, TypeOK, Row, CountInv, RowWithin
    <3> HIDE DEF p
    <3>2. Base(i, answered) = IF Landed(p, answered) THEN p.total ELSE p.base
      BY <1>4 DEF Base, p
    <3> QED
      BY <2>1, <3>1, <3>2 DEF Share, Landed
  <2>4. Share(p) \in Nat
    BY <2>1 DEF TypeInv, TypeOK, Row, Share
  <2> HIDE DEF p
  <2>5. stored[i].count <= CountBefore(i) + Base(i, answered)
    BY <1>2, <2>2, <2>3, <2>4
  <2> QED
    BY <1>1, <2>5
<1> QED
  BY <1>3, <1>4

\* A write that lands turns the base of its own row into the row's total.
LEMMA LandBounded ==
  ASSUME TypeInv, CursorInv, WidenInv, CountInv, NEW w \in inflight, Land(w)
  PROVE  SharesBounded'
<1>1. pc = "publish" /\ pc' = pc /\ sent' = sent /\ counted' = counted
  BY DEF Land, ledger, WidenInv, AttemptInFlight
<1>2. PICK r \in att.rows : w = WriteOf(r)
  BY DEF WidenInv, AttemptInFlight, Writes
<1>3. r \in sent /\ r \in Row /\ w.id = r.id /\ w.count = r.total - r.base /\ w.last = r.last
  BY <1>1, <1>2 DEF WidenInv, AttemptInFlight, WriteOf, TypeInv, TypeOK
<1>4. /\ stored[r.id].last < Trunc(r.last)
      /\ stored[r.id].last \in Nat \cup {NoTime} /\ stored[r.id].count \in Nat
      /\ Trunc(r.last) \in Nat /\ r.id \in Ids /\ r.base \in Nat /\ r.total \in Nat
  BY <1>3, TruncFacts DEF WidenInv, WritesWiden, TypeInv, TypeOK, Row, Sighting, NoTime
<1>5. /\ stored'[r.id].count = stored[r.id].count + (r.total - r.base)
      /\ stored'[r.id].last = Trunc(r.last)
      /\ \A i \in Ids \ {r.id} : stored'[i] = stored[i]
  BY <1>3, <1>4 DEF Land, Upsert, TypeInv, TypeOK
<1>6. stored[r.id].count <= CountBefore(r.id) + r.base
  BY <1>3, <1>4 DEF CountInv, SharesBounded, Share, NoTime
<1>7. CountBefore(r.id) \in Nat
  BY <1>4, CountBeforeIsNat
<1>8. stored'[r.id].count <= CountBefore(r.id) + r.total
  BY <1>4, <1>5, <1>6, <1>7
<1>9. \A s \in sent : s.id = r.id => s = r
  BY <1>3 DEF CountInv, RowPerKey, CursorInv, OneOpenWindow
<1>10. ASSUME NEW s \in sent
       PROVE  stored'[s.id].count <= CountBefore(s.id) + (IF stored'[s.id].last >= Trunc(s.last)
                                                           THEN s.total ELSE s.base)
  <2>1. CASE s.id = r.id
    BY <1>4, <1>5, <1>8, <1>9, <2>1
  <2>2. CASE s.id # r.id
    <3>1. s.id \in Ids
      BY DEF TypeInv, TypeOK, Row
    <3>2. stored'[s.id] = stored[s.id]
      BY <1>5, <2>2, <3>1
    <3> QED
      BY <3>2 DEF CountInv, SharesBounded, Share
  <2> QED
    BY <2>1, <2>2
<1>11. ASSUME NEW i \in Ids, \A s \in sent : s.id # i
       PROVE  stored'[i].count <= CountBefore(i)
  <2>1. i # r.id
    BY <1>3, <1>11
  <2>2. stored[i].count <= CountBefore(i)
    BY <1>11 DEF CountInv, SharesBounded
  <2> QED
    BY <1>5, <2>1, <2>2
<1>12. \A i : CountBefore(i)' = CountBefore(i)
  BY <1>1 DEF CountBefore, EventsOf
<1>13. \A s : Share(s)' = IF stored'[s.id].last >= Trunc(s.last) THEN s.total ELSE s.base
  BY DEF Share, Trunc
<1> QED
  BY <1>1, <1>10, <1>11, <1>12, <1>13 DEF SharesBounded

\* A step that leaves the ledger and OpenCTI alone keeps what only they decide.
LEMMA CountInvKept ==
  ASSUME TypeInv, TypeInv', CountInv, UNCHANGED <<counted, sent, stored>>, now <= now',
         AttemptWithin', pc' = "record" => pc = "record" /\ att'.rows = att.rows
  PROVE  CountInv'
<1>1. /\ \A r \in sent : r.id \in Ids /\ r.ws \in Nat /\ r.we \in Nat
      /\ now \in Nat /\ now' \in Nat
  BY DEF TypeInv, TypeOK, Row
<1>2. RowPerKey' /\ SharesBounded'
  BY DEF CountInv, RowPerKey, SharesBounded, CountBefore, Share, EventsOf, Trunc
<1>3. \A r \in sent' : RowWithin(r)'
  <2> SUFFICES ASSUME NEW r \in sent PROVE RowWithin(r)'
    OBVIOUS
  <2>1. RowWithin(r)
    BY DEF CountInv
  <2>2. r.we <= now'
    BY <1>1, <2>1 DEF RowWithin
  <2> QED
    BY <2>1, <2>2 DEF RowWithin, EventsOf, Uncounted
<1> QED
  BY <1>2, <1>3 DEF CountInv

\* An attempt that only goes on stays within its bounds.
LEMMA AttemptWithinKept ==
  ASSUME TypeInv, TypeInv', AttemptWithin, UNCHANGED <<counted, sent>>, now <= now', pc # "idle",
         att'.ws = att.ws, att'.we = att.we, att'.rows = att.rows, att'.totals = att.totals,
         pc' \in {"plan", "record"} => pc' = pc
  PROVE  AttemptWithin'
<1>1. att.we <= now'
  BY DEF AttemptWithin, TypeInv, TypeOK, Attempt
<1> QED
  BY <1>1 DEF AttemptWithin, EventsOf, Uncounted

\* The rows of an attempt replace those it repeats, with the base that landed.
LEMMA RecordCounts ==
  ASSUME TypeInv, TypeInv', CursorInv, WidenInv, CountInv, Record
  PROVE  CountInv'
<1>1. /\ pc = "record" /\ pc' = "publish" /\ UNCHANGED <<counted, stored, now, att>>
      /\ sent' = WithRows(att.rows)
  BY DEF Record
<1>2. \A r \in att.rows : r.id \in Ids /\ r.ws = att.ws /\ r.we = att.we
                          /\ r.total = att.totals[r.id] /\ r.base < r.total
                          /\ r.base \in Nat /\ r.total \in Nat
  BY DEF TypeInv, TypeOK, Attempt, Row, AttemptOK, CursorInv, AttemptAtCursor, CountInv, AttemptWithin
<1>3. \A r \in sent : r.ws = att.ws
  BY <1>1 DEF CursorInv, AttemptAtCursor
<1>4. \A r \in sent' : r \in att.rows \/ (r \in sent /\ \A n \in att.rows : n.id # r.id)
  BY <1>1, <1>2, <1>3 DEF WithRows, SameKey
<1>5. RowPerKey'
  <2>1. \A r, s \in att.rows : r.id = s.id => r = s
    BY DEF WidenInv, AttemptInFlight
  <2> QED
    BY <1>4, <2>1 DEF CountInv, RowPerKey
<1>6. \A r \in sent' : RowWithin(r)'
  <2> SUFFICES ASSUME NEW r \in sent' PROVE RowWithin(r)'
    OBVIOUS
  <2>1. CASE r \in sent
    BY <1>1, <2>1 DEF CountInv, RowWithin, EventsOf, Uncounted
  <2>2. CASE r \in att.rows
    BY <1>1, <1>2, <2>2 DEF CountInv, AttemptWithin, RowWithin, EventsOf, Uncounted
  <2> QED
    BY <1>4, <2>1, <2>2
<1>7. AttemptWithin'
  <2>1. \A r \in sent' : r.we <= att.we
    <3>1. att.we \in Nat
      BY DEF TypeInv, TypeOK, Attempt
    <3> QED
      BY <1>1, <1>2, <1>4, <3>1 DEF CountInv, AttemptWithin
  <2> QED
    BY <1>1, <2>1 DEF CountInv, AttemptWithin
<1>8. ASSUME NEW i \in Ids, \A r \in sent' : r.id # i
      PROVE  stored[i].count <= CountBefore(i)
  <2>1. \A r \in sent : r.id # i
    <3> SUFFICES ASSUME NEW r \in sent, r.id = i PROVE FALSE
      OBVIOUS
    <3>1. \A n \in att.rows : n \in sent'
      BY <1>1 DEF WithRows
    <3>2. r \in sent'
      BY <1>1, <1>8, <3>1 DEF WithRows, SameKey
    <3> QED
      BY <1>8, <3>2
  <2> QED
    BY <2>1 DEF CountInv, SharesBounded
<1>9. ASSUME NEW r \in sent'
      PROVE  stored[r.id].count <= CountBefore(r.id) + Share(r)
  <2>1. CASE r \in sent
    BY <2>1 DEF CountInv, SharesBounded
  <2>2. CASE r \in att.rows
    <3>1. stored[r.id].count <= CountBefore(r.id) + r.base
      BY <1>1, <2>2 DEF CountInv, SharesBounded
    <3>2. Share(r) \in Nat /\ r.base \in Nat /\ r.base <= Share(r)
      BY <1>2, <2>2 DEF Share
    <3>3. CountBefore(r.id) \in Nat /\ stored[r.id].count \in Nat
      BY <1>2, <2>2, CountBeforeIsNat DEF TypeInv, TypeOK, Sighting
    <3> QED
      BY <3>1, <3>2, <3>3
  <2> QED
    BY <1>4, <2>1, <2>2
<1>10. SharesBounded'
  <2>1. \A i : CountBefore(i)' = CountBefore(i)
    BY <1>1 DEF CountBefore, EventsOf
  <2>2. \A r : Share(r)' = Share(r)
    BY <1>1 DEF Share, Trunc
  <2> QED
    BY <1>1, <1>8, <1>9, <2>1, <2>2 DEF SharesBounded
<1> QED
  BY <1>5, <1>6, <1>7, <1>10 DEF CountInv

\* Marking moves what the rows covered into the counted periods: the attempt
\* marked reaches as far as every row it clears.
LEMMA MarkCounts ==
  ASSUME TypeInv, TypeInv', CursorInv, CountInv, MarkCounted
  PROVE  CountInv'
<1> DEFINE W == Window(att.ws, att.we)
<1>1. /\ pc = "mark" /\ pc' = "advance" /\ sent' = {} /\ UNCHANGED <<stored, now, att>>
      /\ counted' = counted \cup W
  BY DEF MarkCounted, RowsElsewhere, CursorInv, AttemptAtCursor, platform
<1>2. ASSUME NEW i \in Ids
      PROVE  stored[i].count <= Legacy[i].count + EventsOf(i, counted \cup W)
  <2>1. /\ stored[i].count \in Nat /\ Legacy[i].count \in Nat /\ CountBefore(i) \in Nat
        /\ EventsOf(i, counted) \in Nat /\ EventsOf(i, counted \cup W) \in Nat
        /\ CountBefore(i) = Legacy[i].count + EventsOf(i, counted)
    <3>1. stored[i].count \in Nat /\ Legacy[i].count \in Nat
      BY LegacyAssumption DEF TypeInv, TypeOK, Sighting
    <3> QED
      BY <3>1, EventsAreFinite, CountBeforeIsNat DEF CountBefore
  <2>2. CASE \A r \in sent : r.id # i
    <3>1. stored[i].count <= CountBefore(i)
      BY <2>2 DEF CountInv, SharesBounded
    <3>2. EventsOf(i, counted) <= EventsOf(i, counted \cup W)
      BY EventsGrow
    <3> QED
      BY <2>1, <3>1, <3>2
  <2>3. ASSUME NEW r \in sent, r.id = i
        PROVE  stored[i].count <= Legacy[i].count + EventsOf(i, counted \cup W)
    <3>1. /\ r.total \in Nat /\ r.base \in Nat /\ r.ws = att.ws /\ r.we <= att.we
          /\ r.we \in Nat /\ att.we \in Nat
      BY <1>1 DEF TypeInv, TypeOK, Row, Attempt, CursorInv, AttemptAtCursor, CountInv, AttemptWithin
    <3>2. stored[i].count <= CountBefore(i) + Share(r)
      BY <2>3 DEF CountInv, SharesBounded
    <3>3. Share(r) \in Nat /\ Share(r) <= r.total /\ r.total <= EventsOf(i, Uncounted(r.ws, r.we))
      BY <2>3, <3>1 DEF Share, CountInv, RowWithin
    <3>4. Uncounted(r.ws, r.we) \subseteq W \ counted
      BY <3>1 DEF Uncounted, Window
    <3>5. EventsOf(i, Uncounted(r.ws, r.we)) <= EventsOf(i, W \ counted)
      BY <3>4, EventsGrow
    <3>6. EventsOf(i, counted) + EventsOf(i, W \ counted) = EventsOf(i, counted \cup W)
      BY EventsAdd
    <3>7. EventsOf(i, Uncounted(r.ws, r.we)) \in Nat /\ EventsOf(i, W \ counted) \in Nat
      BY EventsAreFinite
    <3> HIDE DEF W
    <3> QED
      BY <2>1, <3>1, <3>2, <3>3, <3>5, <3>6, <3>7
  <2> QED
    BY <2>2, <2>3
<1>3. SharesBounded'
  <2>1. \A i : CountBefore(i)' = Legacy[i].count + EventsOf(i, counted \cup W)
    BY <1>1 DEF CountBefore, EventsOf
  <2> QED
    BY <1>1, <1>2, <2>1 DEF SharesBounded
<1>4. AttemptWithin'
  BY <1>1 DEF CountInv, AttemptWithin
<1> QED
  BY <1>1, <1>3, <1>4 DEF CountInv, RowPerKey

\* From here on: windows the volume cap cuts no earlier on a retry, no
\* document read at the cap's own tick, and a first window no longer than the
\* cap of any other.
WindowsRepeat == CapPolicy # "any" /\ ~TieRead /\ (Start # NoTime \/ Lookback <= MaxWindow)

LEMMA NextCountInv ==
  ASSUME WindowsRepeat
  PROVE  TypeInv /\ TypeInv' /\ CursorInv /\ WidenInv /\ CountInv /\ [Next]_vars => CountInv'
<1> SUFFICES ASSUME TypeInv, TypeInv', CursorInv, WidenInv, CountInv, [Next]_vars
             PROVE  CountInv'
  OBVIOUS
<1> USE DEF ledger, platform
<1>0. now \in Nat /\ AttemptWithin /\ AttemptInFlight
  BY DEF TypeInv, TypeOK, CountInv, WidenInv
\* What a cycle that ended leaves behind.
<1>a. ASSUME UNCHANGED <<counted, sent, stored, now>>, pc' = "idle", att' = NoAttempt
      PROVE  CountInv'
  <2>1. AttemptWithin'
    BY <1>a, NoAttemptOK DEF AttemptWithin
  <2> QED
    BY <1>0, <1>a, <2>1, CountInvKept
\* A cycle that goes on.
<1>b. ASSUME UNCHANGED <<counted, sent, stored>>, now <= now', pc # "idle",
             att'.ws = att.ws, att'.we = att.we, att'.rows = att.rows, att'.totals = att.totals,
             pc' \in {"plan", "record"} => pc' = pc
      PROVE  CountInv'
  <2>1. AttemptWithin'
    BY <1>0, <1>b, AttemptWithinKept
  <2> QED
    BY <1>b, <2>1, CountInvKept
\* No cycle runs before or after.
<1>c. ASSUME UNCHANGED <<counted, sent, stored, att>>, now <= now', pc = "idle", pc' = "idle"
      PROVE  CountInv'
  <2>1. AttemptWithin'
    BY <1>0, <1>c DEF AttemptWithin
  <2> QED
    BY <1>c, <2>1, CountInvKept
<1>1. CASE Tick
  <2>1. now <= now' /\ UNCHANGED <<counted, sent, stored, pc, att>>
    BY <1>0, <1>1 DEF Tick
  <2> QED
    BY <2>1, <1>b, <1>c
<1>2. ASSUME NEW aggregated \in BOOLEAN, BeginCycle(aggregated)
      PROVE  CountInv'
  <2>1. UNCHANGED <<counted, sent, stored>> /\ now' = now /\ pc' = "plan"
    BY <1>2 DEF BeginCycle
  <2>2. AttemptWithin'
    BY <1>2, BegunWithin DEF WindowsRepeat
  <2> QED
    BY <1>0, <2>1, <2>2, CountInvKept
<1>3. ASSUME NEW answered \in BOOLEAN, Plan(answered)
      PROVE  CountInv'
  <2>1. /\ pc = "plan" /\ pc' = "record" /\ UNCHANGED <<counted, sent, stored, now>>
        /\ att'.rows = RowsOf(answered)
        /\ att'.ws = att.ws /\ att'.we = att.we /\ att'.totals = att.totals
    BY <1>3 DEF Plan, TypeInv, TypeOK, Attempt
  <2>2. RowPerKey' /\ \A r \in sent : RowWithin(r)'
    BY <2>1 DEF CountInv, RowPerKey, RowWithin, EventsOf, Uncounted
  <2>3. AttemptWithin'
    <3>1. \A r \in RowsOf(answered) : r.we = att.we /\ r.total = att.totals[r.id]
      BY RowsOfFacts
    <3> QED
      BY <1>0, <2>1, <3>1 DEF AttemptWithin, EventsOf, Uncounted
  <2>4. \A r \in RowsOf(answered) : stored[r.id].count <= CountBefore(r.id) + r.base
    BY <2>1, PlannedRowsBounded
  <2>5. SharesBounded'
    BY <2>1, <2>4 DEF CountInv, SharesBounded, CountBefore, Share, EventsOf, Trunc
  <2> QED
    BY <2>1, <2>2, <2>3, <2>5 DEF CountInv
<1>4. CASE Record
  BY <1>4, RecordCounts
<1>5. ASSUME NEW w \in inflight, Land(w)
      PROVE  CountInv'
  <2>1. SharesBounded'
    BY <1>5, LandBounded
  <2>2. UNCHANGED <<counted, sent, now, pc, att>>
    BY <1>5 DEF Land
  <2>3. RowPerKey' /\ (\A r \in sent : RowWithin(r)') /\ AttemptWithin'
    BY <2>2 DEF CountInv, RowPerKey, RowWithin, AttemptWithin, EventsOf, Uncounted
  <2> QED
    BY <2>1, <2>2, <2>3 DEF CountInv
<1>6. ASSUME NEW w \in inflight, Lose(w)
      PROVE  CountInv'
  <2>1. att'.ws = att.ws /\ att'.we = att.we /\ att'.rows = att.rows /\ att'.totals = att.totals
    BY <1>6 DEF Lose, TypeInv, TypeOK, Attempt
  <2>2. UNCHANGED <<counted, sent, stored, pc, now>> /\ pc # "idle"
    BY <1>0, <1>6 DEF Lose, AttemptInFlight
  <2> QED
    BY <1>0, <1>b, <2>1, <2>2
<1>7. CASE PublishedClean
  BY <1>0, <1>7, <1>b DEF PublishedClean
<1>8. CASE PublishedUnclean
  BY <1>8, <1>a DEF PublishedUnclean
<1>9. CASE MarkCounted
  BY <1>9, MarkCounts
<1>10. CASE Advance
  BY <1>10, <1>a DEF Advance
<1>11. CASE Crash
  BY <1>11, <1>a DEF Crash
<1>12. ASSUME NEW t \in 0..now, SetCursor(t)
       PROVE  CountInv'
  BY <1>0, <1>12, <1>c DEF SetCursor
<1>13. CASE UNCHANGED vars
  BY <1>0, <1>13, <1>b, <1>c DEF vars
<1> QED
  BY <1>1, <1>2, <1>3, <1>4, <1>5, <1>6, <1>7, <1>8, <1>9, <1>10, <1>11, <1>12, <1>13 DEF Next

CountedInv == TypeInv /\ CursorInv /\ WidenInv /\ CountInv

LEMMA CountInvariant ==
  ASSUME Settled, RewindPolicy # "any", WindowsRepeat
  PROVE  Spec => []CountedInv
<1>1. Init => CountedInv
  BY InitTypeInv, InitCursorInv, InitWidenInv, InitCountInv DEF CountedInv
<1>2. CountedInv /\ [Next]_vars => CountedInv'
  BY NextTypeInv, NextCursorInv, NextWidenInv, NextCountInv DEF CountedInv
<1> QED
  BY <1>1, <1>2, PTL DEF Spec

\* What a row covers belongs to the periods counted or being published.
LEMMA ShareIsOpen ==
  ASSUME CountedInv
  PROVE  NeverInflates
<1> SUFFICES ASSUME NEW i \in Ids
             PROVE  stored[i].count <= Legacy[i].count + EventsOf(i, counted \cup Open)
  BY DEF NeverInflates
<1>1. /\ stored[i].count \in Nat /\ Legacy[i].count \in Nat /\ CountBefore(i) \in Nat
      /\ CountBefore(i) = Legacy[i].count + EventsOf(i, counted)
  <2>1. stored[i].count \in Nat /\ Legacy[i].count \in Nat
    BY LegacyAssumption DEF CountedInv, TypeInv, TypeOK, Sighting
  <2> QED
    BY <2>1, CountBeforeIsNat DEF CountBefore
<1>2. EventsOf(i, counted) \in Nat /\ EventsOf(i, counted \cup Open) \in Nat
      /\ EventsOf(i, counted) <= EventsOf(i, counted \cup Open)
  BY EventsAreFinite, EventsGrow
<1>3. CASE \A r \in sent : r.id # i
  <2>1. stored[i].count <= CountBefore(i)
    BY <1>3 DEF CountedInv, CountInv, SharesBounded
  <2> QED
    BY <1>1, <1>2, <2>1
<1>4. ASSUME NEW r \in sent, r.id = i
      PROVE  stored[i].count <= Legacy[i].count + EventsOf(i, counted \cup Open)
  <2>1. r.total \in Nat /\ r.base \in Nat
    BY DEF CountedInv, TypeInv, TypeOK, Row
  <2>2. stored[i].count <= CountBefore(i) + Share(r)
    BY <1>4 DEF CountedInv, CountInv, SharesBounded
  <2>3. Share(r) \in Nat /\ Share(r) <= r.total /\ r.total <= EventsOf(i, Uncounted(r.ws, r.we))
    BY <1>4, <2>1 DEF Share, CountedInv, CountInv, RowWithin
  <2>4. Uncounted(r.ws, r.we) \subseteq Open \ counted
    BY DEF Uncounted, Open
  <2>5. EventsOf(i, Uncounted(r.ws, r.we)) <= EventsOf(i, Open \ counted)
    BY <2>4, EventsGrow
  <2>6. EventsOf(i, counted) + EventsOf(i, Open \ counted) = EventsOf(i, counted \cup Open)
    BY EventsAdd
  <2>7. EventsOf(i, Uncounted(r.ws, r.we)) \in Nat /\ EventsOf(i, Open \ counted) \in Nat
    BY EventsAreFinite
  <2> QED
    BY <1>1, <1>2, <2>1, <2>2, <2>3, <2>5, <2>6, <2>7
<1> QED
  BY <1>3, <1>4

\* OpenCTI never holds more events than the hive has in the windows counted
\* and in the one that is open, whatever crashes, half-lands or is moved.
THEOREM NothingInflates ==
  ASSUME Settled, RewindPolicy # "any", WindowsRepeat
  PROVE  Spec => []NeverInflates
BY CountInvariant, ShareIsOpen, PTL

-----------------------------------------------------------------------------
(* The ledger implements the tally of module SightingTally: every step maps *)
(* to one of its steps or leaves its variables alone.                       *)

\* The mapped variables; SightingTally calls them tally, done and tried.
TallyVars == <<[i \in Ids |-> stored[i].count], counted, Open>>

\* An attempt that repeats another covers at least its windows.
LEMMA RecordTries ==
  ASSUME CountedInv, CountedInv', Record
  PROVE  Tally!Try
<1>1. /\ sent' = WithRows(att.rows) /\ UNCHANGED <<stored, counted>>
      /\ pc = "record"
  BY DEF Record
<1>2. /\ \A r \in sent : r.ws = att.ws /\ r.we <= att.we /\ r.we \in Nat
      /\ \A r \in att.rows : r.ws = att.ws /\ r.we = att.we
      /\ att.we \in Nat
  BY <1>1 DEF CountedInv, CursorInv, AttemptAtCursor, CountInv, AttemptWithin, TypeInv, TypeOK,
              Row, Attempt
<1>3. ASSUME NEW r \in sent, NEW t \in Window(r.ws, r.we)
      PROVE  \E s \in sent' : t \in Window(s.ws, s.we)
  <2>1. CASE \A n \in att.rows : ~SameKey(r, n)
    BY <1>1, <2>1 DEF WithRows
  <2>2. CASE \E n \in att.rows : SameKey(r, n)
    <3>1. PICK n \in att.rows : SameKey(r, n)
      BY <2>2
    <3>2. t \in Window(n.ws, n.we)
      BY <1>2 DEF Window
    <3>3. n \in sent'
      BY <1>1 DEF WithRows
    <3> QED
      BY <3>2, <3>3
  <2> QED
    BY <2>1, <2>2
<1>4. Open \subseteq Open'
  BY <1>3 DEF Open, Window
<1> QED
  BY <1>1, <1>4 DEF Tally!Try

\* A write that lands adds what it carries, and stays within the periods.
LEMMA LandAdds ==
  ASSUME CountedInv, NeverInflates', NEW w \in inflight, Land(w)
  PROVE  Tally!Add(w.id)
<1>1. pc = "publish" /\ sent' = sent /\ counted' = counted
  BY DEF Land, ledger, CountedInv, WidenInv, AttemptInFlight
<1>2. PICK r \in att.rows : w = WriteOf(r)
  BY DEF CountedInv, WidenInv, AttemptInFlight, Writes
<1>3. /\ w.id \in Ids /\ w.count = r.total - r.base /\ r.base < r.total
      /\ r.base \in Nat /\ r.total \in Nat
  BY <1>2 DEF CountedInv, WriteOf, TypeInv, TypeOK, AttemptOK, Attempt, Row
<1>4. Trunc(w.last) > stored[w.id].last /\ stored[w.id].count \in Nat
  BY <1>3 DEF CountedInv, WidenInv, WritesWiden, TypeInv, TypeOK, Sighting
<1>5. /\ stored'[w.id].count = stored[w.id].count + w.count
      /\ \A j \in Ids \ {w.id} : stored'[j] = stored[j]
  BY <1>3, <1>4 DEF Land, Upsert, CountedInv, TypeInv, TypeOK
<1>6. stored'[w.id].count > stored[w.id].count
  BY <1>3, <1>4, <1>5
<1>7. stored'[w.id].count <= Legacy[w.id].count + EventsOf(w.id, counted \cup Open)
  <2>1. Open' = Open
    BY <1>1 DEF Open, Window
  <2> QED
    BY <1>1, <1>3, <2>1 DEF NeverInflates, EventsOf
<1>8. /\ \A j \in Ids : [i \in Ids |-> stored[i].count]'[j] = stored'[j].count
      /\ \A j \in Ids : [i \in Ids |-> stored[i].count][j] = stored[j].count
      /\ [i \in Ids |-> Legacy[i].count][w.id] = Legacy[w.id].count
      /\ UNCHANGED Open
  BY <1>1, <1>3 DEF Open, Window
<1>9. /\ [i \in Ids |-> stored[i].count]'[w.id] > [i \in Ids |-> stored[i].count][w.id]
      /\ \A j \in Ids \ {w.id} : [i \in Ids |-> stored[i].count]'[j] = [i \in Ids |-> stored[i].count][j]
  BY <1>3, <1>5, <1>6, <1>8
<1>10. [i \in Ids |-> stored[i].count]'[w.id]
         <= [i \in Ids |-> Legacy[i].count][w.id] + Cardinality(Hits[w.id] \cap (counted \cup Open))
  BY <1>3, <1>7, <1>8 DEF EventsOf
<1>11. \A S : Tally!Cardinality(S) = Cardinality(S)
  BY DEF Cardinality, Tally!Cardinality
<1> QED
  BY <1>1, <1>8, <1>9, <1>10, <1>11 DEF Tally!Add

\* Marking publishes what was tried and changes no count.
LEMMA MarkFinishes ==
  ASSUME CountedInv, CountedInv', MarkCounted
  PROVE  Tally!Finish
<1>1. /\ pc = "mark" /\ sent' = {} /\ stored' = stored
      /\ counted' = counted \cup Window(att.ws, att.we)
  BY DEF MarkCounted, RowsElsewhere, CountedInv, CursorInv, AttemptAtCursor, platform
<1>2. \A r \in sent : r.ws = att.ws /\ r.we <= att.we /\ r.we \in Nat /\ att.we \in Nat
  BY <1>1 DEF CountedInv, CursorInv, AttemptAtCursor, CountInv, AttemptWithin, TypeInv, TypeOK,
              Row, Attempt
<1>3. \A r \in sent : Window(r.ws, r.we) \subseteq Window(att.ws, att.we)
  BY <1>2 DEF Window
<1>4. Open \subseteq Window(att.ws, att.we)
  BY <1>3 DEF Open
<1>5. Open' = {}
  BY <1>1 DEF Open
<1> QED
  BY <1>1, <1>4, <1>5 DEF Tally!Finish

LEMMA NextTally ==
  CountedInv /\ CountedInv' /\ NeverInflates' /\ [Next]_vars => [Tally!Next]_TallyVars
<1> SUFFICES ASSUME CountedInv, CountedInv', NeverInflates', [Next]_vars
             PROVE  Tally!Next \/ UNCHANGED TallyVars
  OBVIOUS
<1>a. UNCHANGED <<stored, counted, sent>> => UNCHANGED TallyVars
  BY DEF TallyVars, Open, Window
<1>1. CASE Tick
  BY <1>1, <1>a DEF Tick, ledger, platform
<1>2. ASSUME NEW aggregated \in BOOLEAN, BeginCycle(aggregated)
      PROVE  UNCHANGED TallyVars
  BY <1>2, <1>a DEF BeginCycle, ledger, platform
<1>3. ASSUME NEW answered \in BOOLEAN, Plan(answered)
      PROVE  UNCHANGED TallyVars
  BY <1>3, <1>a DEF Plan, ledger, platform
<1>4. CASE Record
  BY <1>4, RecordTries DEF Tally!Next
<1>5. ASSUME NEW w \in inflight, Land(w)
      PROVE  Tally!Next
  <2>1. w.id \in Ids
    BY DEF CountedInv, TypeInv, TypeOK, Write
  <2> QED
    BY <1>5, <2>1, LandAdds DEF Tally!Next
<1>6. ASSUME NEW w \in inflight, Lose(w)
      PROVE  UNCHANGED TallyVars
  BY <1>6, <1>a DEF Lose, ledger
<1>7. CASE PublishedClean
  BY <1>7, <1>a DEF PublishedClean, ledger, platform
<1>8. CASE PublishedUnclean
  BY <1>8, <1>a DEF PublishedUnclean, ledger
<1>9. CASE MarkCounted
  BY <1>9, MarkFinishes DEF Tally!Next
<1>10. CASE Advance
  BY <1>10, <1>a DEF Advance, platform
<1>11. CASE Crash
  BY <1>11, <1>a DEF Crash, ledger
<1>12. ASSUME NEW t \in 0..now, SetCursor(t)
       PROVE  UNCHANGED TallyVars
  BY <1>12, <1>a DEF SetCursor, platform
<1>13. CASE UNCHANGED vars
  BY <1>13, <1>a DEF vars, ledger, platform
<1> QED
  BY <1>1, <1>2, <1>3, <1>4, <1>5, <1>6, <1>7, <1>8, <1>9, <1>10, <1>11, <1>12, <1>13 DEF Next

\* What a reader of OpenCTI sees is the tally: counts that only grow, never
\* past the events of the periods published or being published.
THEOREM LedgerImplementsTally ==
  ASSUME Settled, RewindPolicy # "any", WindowsRepeat
  PROVE  Spec => ImplementsTally
<1>1. Init => Tally!Init
  BY DEF Init, Tally!Init, Open
<1>2. CountedInv /\ CountedInv' /\ NeverInflates' /\ [Next]_vars
        => [Tally!Next]_<<[i \in Ids |-> stored[i].count], counted, Open>>
  BY NextTally DEF TallyVars
<1> QED
  BY <1>1, <1>2, CountInvariant, NothingInflates, PTL DEF Spec, ImplementsTally, Tally!Spec

-----------------------------------------------------------------------------
(* Exact counts.  Where every event is parsed and every read-back answers, *)
(* the bounds above are equalities, so a closed ledger means exact totals. *)

SharesExact ==
  /\ \A i \in Ids : (\A r \in sent : r.id # i) => stored[i].count = CountBefore(i)
  /\ \A r \in sent : stored[r.id].count = CountBefore(r.id) + Share(r)
  /\ pc = "record" => \A r \in att.rows : stored[r.id].count = CountBefore(r.id) + r.base

\* The attempt counts all that is left of its window, a Sighting it does not
\* send is complete, and a clean publish completes the others.
TotalsExact ==
  pc \in {"plan", "record", "publish", "mark"} =>
    \A i \in Ids : /\ att.totals[i] = EventsOf(i, Uncounted(att.ws, att.we))
                   /\ att.seen[i] = {} => att.totals[i] = 0

UnsentComplete ==
  /\ pc \in {"record", "publish"} =>
       \A i \in Ids : (\A r \in att.rows : r.id # i) => stored[i].count = CountBefore(i) + att.totals[i]
  /\ pc = "publish" =>
       \A r \in att.rows : WriteOf(r) \in inflight \/ att.lost \/ stored[r.id].last >= Trunc(r.last)
  /\ pc = "mark" => \A i \in Ids : stored[i].count = CountBefore(i) + att.totals[i]

ExactInv == SharesExact /\ TotalsExact /\ UnsentComplete

\* Every event is of a type a parser reads, and OpenCTI answers every question.
NothingMissed == Parsed = Hits /\ "lookup" \notin Outages

LEMMA InitExactInv == Init => ExactInv
<1> SUFFICES ASSUME Init PROVE ExactInv
  OBVIOUS
<1>1. ASSUME NEW i \in Ids
      PROVE  stored[i].count = CountBefore(i)
  <2>1. Hits[i] \cap counted = {}
    BY DEF Init
  <2>2. EventsOf(i, counted) = 0
    BY <2>1, FS_EmptySet DEF EventsOf
  <2>3. Legacy[i].count \in Nat
    BY LegacyAssumption DEF Sighting
  <2> QED
    BY <2>2, <2>3 DEF Init, CountBefore
<1> QED
  BY <1>1 DEF Init, ExactInv, SharesExact, TotalsExact, UnsentComplete

\* build_sighting counts exactly what the uncounted part of the window has.
LEMMA TotalIsExact ==
  ASSUME NEW i \in Ids, NEW ws, NEW we, NEW seen, seen = Hits[i] \cap Window(ws, we),
         NEW aggregated \in BOOLEAN
  PROVE  LET total == Total(i, ScopeMode(ws, we), ws, we, seen, aggregated)
         IN  total = EventsOf(i, Uncounted(ws, we)) /\ (seen = {} => total = 0)
<1> DEFINE mode == ScopeMode(ws, we)
           es == EventsOf(i, Uncounted(ws, we))
<1>1. es \in Nat
  BY EventsAreFinite
<1>2. Total(i, mode, ws, we, seen, aggregated) =
        IF mode = "none" THEN 0
        ELSE IF mode = "backfill" \/ (aggregated /\ es > 0) THEN es ELSE Cardinality(seen)
  BY DEF Total, EventsOf
<1>3. mode # "none" /\ mode # "backfill" => Cardinality(seen) = es
  BY DEF ScopeMode, EventsOf
<1>4. mode = "none" => es = 0
  <2> SUFFICES ASSUME mode = "none" PROVE es = 0
    OBVIOUS
  <2>1. Hits[i] \cap Uncounted(ws, we) = {}
    BY DEF ScopeMode
  <2> QED
    BY <2>1, FS_EmptySet DEF EventsOf
<1>5. seen = {} => es = 0
  <2> SUFFICES ASSUME seen = {} PROVE es = 0
    OBVIOUS
  <2>1. Hits[i] \cap Uncounted(ws, we) = {}
    BY DEF Uncounted
  <2> QED
    BY <2>1, FS_EmptySet DEF EventsOf
<1> HIDE DEF mode, es
<1>6. /\ Total(i, mode, ws, we, seen, aggregated) = es
      /\ seen = {} => Total(i, mode, ws, we, seen, aggregated) = 0
  BY <1>1, <1>2, <1>3, <1>4, <1>5
<1> QED
  BY <1>6 DEF mode, es

\* The base of a retry is what landed, exactly: OpenCTI answered.
LEMMA BaseIsShare ==
  ASSUME TypeInv, CursorInv, ExactInv, pc = "plan", NEW i \in Ids,
         NEW answered \in BOOLEAN, answered
  PROVE  stored[i].count = CountBefore(i) + Base(i, answered)
<1>1. CountBefore(i) \in Nat /\ stored[i].count \in Nat
  BY CountBeforeIsNat DEF TypeInv, TypeOK, Sighting
<1>2. CASE PriorRows(i) = {}
  <2>1. \A s \in sent : s.id # i
    BY <1>2 DEF PriorRows, CursorInv, AttemptAtCursor
  <2>2. stored[i].count = CountBefore(i)
    BY <2>1 DEF ExactInv, SharesExact
  <2> QED
    BY <1>1, <1>2, <2>2 DEF Base
<1>3. CASE PriorRows(i) # {}
  <2>1. PriorRow(i) \in sent /\ PriorRow(i).id = i
    BY <1>3 DEF PriorRow, PriorRows
  <2>2. Share(PriorRow(i)) = Base(i, answered)
    BY <1>3, <2>1 DEF Share, Base, Landed
  <2> QED
    BY <2>1, <2>2 DEF ExactInv, SharesExact
<1> QED
  BY <1>2, <1>3

\* A Sighting the retry has nothing to add to is complete already.
LEMMA UnsentIsComplete ==
  ASSUME TypeInv, CursorInv, CountInv, ExactInv, pc = "plan", NEW i \in Ids,
         NEW answered \in BOOLEAN, answered, ~Emitted(i, answered)
  PROVE  stored[i].count = CountBefore(i) + att.totals[i]
<1> DEFINE base == Base(i, answered)
<1>0. ~(att.seen[i] # {} /\ att.totals[i] > base)
  BY DEF Emitted
<1>1. /\ att.totals[i] \in Nat /\ base \in Nat
      /\ att.totals[i] = EventsOf(i, Uncounted(att.ws, att.we))
      /\ att.seen[i] = {} => att.totals[i] = 0
  BY BaseIsNat DEF TypeInv, TypeOK, Attempt, ExactInv, TotalsExact
<1>3. base <= att.totals[i]
  <2>1. CASE PriorRows(i) = {}
    <3>1. base = 0
      BY <2>1 DEF Base
    <3> HIDE DEF base
    <3> QED
      BY <1>1, <3>1
  <2>2. CASE PriorRows(i) # {}
    <3> DEFINE p == PriorRow(i)
    <3>1. p \in sent /\ p.id = i
      BY <2>2 DEF PriorRow, PriorRows
    <3>2. /\ p.total \in Nat /\ p.base \in Nat /\ p.base < p.total
          /\ p.ws = att.ws /\ p.we <= att.we /\ p.we \in Nat /\ att.we \in Nat
          /\ p.total <= EventsOf(i, Uncounted(p.ws, p.we))
      BY <3>1 DEF TypeInv, TypeOK, Row, Attempt, CursorInv, AttemptAtCursor, CountInv, RowWithin,
                  AttemptWithin
    <3>3. Uncounted(p.ws, p.we) \subseteq Uncounted(att.ws, att.we)
      BY <3>2 DEF Uncounted, Window
    <3>4. EventsOf(i, Uncounted(p.ws, p.we)) <= att.totals[i]
      BY <1>1, <3>3, EventsGrow
    <3>5. EventsOf(i, Uncounted(p.ws, p.we)) \in Nat
      BY EventsAreFinite
    <3>6. base = p.total \/ base = p.base
      BY <2>2 DEF Base
    <3> HIDE DEF p, base
    <3> QED
      BY <1>1, <3>2, <3>4, <3>5, <3>6
  <2> QED
    BY <2>1, <2>2
<1>4. base = att.totals[i]
  <2> HIDE DEF base
  <2> QED
    BY <1>0, <1>1, <1>3
<1> QED
  BY <1>4, BaseIsShare

\* The window a cycle begins with is counted in full.
LEMMA BegunExact ==
  ASSUME NothingMissed, WindowsRepeat, ExactInv, NEW aggregated \in BOOLEAN, BeginCycle(aggregated)
  PROVE  ExactInv'
<1> DEFINE ws == WindowStart
<1>1. PICK we :
        att' = [ws |-> ws, we |-> we, mode |-> ScopeMode(ws, we),
                totals |-> [i \in Ids |-> Total(i, ScopeMode(ws, we), ws, we,
                                                Seen(i, ws, we, {}), aggregated)],
                seen |-> [i \in Ids |-> Seen(i, ws, we, {})],
                rows |-> {}, lost |-> FALSE]
  BY DEF BeginCycle, WindowsRepeat
<1>2. UNCHANGED <<counted, sent, stored>> /\ pc' = "plan"
  BY DEF BeginCycle, ledger, platform
<1> HIDE DEF ws
<1>3. \A i \in Ids : Seen(i, ws, we, {}) = Hits[i] \cap Window(ws, we)
  BY DEF Seen, NothingMissed
<1>4. \A i \in Ids : /\ Total(i, ScopeMode(ws, we), ws, we, Seen(i, ws, we, {}), aggregated)
                          = EventsOf(i, Uncounted(ws, we))
                     /\ Seen(i, ws, we, {}) = {} =>
                          Total(i, ScopeMode(ws, we), ws, we, Seen(i, ws, we, {}), aggregated) = 0
  BY <1>3, TotalIsExact
<1>5. /\ att'.ws = ws /\ att'.we = we
      /\ \A i \in Ids : att'.totals[i] = EventsOf(i, Uncounted(ws, we))
                        /\ (att'.seen[i] = {} => att'.totals[i] = 0)
  BY <1>1, <1>4
<1>6. TotalsExact'
  BY <1>2, <1>5 DEF TotalsExact, EventsOf, Uncounted
<1> QED
  BY <1>2, <1>6 DEF ExactInv, SharesExact, UnsentComplete, CountBefore, Share, EventsOf, Trunc

\* A row that replaces another takes over its landed share as its base.
LEMMA RecordExact ==
  ASSUME TypeInv, CursorInv, WidenInv, ExactInv, Record
  PROVE  ExactInv'
<1>1. /\ pc = "record" /\ pc' = "publish" /\ UNCHANGED <<counted, stored, att>>
      /\ sent' = WithRows(att.rows) /\ Writes \subseteq inflight'
  BY DEF Record
<1>2. \A r \in att.rows : r.id \in Ids /\ r.ws = att.ws
  BY DEF TypeInv, TypeOK, Attempt, Row, CursorInv, AttemptAtCursor
<1>3. \A r \in sent : r.ws = att.ws
  BY <1>1 DEF CursorInv, AttemptAtCursor
<1>4. \A r \in sent' : r \in att.rows \/ (r \in sent /\ \A n \in att.rows : n.id # r.id)
  BY <1>1, <1>2, <1>3 DEF WithRows, SameKey
<1>5. /\ \A r \in att.rows : r \in sent'
      /\ \A r \in sent : (\A n \in att.rows : n.id # r.id) => r \in sent'
  BY <1>1 DEF WithRows, SameKey
<1>6. ASSUME NEW i \in Ids, \A r \in sent' : r.id # i
      PROVE  stored[i].count = CountBefore(i)
  <2>1. \A r \in sent : r.id # i
    BY <1>5, <1>6
  <2> QED
    BY <2>1 DEF ExactInv, SharesExact
<1>7. ASSUME NEW r \in sent'
      PROVE  stored[r.id].count = CountBefore(r.id) + Share(r)
  <2>1. CASE r \in sent
    BY <2>1 DEF ExactInv, SharesExact
  <2>2. CASE r \in att.rows
    <3>1. Trunc(r.last) > stored[r.id].last
      BY <1>1, <2>2 DEF WidenInv, AttemptInFlight
    <3>2. stored[r.id].last \in Nat \cup {NoTime} /\ Trunc(r.last) \in Nat
      BY <1>2, <2>2, TruncFacts DEF TypeInv, TypeOK, Attempt, Row, Sighting
    <3>3. Share(r) = r.base
      BY <3>1, <3>2 DEF Share, NoTime
    <3> QED
      BY <1>1, <2>2, <3>3 DEF ExactInv, SharesExact
  <2> QED
    BY <1>4, <2>1, <2>2
<1>8. \A i : CountBefore(i)' = CountBefore(i)
  BY <1>1 DEF CountBefore, EventsOf
<1>9. \A r : Share(r)' = Share(r)
  BY <1>1 DEF Share, Trunc
<1>10. SharesExact'
  BY <1>1, <1>6, <1>7, <1>8, <1>9 DEF SharesExact
<1>11. TotalsExact'
  BY <1>1 DEF ExactInv, TotalsExact, EventsOf, Uncounted
<1>12. UnsentComplete'
  <2>1. \A r \in att.rows : WriteOf(r) \in inflight'
    BY <1>1 DEF Writes
  <2>2. \A i \in Ids : (\A r \in att.rows : r.id # i) => stored[i].count = CountBefore(i) + att.totals[i]
    BY <1>1 DEF ExactInv, UnsentComplete
  <2> QED
    BY <1>1, <1>8, <2>1, <2>2 DEF UnsentComplete, WriteOf, Trunc
<1> QED
  BY <1>10, <1>11, <1>12 DEF ExactInv

\* A write that lands completes its own Sighting and touches no other.
LEMMA LandExact ==
  ASSUME TypeInv, CursorInv, WidenInv, CountInv, ExactInv, NEW w \in inflight, Land(w)
  PROVE  ExactInv'
<1>1. pc = "publish" /\ UNCHANGED <<pc, sent, counted, att>> /\ inflight' = inflight \ {w}
  BY DEF Land, ledger, WidenInv, AttemptInFlight
<1>2. PICK r \in att.rows : w = WriteOf(r)
  BY DEF WidenInv, AttemptInFlight, Writes
<1>3. r \in sent /\ r \in Row /\ w.id = r.id /\ w.count = r.total - r.base /\ w.last = r.last
  BY <1>1, <1>2 DEF WidenInv, AttemptInFlight, WriteOf, TypeInv, TypeOK
<1>4. /\ stored[r.id].last < Trunc(r.last)
      /\ stored[r.id].last \in Nat \cup {NoTime} /\ stored[r.id].count \in Nat
      /\ Trunc(r.last) \in Nat /\ r.id \in Ids /\ r.base \in Nat /\ r.total \in Nat
  BY <1>3, TruncFacts DEF WidenInv, WritesWiden, TypeInv, TypeOK, Row, Sighting, NoTime
<1>5. /\ stored'[r.id].count = stored[r.id].count + (r.total - r.base)
      /\ stored'[r.id].last = Trunc(r.last)
      /\ \A i \in Ids \ {r.id} : stored'[i] = stored[i]
  BY <1>3, <1>4 DEF Land, Upsert, TypeInv, TypeOK
<1>6. stored[r.id].count = CountBefore(r.id) + r.base
  BY <1>3, <1>4 DEF ExactInv, SharesExact, Share, NoTime
<1>7. CountBefore(r.id) \in Nat
  BY <1>4, CountBeforeIsNat
<1>8. stored'[r.id].count = CountBefore(r.id) + r.total
  BY <1>4, <1>5, <1>6, <1>7
<1>9. /\ \A s \in sent : s.id = r.id => s = r
      /\ \A s \in att.rows : s.id \in Ids /\ (s.id = r.id => s = r)
  BY <1>3 DEF CountInv, RowPerKey, CursorInv, OneOpenWindow, WidenInv, AttemptInFlight,
              TypeInv, TypeOK, Attempt, Row
<1>10. ASSUME NEW s \in sent
       PROVE  stored'[s.id].count = CountBefore(s.id) + (IF stored'[s.id].last >= Trunc(s.last)
                                                           THEN s.total ELSE s.base)
  <2>1. CASE s.id = r.id
    BY <1>4, <1>5, <1>8, <1>9, <2>1
  <2>2. CASE s.id # r.id
    <3>1. s.id \in Ids
      BY DEF TypeInv, TypeOK, Row
    <3>2. stored'[s.id] = stored[s.id]
      BY <1>5, <2>2, <3>1
    <3> QED
      BY <3>2 DEF ExactInv, SharesExact, Share
  <2> QED
    BY <2>1, <2>2
<1>11. ASSUME NEW i \in Ids, i # r.id
       PROVE  /\ (\A s \in sent : s.id # i) => stored'[i].count = CountBefore(i)
              /\ (\A s \in att.rows : s.id # i) => stored'[i].count = CountBefore(i) + att.totals[i]
  BY <1>1, <1>5, <1>11 DEF ExactInv, SharesExact, UnsentComplete
<1>12. \A i : CountBefore(i)' = CountBefore(i)
  BY <1>1 DEF CountBefore, EventsOf
<1>13. \A s : Share(s)' = IF stored'[s.id].last >= Trunc(s.last) THEN s.total ELSE s.base
  BY DEF Share, Trunc
<1>14. SharesExact'
  BY <1>1, <1>3, <1>10, <1>11, <1>12, <1>13 DEF SharesExact
<1>15. TotalsExact'
  BY <1>1 DEF ExactInv, TotalsExact, EventsOf, Uncounted
<1>16. ASSUME NEW s \in att.rows
       PROVE  WriteOf(s) \in inflight' \/ att.lost \/ stored'[s.id].last >= Trunc(s.last)
  <2>1. CASE s = r
    BY <1>4, <1>5, <2>1
  <2>2. CASE s # r
    <3>1. s.id # r.id /\ s.id \in Ids
      BY <1>9, <2>2
    <3>2. WriteOf(s) # w /\ stored'[s.id] = stored[s.id]
      BY <1>2, <1>5, <3>1 DEF WriteOf
    <3> QED
      BY <1>1, <3>2 DEF ExactInv, UnsentComplete
  <2> QED
    BY <2>1, <2>2
<1>17. UnsentComplete'
  BY <1>1, <1>2, <1>11, <1>12, <1>16 DEF UnsentComplete, WriteOf, Trunc
<1> QED
  BY <1>14, <1>15, <1>17 DEF ExactInv

\* A clean publish means that every row landed: nothing lost, nothing waiting.
LEMMA CleanExact ==
  ASSUME TypeInv, CursorInv, WidenInv, CountInv, ExactInv, PublishedClean
  PROVE  ExactInv'
<1>1. /\ pc = "publish" /\ pc' = "mark" /\ ~att.lost /\ inflight \cap Writes = {}
      /\ UNCHANGED <<counted, sent, stored, att>>
  BY DEF PublishedClean, ledger, platform
<1>2. ASSUME NEW i \in Ids
      PROVE  stored[i].count = CountBefore(i) + att.totals[i]
  <2>1. CASE \A r \in att.rows : r.id # i
    BY <1>1, <2>1 DEF ExactInv, UnsentComplete
  <2>2. ASSUME NEW r \in att.rows, r.id = i
        PROVE  stored[i].count = CountBefore(i) + att.totals[i]
    <3>1. stored[i].last >= Trunc(r.last)
      BY <1>1, <2>2 DEF ExactInv, UnsentComplete, Writes
    <3>2. r \in sent /\ r.total = att.totals[i]
      BY <1>1, <2>2 DEF WidenInv, AttemptInFlight, CountInv, AttemptWithin
    <3> QED
      BY <2>2, <3>1, <3>2 DEF ExactInv, SharesExact, Share
  <2> QED
    BY <2>1, <2>2
<1>3. SharesExact' /\ TotalsExact'
  BY <1>1 DEF ExactInv, SharesExact, TotalsExact, CountBefore, Share, EventsOf, Uncounted, Trunc
<1>4. UnsentComplete'
  BY <1>1, <1>2 DEF UnsentComplete, CountBefore, EventsOf
<1> QED
  BY <1>3, <1>4 DEF ExactInv

\* Marking turns complete Sightings of the window into counted events.
LEMMA MarkExact ==
  ASSUME TypeInv, CursorInv, ExactInv, MarkCounted
  PROVE  ExactInv'
<1> DEFINE W == Window(att.ws, att.we)
<1>1. /\ pc = "mark" /\ pc' = "advance" /\ sent' = {} /\ UNCHANGED <<stored, att>>
      /\ counted' = counted \cup W
  BY DEF MarkCounted, RowsElsewhere, CursorInv, AttemptAtCursor, platform
<1>2. ASSUME NEW i \in Ids
      PROVE  stored[i].count = Legacy[i].count + EventsOf(i, counted \cup W)
  <2>1. stored[i].count = CountBefore(i) + EventsOf(i, W \ counted)
    BY <1>1 DEF ExactInv, UnsentComplete, TotalsExact, Uncounted
  <2>2. Legacy[i].count \in Nat
    BY LegacyAssumption DEF Sighting
  <2>3. EventsOf(i, counted) \in Nat /\ EventsOf(i, W \ counted) \in Nat
    BY EventsAreFinite
  <2>4. EventsOf(i, counted) + EventsOf(i, W \ counted) = EventsOf(i, counted \cup W)
    BY EventsAdd
  <2> HIDE DEF W
  <2> QED
    BY <2>1, <2>2, <2>3, <2>4 DEF CountBefore
<1>3. \A i : CountBefore(i)' = Legacy[i].count + EventsOf(i, counted \cup W)
  BY <1>1 DEF CountBefore, EventsOf
<1> QED
  BY <1>1, <1>2, <1>3 DEF ExactInv, SharesExact, TotalsExact, UnsentComplete

LEMMA NextExactInv ==
  ASSUME NothingMissed, WindowsRepeat
  PROVE  CountedInv /\ ExactInv /\ [Next]_vars => ExactInv'
<1> SUFFICES ASSUME CountedInv, ExactInv, [Next]_vars
             PROVE  ExactInv'
  OBVIOUS
<1> USE DEF ledger, platform
<1>0. TypeInv /\ CursorInv /\ WidenInv /\ CountInv
  BY DEF CountedInv
\* A step of a cycle, or outside one, that only time or the cursor shows.
<1>a. ASSUME UNCHANGED <<counted, sent, stored>>,
             pc' = "idle" \/ UNCHANGED <<pc, att, inflight>>
      PROVE  ExactInv'
  <2>1. SharesExact'
    BY <1>a DEF ExactInv, SharesExact, CountBefore, Share, EventsOf, Trunc
  <2>2. TotalsExact' /\ UnsentComplete'
    BY <1>a DEF ExactInv, TotalsExact, UnsentComplete, CountBefore, EventsOf, Uncounted, Trunc, WriteOf
  <2> QED
    BY <2>1, <2>2 DEF ExactInv
<1>1. CASE Tick
  BY <1>1, <1>a DEF Tick
<1>2. ASSUME NEW aggregated \in BOOLEAN, BeginCycle(aggregated)
      PROVE  ExactInv'
  BY <1>2, BegunExact
<1>3. ASSUME NEW answered \in BOOLEAN, Plan(answered)
      PROVE  ExactInv'
  <2>1. answered
    BY <1>3 DEF Plan, NothingMissed
  <2>2. /\ pc = "plan" /\ pc' = "record" /\ UNCHANGED <<counted, sent, stored>>
        /\ att'.rows = RowsOf(answered) /\ att'.ws = att.ws /\ att'.we = att.we
        /\ att'.totals = att.totals /\ att'.seen = att.seen
    BY <1>0, <1>3, <2>1 DEF Plan, TypeInv, TypeOK, Attempt
  <2>3. ASSUME NEW r \in RowsOf(answered)
        PROVE  stored[r.id].count = CountBefore(r.id) + r.base
    <3>1. PICK i \in Ids : r.id = i /\ r.base = Base(i, answered)
      BY DEF RowsOf
    <3> QED
      BY <1>0, <2>1, <2>2, <3>1, BaseIsShare
  <2>4. ASSUME NEW i \in Ids, \A r \in RowsOf(answered) : r.id # i
        PROVE  stored[i].count = CountBefore(i) + att.totals[i]
    <3>1. ~Emitted(i, answered)
      <4> DEFINE row == [id |-> i, ws |-> att.ws, we |-> att.we, total |-> att.totals[i],
                         base |-> Base(i, answered), last |-> LastSeen(i)]
      <4>1. Emitted(i, answered) => row \in RowsOf(answered)
        BY DEF RowsOf
      <4>2. row.id = i
        OBVIOUS
      <4> QED
        BY <2>4, <4>1, <4>2
    <3> QED
      BY <1>0, <2>1, <2>2, <3>1, UnsentIsComplete
  <2>5. \A i : CountBefore(i)' = CountBefore(i)
    BY <2>2 DEF CountBefore, EventsOf
  <2>6. SharesExact'
    BY <2>2, <2>3, <2>5 DEF ExactInv, SharesExact, Share, Trunc
  <2>7. TotalsExact' /\ UnsentComplete'
    BY <2>2, <2>4, <2>5 DEF ExactInv, TotalsExact, UnsentComplete, EventsOf, Uncounted
  <2> QED
    BY <2>6, <2>7 DEF ExactInv
<1>4. CASE Record
  BY <1>0, <1>4, RecordExact
<1>5. ASSUME NEW w \in inflight, Land(w)
      PROVE  ExactInv'
  BY <1>0, <1>5, LandExact
<1>6. ASSUME NEW w \in inflight, Lose(w)
      PROVE  ExactInv'
  <2>1. /\ pc = "publish" /\ UNCHANGED <<counted, sent, stored, pc>>
        /\ att'.rows = att.rows /\ att'.ws = att.ws /\ att'.we = att.we
        /\ att'.totals = att.totals /\ att'.seen = att.seen /\ att'.lost
    BY <1>0, <1>6 DEF Lose, TypeInv, TypeOK, Attempt, WidenInv, AttemptInFlight
  <2>2. SharesExact'
    BY <2>1 DEF ExactInv, SharesExact, CountBefore, Share, EventsOf, Trunc
  <2>3. TotalsExact' /\ UnsentComplete'
    BY <2>1 DEF ExactInv, TotalsExact, UnsentComplete, CountBefore, EventsOf, Uncounted
  <2> QED
    BY <2>2, <2>3 DEF ExactInv
<1>7. CASE PublishedClean
  BY <1>0, <1>7, CleanExact
<1>8. CASE PublishedUnclean
  BY <1>8, <1>a DEF PublishedUnclean
<1>9. CASE MarkCounted
  BY <1>0, <1>9, MarkExact
<1>10. CASE Advance
  BY <1>10, <1>a DEF Advance
<1>11. CASE Crash
  BY <1>11, <1>a DEF Crash
<1>12. ASSUME NEW t \in 0..now, SetCursor(t)
       PROVE  ExactInv'
  BY <1>12, <1>a DEF SetCursor
<1>13. CASE UNCHANGED vars
  BY <1>13, <1>a DEF vars
<1> QED
  BY <1>1, <1>2, <1>3, <1>4, <1>5, <1>6, <1>7, <1>8, <1>9, <1>10, <1>11, <1>12, <1>13 DEF Next

\* Once no attempt is open, OpenCTI shows for every Sighting exactly the
\* events of the counted windows: nothing twice, and nothing left out.
THEOREM ClosedLedgerIsExact ==
  ASSUME Settled, RewindPolicy # "any", WindowsRepeat, NothingMissed
  PROVE  Spec => []ExactWhenClosed
<1>1. Init => ExactInv
  BY InitExactInv
<1>2. CountedInv /\ ExactInv /\ [Next]_vars => ExactInv'
  BY NextExactInv
<1>3. ExactInv => ExactWhenClosed
  BY DEF ExactInv, SharesExact, ExactWhenClosed, CountBefore
<1> QED
  BY <1>1, <1>2, <1>3, CountInvariant, PTL DEF Spec
=============================================================================
