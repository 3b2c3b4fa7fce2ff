-------------------------- MODULE LookupLaneProofs --------------------------
(***************************************************************************)
(* For any candidates, allowances and crashes, and as long as a failed     *)
(* publish raises: no verdict is cached before OpenCTI holds it.  And on a *)
(* day without failures no source is called beyond its allowance.          *)
(***************************************************************************)
EXTENDS LookupLane, ActivitySweepProofs

(* A row whose time to live or whose day ends is still a row (ledger.py).     *)
LEMMA LapsedEntry ==
  \A e \in Entry : [e EXCEPT !.live = FALSE] \in Entry /\ [e EXCEPT !.today = FALSE] \in Entry
BY DEF Entry

\* Every variable keeps its type; in particular a pending verdict is always
\* among the objects of the cycle (run_cycle).
THEOREM TypeCorrect == Spec => []TypeOK
<1> USE DEF Values
<1>1. Init => TypeOK
  BY LaneAssumption DEF Init, TypeOK, Entry, NoEntry
<1>2. TypeOK /\ [Next]_vars => TypeOK'
  <2> SUFFICES ASSUME TypeOK, [Next]_vars PROVE TypeOK'
    OBVIOUS
  <2> USE LaneAssumption DEF TypeOK, Entry, Answer, durable, cycle
  <2>1. ASSUME NEW a \in Addresses, Appear(a) \/ AgeOut(a) PROVE TypeOK'
    <3>1. active' \subseteq Addresses
      BY <2>1 DEF Appear, AgeOut
    <3>2. UNCHANGED <<cache, cursor, calls, landed, pc, page, pool, spent, objects, pending, faults>>
      BY <2>1 DEF Appear, AgeOut
    <3> QED
      BY <3>1, <3>2
  <2>2. ASSUME NEW v \in Values, Expire(v) PROVE TypeOK'
    <3> HIDE DEF Entry
    <3>1. cache' \in [Values -> Entry]
      BY <2>2, LapsedEntry DEF Expire
    <3>2. UNCHANGED <<active, cursor, calls, landed, pc, page, pool, spent, objects, pending, faults>>
      BY <2>2 DEF Expire
    <3> QED
      BY <3>1, <3>2
  <2>3. CASE Midnight
    <3> HIDE DEF Entry
    <3> QED
      BY <2>3, LapsedEntry DEF Midnight
  <2>4. CASE Begin \/ BeginUnread
    <3>1. page' \subseteq Addresses
      BY <2>4, PageOfActive DEF Begin, BeginUnread
    <3>2. spent' \in Nat
      <4>1. IsFiniteSet(IPv4)
        BY SweepAssumption, FS_Subset
      <4>2. IsFiniteSet({v \in IPv4 : cache[v].today})
        BY <4>1, FS_Subset
      <4> QED
        BY <2>4, <4>2, FS_CardinalityType DEF Begin, BeginUnread, SpentToday, Candidates
    <3>3. faults' \in Nat
      BY <2>4 DEF Begin, BeginUnread, Fail
    <3> QED
      BY <2>4, <3>1, <3>2, <3>3 DEF Begin, BeginUnread
  <2>5. ASSUME NEW v \in Values, UseCache(v) \/ Skip(v) PROVE TypeOK'
    BY <2>5 DEF UseCache, Skip, Handles
  <2>6. ASSUME NEW v \in Values, FetchFails(v) \/ Ask(v) PROVE TypeOK'
    <3>1. calls' \in [Values -> Nat] /\ spent' \in Nat /\ pool' \subseteq Values /\ faults' \in Nat
      BY <2>6 DEF FetchFails, Ask, FetchFound, FetchNothing, Call, Fail
    <3>2. cache' \in [Values -> Entry]
      <4>1. CASE FetchFails(v)
        BY <4>1 DEF FetchFails
      <4>2. CASE FetchNothing(v)
        BY <4>2 DEF FetchNothing
      <4>3. CASE FetchFound(v)
        BY <4>3 DEF FetchFound, CachedWhenFound
      <4> QED
        BY <2>6, <4>1, <4>2, <4>3 DEF Ask
    <3>3. objects' \subseteq Values /\ pending' \subseteq objects'
      BY <2>6 DEF FetchFails, Ask, FetchFound, FetchNothing
    <3> QED
      BY <2>6, <3>1, <3>2, <3>3 DEF FetchFails, Ask, FetchFound, FetchNothing
  <2>7. CASE EndAddresses
    <3>1. cursor' \in Addresses \cup {StartOfPass}
      BY <2>7, AdvanceWithinPage DEF EndAddresses, CursorAfter
    <3>2. spent' \in Nat
      <4>1. IsFiniteSet({v \in Samples : cache[v].today})
        BY FS_Subset
      <4> QED
        BY <2>7, <4>1, FS_CardinalityType DEF EndAddresses, SpentToday, Candidates
    <3> QED
      BY <2>7, <3>1, <3>2 DEF EndAddresses
  <2>8. CASE EndSamples \/ Publish \/ Confirmed
    BY <2>8 DEF EndSamples, Publish, Confirmed
  <2>9. ASSUME NEW what \in {"raise", "report"}, NEW part \in SUBSET objects,
               PublishFails(what, part)
        PROVE  TypeOK'
    BY <2>9 DEF PublishFails, Fail, AfterRaise
  <2>10. ASSUME NEW v \in Values, Confirm(v) PROVE TypeOK'
    BY <2>10 DEF Confirm
  <2>11. CASE Crash
    BY <2>11 DEF Crash, Fail
  <2>12. CASE UNCHANGED vars
    BY <2>12 DEF vars
  <2> QED
    BY <2>1, <2>2, <2>3, <2>4, <2>5, <2>6, <2>7, <2>8, <2>9, <2>10, <2>11, <2>12 DEF Next
<1> QED
  BY <1>1, <1>2, PTL DEF Spec

-----------------------------------------------------------------------------
(* Cached verdicts are in OpenCTI.                                         *)

\* What waits for its ledger row has landed once the cycle confirms.
PendingLanded == pc = "confirm" => pending \subseteq landed

\* "Cache on confirmed, never on attempted": a cached verdict is in OpenCTI,
\* wherever a cycle fails or dies, if a publish that did not land raises
\* (run_cycle, EnrichmentLedger.record_result).
THEOREM CacheNeverAhead ==
  ASSUME "report" \notin Failures
  PROVE  Spec => []CachedOnlyLanded
<1> DEFINE Inv == CachedOnlyLanded /\ PendingLanded
<1>1. Init => Inv
  BY DEF Init, CachedOnlyLanded, PendingLanded, NoEntry
<1>2. TypeOK /\ Inv /\ [Next]_vars => Inv'
  <2> SUFFICES ASSUME TypeOK, Inv, [Next]_vars PROVE Inv'
    OBVIOUS
  <2> USE DEF TypeOK, Entry, Answer, CachedOnlyLanded, PendingLanded, durable, cycle
  <2>1. ASSUME NEW a \in Addresses, Appear(a) \/ AgeOut(a) PROVE Inv'
    BY <2>1 DEF Appear, AgeOut
  <2>2. ASSUME NEW v \in Values, Expire(v) PROVE Inv'
    BY <2>2 DEF Expire
  <2>3. CASE Midnight
    BY <2>3 DEF Midnight
  <2>4. CASE Begin \/ BeginUnread
    BY <2>4 DEF Begin, BeginUnread
  <2>5. ASSUME NEW v \in Values, UseCache(v) \/ Skip(v) PROVE Inv'
    BY <2>5 DEF UseCache, Skip, Handles
  <2>6. ASSUME NEW v \in Values, FetchFails(v) \/ Ask(v) PROVE Inv'
    BY <2>6 DEF FetchFails, Ask, FetchFound, FetchNothing, CachedWhenFound, Call, Handles,
                Sources
  <2>7. CASE EndAddresses \/ EndSamples
    BY <2>7 DEF EndAddresses, EndSamples
  <2>8. CASE Publish \/ Confirmed
    BY <2>8 DEF Publish, Confirmed
  <2>9. ASSUME NEW what \in {"raise", "report"}, NEW part \in SUBSET objects,
               PublishFails(what, part)
        PROVE  Inv'
    BY <2>9 DEF PublishFails, Fail, AfterRaise
  <2>10. ASSUME NEW v \in Values, Confirm(v) PROVE Inv'
    BY <2>10 DEF Confirm
  <2>11. CASE Crash
    BY <2>11 DEF Crash
  <2>12. CASE UNCHANGED vars
    BY <2>12 DEF vars
  <2> QED
    BY <2>1, <2>2, <2>3, <2>4, <2>5, <2>6, <2>7, <2>8, <2>9, <2>10, <2>11, <2>12 DEF Next
<1>3. Inv => CachedOnlyLanded
  OBVIOUS
<1> QED
  BY <1>1, <1>2, <1>3, TypeCorrect, PTL DEF Spec
-----------------------------------------------------------------------------
(* The day's calls stay within the allowance.                              *)

\* The ledger knows of a call of today, or the cycle still holds its verdict.
Remembered(v) == (cache[v].today /\ Answered(v)) \/ v \in pending

\* No second call: what was asked about today would be answered from the ledger,
\* or has its verdict pending and is not a candidate any more.
AskedOnce ==
  \A v \in Values : calls[v] <= 1 /\ (calls[v] = 1 => Remembered(v))

\* Where pending verdicts are: nowhere between cycles, and never among the
\* candidates that are left.
PendingPlace ==
  /\ pc = "idle" => pending = {}
  /\ pc = "internetdb" => pending \subseteq IPv4
  /\ pc \in Sources => pool \cap pending = {} /\ pool \subseteq Candidates(pc)

\* The cycle counts no less than what its source was asked, and nobody is asked
\* beyond the allowance.
WithinAllowance ==
  /\ pc \in Sources => Cardinality(Asked(pc)) <= spent
  /\ \A src \in Sources :
       Allowance[src] # 0 => Cardinality(Asked(src)) <= Allowance[src]

CalmDay == AskedOnce /\ PendingPlace /\ WithinAllowance

LEMMA CandidatesFinite ==
  \A src \in Sources : IsFiniteSet(Candidates(src)) /\ Candidates(src) \subseteq Values
<1>1. IsFiniteSet(IPv4)
  BY LaneAssumption, SweepAssumption, FS_Subset
<1> QED
  BY <1>1, LaneAssumption DEF Sources, Candidates, Values

LEMMA CandidatesApart == Candidates("internetdb") \cap Candidates("circl") = {}
BY LaneAssumption DEF Candidates

\* Who was asked is a finite set, no larger than any of its supersets.
LEMMA AskedFinite ==
  \A src \in Sources : IsFiniteSet(Asked(src)) /\ Cardinality(Asked(src)) \in Nat
BY CandidatesFinite, FS_Subset, FS_CardinalityType DEF Asked

\* What the ledger counts covers what was asked, when no verdict of the source is
\* pending (spent_since).
LEMMA SpentCoversAsked ==
  ASSUME TypeOK, AskedOnce, NEW src \in Sources, Candidates(src) \cap pending = {}
  PROVE  SpentToday(src) \in Nat /\ Cardinality(Asked(src)) <= SpentToday(src)
<1> DEFINE Rows == {v \in Candidates(src) : cache[v].today}
<1>1. IsFiniteSet(Rows)
  BY CandidatesFinite, FS_Subset
<1>2. Asked(src) \subseteq Rows
  BY CandidatesFinite DEF Asked, AskedOnce, Remembered, TypeOK
<1>3. Cardinality(Rows) \in Nat /\ Cardinality(Asked(src)) <= Cardinality(Rows)
  BY <1>1, <1>2, FS_Subset, FS_CardinalityType
<1> QED
  BY <1>3 DEF SpentToday

\* A call asks about one object more, of its own source only.
LEMMA CallAsksOneMore ==
  ASSUME TypeOK, AskedOnce, PendingPlace, NEW v \in Values, Call(v)
  PROVE  /\ pc \in Sources
         /\ v \notin pending
         /\ calls[v] = 0
         /\ calls'[v] = 1
         /\ \A u \in Values \ {v} : calls'[u] = calls[u]
         /\ Cardinality({u \in Candidates(pc) : calls'[u] > 0}) = Cardinality(Asked(pc)) + 1
         /\ \A src \in Sources \ {pc} : {u \in Candidates(src) : calls'[u] > 0} = Asked(src)
<1>1. pc \in Sources /\ v \in pool /\ v \in Candidates(pc) /\ v \notin pending
  BY DEF Call, Handles, PendingPlace
<1>2. calls[v] = 0
  BY <1>1 DEF AskedOnce, Remembered, Call, TypeOK
<1>3. calls'[v] = 1 /\ \A u \in Values \ {v} : calls'[u] = calls[u]
  BY <1>2 DEF Call, TypeOK
<1>4. {u \in Candidates(pc) : calls'[u] > 0} = Asked(pc) \cup {v}
  BY <1>1, <1>3, CandidatesFinite DEF Asked
<1>5. v \notin Asked(pc)
  BY <1>2 DEF Asked
<1>6. Cardinality(Asked(pc) \cup {v}) = Cardinality(Asked(pc)) + 1
  BY <1>1, <1>5, AskedFinite, FS_AddElement
<1>7. ASSUME NEW src \in Sources \ {pc}
      PROVE  {u \in Candidates(src) : calls'[u] > 0} = Asked(src)
  <2>1. v \notin Candidates(src)
    BY <1>1, CandidatesApart DEF Sources
  <2> QED
    BY <2>1, <1>3, CandidatesFinite DEF Asked
<1> QED
  BY <1>1, <1>2, <1>3, <1>4, <1>6, <1>7

\* A day's calls stay within the allowance of their source when nothing fails, over
\* all the cycles of the day and those that run past midnight (run_cycle,
\* EnrichmentLedger.spent_since).
THEOREM AllowanceKept == Spec => []BudgetKept
<1> DEFINE Inv == faults = 0 => CalmDay
<1>1. Init => Inv
  <2> SUFFICES ASSUME Init PROVE CalmDay
    OBVIOUS
  <2>1. AskedOnce
    BY DEF Init, AskedOnce
  <2>2. PendingPlace
    BY DEF Init, PendingPlace, Sources
  <2>3. \A src \in Sources : Asked(src) = {}
    BY CandidatesFinite DEF Init, Asked
  <2>4. WithinAllowance
    BY <2>3, FS_EmptySet, LaneAssumption DEF WithinAllowance, Init
  <2> QED
    BY <2>1, <2>2, <2>4 DEF CalmDay
<1>2. TypeOK /\ Inv /\ [Next]_vars => Inv'
  <2> SUFFICES ASSUME TypeOK, Inv, [Next]_vars, faults' = 0 PROVE CalmDay'
    OBVIOUS
  <2>0. faults = 0 /\ CalmDay
    <3>1. faults \in Nat
      BY DEF TypeOK
    <3>2. faults' = faults \/ faults' = faults + 1
      BY DEF Next, Appear, AgeOut, Expire, Midnight, Begin, BeginUnread, UseCache, Skip,
             FetchFails, Ask, FetchFound, FetchNothing, EndAddresses, EndSamples, Publish,
             PublishFails, Confirm, Confirmed, Crash, Fail, vars
    <3> QED
      BY <3>1, <3>2
  <2>calm. AskedOnce /\ PendingPlace /\ WithinAllowance
    BY <2>0 DEF CalmDay
  <2>sameAsked. ASSUME calls' = calls, NEW src \in Sources PROVE Asked(src)' = Asked(src)
    BY <2>sameAsked DEF Asked, Candidates
  <2>sameSpent. ASSUME calls' = calls, pc' = pc \/ pc' \notin Sources, spent' = spent
        PROVE  WithinAllowance'
    BY <2>sameSpent, <2>sameAsked, <2>calm DEF WithinAllowance
  <2>1. ASSUME NEW a \in Addresses, Appear(a) \/ AgeOut(a) PROVE CalmDay'
    <3>1. UNCHANGED <<cache, calls, pc, pool, spent, pending>>
      BY <2>1 DEF Appear, AgeOut, durable, cycle
    <3>2. AskedOnce'
      BY <3>1, <2>calm DEF AskedOnce, Remembered, Answered
    <3>3. PendingPlace'
      BY <3>1, <2>calm DEF PendingPlace, Candidates
    <3> QED
      BY <3>1, <3>2, <3>3, <2>sameSpent DEF CalmDay
  <2>2. ASSUME NEW v \in Values, Expire(v) PROVE CalmDay'
    <3>1. UNCHANGED <<calls, pc, pool, spent, pending>>
      BY <2>2 DEF Expire, cycle
    <3>2. AskedOnce'
      BY <3>1, <2>2, <2>calm DEF AskedOnce, Remembered, Answered, Expire, TypeOK, Entry
    <3>3. PendingPlace'
      BY <3>1, <2>calm DEF PendingPlace, Candidates
    <3> QED
      BY <3>1, <3>2, <3>3, <2>sameSpent DEF CalmDay
  <2>3. CASE Midnight
    <3>1. UNCHANGED <<pc, pool, spent, pending>>
      BY <2>3 DEF Midnight, cycle
    <3>2. \A v \in Values : calls'[v] = 0
      BY <2>3 DEF Midnight
    <3>3. AskedOnce'
      BY <3>2 DEF AskedOnce
    <3>4. PendingPlace'
      BY <3>1, <2>calm DEF PendingPlace, Candidates
    <3>5. \A src \in Sources : Asked(src)' = {}
      BY <3>2, CandidatesFinite DEF Asked, Candidates
    <3>6. WithinAllowance'
      <4>1. \A src \in Sources : Cardinality(Asked(src)') = 0
        BY <3>5, FS_EmptySet
      <4>2. spent' \in Nat /\ \A src \in Sources : Allowance[src] \in Nat
        BY <3>1, LaneAssumption DEF TypeOK
      <4>3. pc' \in Sources => Cardinality(Asked(pc)') <= spent'
        BY <3>1, <4>1, <4>2
      <4> QED
        BY <4>1, <4>2, <4>3 DEF WithinAllowance
    <3> QED
      BY <3>3, <3>4, <3>6 DEF CalmDay
  <2>4. CASE Begin
    <3>1. pending = {} /\ pending' = {} /\ pc' = "internetdb" /\ UNCHANGED <<cache, calls>>
      BY <2>4, <2>calm DEF Begin, PendingPlace, durable
    <3>2. AskedOnce'
      BY <3>1, <2>calm DEF AskedOnce, Remembered, Answered
    <3>3. PendingPlace'
      BY <3>1, <2>4 DEF PendingPlace, Begin, Sources, Candidates
    <3>4. "internetdb" \in Sources
      BY DEF Sources
    <3>5. Cardinality(Asked("internetdb")) <= spent'
      <4>1. Cardinality(Asked("internetdb")) <= SpentToday("internetdb")
        BY <3>1, <3>4, <2>calm, SpentCoversAsked
      <4> QED
        BY <4>1, <2>4 DEF Begin
    <3>6. WithinAllowance'
      BY <3>1, <3>4, <3>5, <2>sameAsked, <2>calm DEF WithinAllowance
    <3> QED
      BY <3>2, <3>3, <3>6 DEF CalmDay
  <2>5. ASSUME BeginUnread \/ Crash \/ (\E v \in Values : FetchFails(v))
                 \/ (\E what \in {"raise", "report"}, part \in SUBSET objects :
                       PublishFails(what, part))
        PROVE  CalmDay'
    BY <2>5, <2>0 DEF BeginUnread, Crash, FetchFails, PublishFails, Fail
  <2>6. ASSUME NEW v \in Values, UseCache(v) \/ Skip(v) PROVE CalmDay'
    <3>1. UNCHANGED <<cache, calls, pc, spent, pending>> /\ pool' \subseteq pool
      BY <2>6 DEF UseCache, Skip, durable
    <3>2. AskedOnce'
      BY <3>1, <2>calm DEF AskedOnce, Remembered, Answered
    <3>3. PendingPlace'
      BY <3>1, <2>calm DEF PendingPlace, Candidates
    <3> QED
      BY <3>1, <3>2, <3>3, <2>sameSpent DEF CalmDay
  <2>7. ASSUME NEW v \in Values, Ask(v) PROVE CalmDay'
    <3>1. Call(v) /\ pc' = pc
      BY <2>7 DEF Ask, FetchFound, FetchNothing
    <3>2. /\ pc \in Sources
          /\ v \notin pending
          /\ calls[v] = 0
          /\ calls'[v] = 1
          /\ \A u \in Values \ {v} : calls'[u] = calls[u]
          /\ Cardinality({u \in Candidates(pc) : calls'[u] > 0}) = Cardinality(Asked(pc)) + 1
          /\ \A src \in Sources \ {pc} : {u \in Candidates(src) : calls'[u] > 0} = Asked(src)
      BY <3>1, <2>calm, CallAsksOneMore
    <3>3. \A src \in Sources : Asked(src)' = {u \in Candidates(src) : calls'[u] > 0}
      BY DEF Asked, Candidates
    <3>4. AskedOnce'
      <4>1. /\ \A u \in Values \ {v} : cache'[u] = cache[u] /\ (u \in pending => u \in pending')
            /\ v \in pending' \/ cache'[v] = Answer("not_found")
        BY <2>7 DEF Ask, FetchFound, FetchNothing, CachedWhenFound, TypeOK
      <4>2. \A u \in Values \ {v} : Remembered(u) => Remembered(u)'
        BY <4>1 DEF Remembered, Answered
      <4>3. Remembered(v)'
        BY <4>1 DEF Remembered, Answered, Answer
      <4> QED
        BY <4>2, <4>3, <3>2, <2>calm DEF AskedOnce
    <3>5. PendingPlace'
      <4>1. v \in pool /\ pool' = pool \ {v} /\ pending' \subseteq pending \cup {v}
        BY <2>7 DEF Ask, FetchFound, FetchNothing, Call, Handles
      <4>2. pool \cap pending = {} /\ pool \subseteq Candidates(pc)
        BY <3>2, <2>calm DEF PendingPlace
      <4>3. pc = "internetdb" => pending \subseteq IPv4 /\ v \in IPv4
        BY <4>1, <4>2, <2>calm DEF PendingPlace, Candidates
      <4> QED
        BY <3>1, <3>2, <4>1, <4>2, <4>3 DEF PendingPlace, Candidates, Sources
    <3>6. WithinAllowance'
      <4>1. spent' = spent + 1 /\ (Allowance[pc] # 0 => spent < Allowance[pc])
        BY <3>1, <3>2, LaneAssumption DEF Call, Exhausted, TypeOK
      <4>2. Cardinality(Asked(pc)) \in Nat /\ Cardinality(Asked(pc)) <= spent
        BY <3>2, <2>calm, AskedFinite DEF WithinAllowance
      <4>3. ASSUME NEW src \in Sources
            PROVE  /\ src = pc => Cardinality(Asked(src)') <= spent'
                   /\ Allowance[src] # 0 => Cardinality(Asked(src)') <= Allowance[src]
        <5>1. CASE src = pc
          <6>1. Cardinality(Asked(src)') = Cardinality(Asked(pc)) + 1
            BY <5>1, <3>2, <3>3
          <6>2. spent \in Nat /\ Allowance[pc] \in Nat
            BY <3>2, LaneAssumption DEF TypeOK
          <6> QED
            BY <5>1, <6>1, <6>2, <4>1, <4>2
        <5>2. CASE src # pc
          BY <5>2, <3>2, <3>3, <2>calm DEF WithinAllowance
        <5> QED
          BY <5>1, <5>2
      <4> QED
        BY <4>3, <3>1 DEF WithinAllowance
    <3> QED
      BY <3>4, <3>5, <3>6 DEF CalmDay
  <2>8. CASE EndAddresses
    <3>1. UNCHANGED <<cache, calls, pending>> /\ pc' = "circl" /\ pool' = Samples
      BY <2>8 DEF EndAddresses
    <3>2. AskedOnce'
      BY <3>1, <2>calm DEF AskedOnce, Remembered, Answered
    <3>3. pending \subseteq IPv4
      BY <2>8, <2>calm DEF EndAddresses, PendingPlace
    <3>4. Candidates("circl") \cap pending = {}
      BY <3>3, CandidatesApart DEF Candidates
    <3>5. PendingPlace'
      BY <3>1, <3>4 DEF PendingPlace, Candidates
    <3>6. "circl" \in Sources
      BY DEF Sources
    <3>7. Cardinality(Asked("circl")) <= spent'
      BY <2>8, <3>4, <3>6, <2>calm, SpentCoversAsked DEF EndAddresses
    <3>8. WithinAllowance'
      BY <3>1, <3>6, <3>7, <2>sameAsked, <2>calm DEF WithinAllowance
    <3> QED
      BY <3>2, <3>5, <3>8 DEF CalmDay
  <2>9. CASE EndSamples \/ Publish \/ Confirmed
    <3>1. UNCHANGED <<cache, calls, spent, pending>> /\ pc' \in {"idle", "publish", "confirm"}
      BY <2>9 DEF EndSamples, Publish, Confirmed, durable, cycle
    <3>2. AskedOnce'
      BY <3>1, <2>calm DEF AskedOnce, Remembered, Answered
    <3>3. pc' = "idle" => pending = {}
      BY <2>9 DEF EndSamples, Publish, Confirmed, TypeOK
    <3>4. pc' \notin Sources
      BY <3>1 DEF Sources
    <3>5. PendingPlace'
      BY <3>1, <3>3, <3>4 DEF PendingPlace
    <3> QED
      BY <3>1, <3>2, <3>4, <3>5, <2>sameSpent DEF CalmDay
  <2>10. ASSUME NEW v \in Values, Confirm(v) PROVE CalmDay'
    <3>1. UNCHANGED <<calls, pc, spent>> /\ pc = "confirm" /\ pc \notin Sources
      BY <2>10 DEF Confirm, Sources
    <3>2. AskedOnce'
      BY <2>10, <2>calm DEF AskedOnce, Remembered, Answered, Answer, Confirm, TypeOK
    <3>3. PendingPlace'
      BY <3>1 DEF PendingPlace
    <3> QED
      BY <3>1, <3>2, <3>3, <2>sameSpent DEF CalmDay
  <2>11. CASE UNCHANGED vars
    <3>1. UNCHANGED <<cache, calls, pc, pool, spent, pending>>
      BY <2>11 DEF vars, durable, cycle
    <3>2. AskedOnce'
      BY <3>1, <2>calm DEF AskedOnce, Remembered, Answered
    <3>3. PendingPlace'
      BY <3>1, <2>calm DEF PendingPlace, Candidates
    <3> QED
      BY <3>1, <3>2, <3>3, <2>sameSpent DEF CalmDay
  <2> QED
    BY <2>1, <2>2, <2>3, <2>4, <2>5, <2>6, <2>7, <2>8, <2>9, <2>10, <2>11 DEF Next
<1>3. TypeOK /\ Inv => BudgetKept
  <2> SUFFICES ASSUME TypeOK, Inv, faults = 0 PROVE BudgetKept
    BY DEF BudgetKept
  <2> QED
    BY CandidatesFinite DEF BudgetKept, CalmDay, AskedOnce, WithinAllowance
<1> QED
  BY <1>1, <1>2, <1>3, TypeCorrect, PTL DEF Spec
=============================================================================
