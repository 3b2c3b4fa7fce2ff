----------------------------- MODULE CycleProofs -----------------------------
(***************************************************************************)
(* What a cycle is: the lease around it, the bundle it builds, and what    *)
(* /health says of it.                                                     *)
(*                                                                         *)
(* The lease, for any number of processes, windows and crashes.  Two       *)
(* inductive invariants carry the theorems.  Admission says that without a *)
(* stall a process in its cycle holds a live lease.  Custody says that, if *)
(* nobody stalls between a check and the write it guards, the holder's     *)
(* reading of the ledger and of the cursor is current, however often the   *)
(* lease changes hands in the meantime.                                    *)
(*                                                                         *)
(* The bundle, for any sessions and in any order.  First: what a builder   *)
(* answers does not depend on the sessions before it, because the bundle   *)
(* only ever holds nodes no builder would refuse (Clean).  Then: each      *)
(* builder draws its edges between its own nodes, save to an Indicator the *)
(* gate withheld and to the file a Honeytrap download names (Fit).  On     *)
(* these rests the inductive invariant BundleInv, whose parts say of the   *)
(* unfinished bundle what the theorems say of the finished one.            *)
(* Tallied says of every row of the tally that it counts exactly the       *)
(* sessions folded into it so far, each of them once.                      *)
(*                                                                         *)
(* The endpoint, for any interval and any number of rows it reads.  Three  *)
(* invariants relate the rows to what happened: OnRecord bounds what they  *)
(* say by it, Timely dates the newest success, and Retained finds an ended *)
(* cycle among them.  Beating bounds the age of the heartbeat.             *)
(***************************************************************************)
EXTENDS CycleLease, CycleBundle, Health, FiniteSetTheorems, TLAPS

(* The lease.                                                              *)

\* Every variable keeps its type: a renewal never gives more than TTL
\* (renew_lease, acquire_lease).
THEOREM TypeCorrect == Spec => []TypeOK
<1> USE LeaseAssumption
<1>1. Init => TypeOK
  BY DEF Init, TypeOK, Lease, NoLease, Steps
<1>2. TypeOK /\ [Next]_vars => TypeOK'
  <2> SUFFICES ASSUME TypeOK, [Next]_vars PROVE TypeOK'
    OBVIOUS
  <2> USE DEF TypeOK, Lease, Steps, bounded
  <2>1. CASE Tick
    BY <2>1 DEF Tick
  <2>2. CASE Stall
    BY <2>2 DEF Stall
  <2>3. ASSUME NEW p \in Procs, Heartbeat(p) PROVE TypeOK'
    BY <2>3 DEF Heartbeat, Renewed
  <2>4. ASSUME NEW p \in Procs, Step(p) PROVE TypeOK'
    <3>1. CASE Acquire(p)
      BY <3>1 DEF Acquire, Goto
    <3>2. CASE Read(p)
      BY <3>2 DEF Read, Goto
    <3>3. CASE CheckLease(p) \/ RecheckLease(p)
      BY <3>3 DEF CheckLease, RecheckLease, Goto
    <3>4. CASE WriteLedger(p) \/ MarkCounted(p)
      BY <3>4 DEF WriteLedger, MarkCounted, Goto
    <3>5. CASE PublishClean(p)
      BY <3>5 DEF PublishClean, Goto
    <3>6. CASE Advance(p)
      BY <3>6 DEF Advance, Goto
    <3>7. CASE Release(p)
      BY <3>7 DEF Release, Goto, NoLease
    <3> QED
      BY <2>4, <3>1, <3>2, <3>3, <3>4, <3>5, <3>6, <3>7 DEF Step
  <2>5. ASSUME NEW p \in Procs, PublishUnclean(p) PROVE TypeOK'
    BY <2>5 DEF PublishUnclean, Goto
  <2>6. ASSUME NEW p \in Procs, Crash(p) PROVE TypeOK'
    BY <2>6 DEF Crash
  <2>7. CASE UNCHANGED vars
    BY <2>7 DEF vars
  <2> QED
    BY <2>1, <2>2, <2>3, <2>4, <2>5, <2>6, <2>7 DEF Next
<1> QED
  BY <1>1, <1>2, PTL DEF Spec

-----------------------------------------------------------------------------
(* One cycle at a time.                                                    *)

Admission == stalls = 0 => \A p \in InCycle : Held(p)

LEMMA AdmissionInitially == Init => Admission
BY DEF Init, Admission, InCycle

\* A step that keeps the lease, and takes nobody into a cycle, keeps Admission.
LEMMA AdmissionFrame ==
  ASSUME Admission, lease' = lease, stalls' = stalls, InCycle' \subseteq InCycle
  PROVE  Admission'
BY DEF Admission, Held

LEMMA AdmissionStep == TypeOK /\ Admission /\ [Next]_vars => Admission'
<1> SUFFICES ASSUME TypeOK, Admission, [Next]_vars PROVE Admission'
  OBVIOUS
<1> USE LeaseAssumption DEF TypeOK, Lease, Steps, bounded
<1>1. CASE Tick
  BY <1>1 DEF Tick, Admission, InCycle, Held
<1>2. CASE Stall
  BY <1>2 DEF Stall, Admission
<1>3. ASSUME NEW p \in Procs, Heartbeat(p) PROVE Admission'
  BY <1>3 DEF Heartbeat, Renewed, Admission, InCycle, Held
<1>4. ASSUME NEW p \in Procs, Step(p) PROVE Admission'
  <2>1. CASE Acquire(p)
    BY <2>1 DEF Acquire, Goto, Free, Admission, InCycle, Held
  <2>2. CASE Release(p)
    BY <2>2 DEF Release, Goto, NoLease, Admission, InCycle, Held
  <2>3. CASE Read(p) \/ CheckLease(p) \/ WriteLedger(p) \/ PublishClean(p)
             \/ RecheckLease(p) \/ MarkCounted(p) \/ Advance(p)
    <3>1. lease' = lease /\ stalls' = stalls /\ InCycle' \subseteq InCycle
      BY <2>3 DEF Read, CheckLease, WriteLedger, PublishClean, RecheckLease, MarkCounted,
                  Advance, Goto, InCycle
    <3> QED
      BY <3>1, AdmissionFrame
  <2> QED
    BY <1>4, <2>1, <2>2, <2>3 DEF Step
<1>5. ASSUME NEW p \in Procs, PublishUnclean(p) PROVE Admission'
  <2>1. lease' = lease /\ stalls' = stalls /\ InCycle' \subseteq InCycle
    BY <1>5 DEF PublishUnclean, Goto, InCycle
  <2> QED
    BY <2>1, AdmissionFrame
<1>6. ASSUME NEW p \in Procs, Crash(p) PROVE Admission'
  <2>1. lease' = lease /\ stalls' = stalls /\ InCycle' \subseteq InCycle
    BY <1>6 DEF Crash, InCycle
  <2> QED
    BY <2>1, AdmissionFrame
<1>7. CASE UNCHANGED vars
  BY <1>7 DEF vars, Admission, InCycle, Held
<1> QED
  BY <1>1, <1>2, <1>3, <1>4, <1>5, <1>6, <1>7 DEF Next

\* While every heartbeat comes in time two processes are never in a cycle
\* together (run_cycle, acquire_lease).
THEOREM LeaseAdmitsOne == Spec => []OneCycleAtATime
<1>1. Admission => OneCycleAtATime
  BY DEF Admission, OneCycleAtATime, Held
<1> QED
  BY <1>1, AdmissionInitially, AdmissionStep, TypeCorrect, PTL DEF Spec

-----------------------------------------------------------------------------
(* What the two checks are worth.                                          *)

GuardedSteps == {"ledger", "mark", "advance"}

Custody ==
  \A p \in up :
    /\ pc[p] \in GuardedSteps => Held(p)
    /\ lease.holder = p /\ pc[p] \in {"check", "ledger"} => saw[p] = version
    /\ lease.holder = p /\ pc[p] \in {"check", "ledger", "publish", "recheck", "mark", "advance"}
         => window[p] = cursor

LEMMA CustodyInitially == Init => Custody
BY DEF Init, Custody, GuardedSteps

LEMMA CustodyStep ==
  ASSUME StallsIn \cap GuardedSteps = {}
  PROVE  TypeOK /\ Custody /\ [Next]_vars => Custody'
<1> SUFFICES ASSUME TypeOK, Custody, [Next]_vars PROVE Custody'
  OBVIOUS
<1> USE LeaseAssumption DEF TypeOK, Lease, Steps, bounded, Custody, GuardedSteps, Held
<1>1. CASE Tick
  BY <1>1 DEF Tick, InCycle
<1>2. CASE Stall
  BY <1>2 DEF Stall
<1>3. ASSUME NEW p \in Procs, Heartbeat(p) PROVE Custody'
  BY <1>3 DEF Heartbeat, Renewed
<1>4. ASSUME NEW p \in Procs, Step(p) PROVE Custody'
  <2>1. CASE Acquire(p)
    BY <2>1 DEF Acquire, Goto, Free
  <2>2. CASE Read(p)
    BY <2>2 DEF Read, Goto
  <2>3. CASE CheckLease(p)
    BY <2>3 DEF CheckLease, Goto
  <2>4. CASE WriteLedger(p)
    BY <2>4 DEF WriteLedger, Goto
  <2>5. CASE PublishClean(p)
    BY <2>5 DEF PublishClean, Goto
  <2>6. CASE RecheckLease(p)
    BY <2>6 DEF RecheckLease, Goto
  <2>7. CASE MarkCounted(p)
    BY <2>7 DEF MarkCounted, Goto
  <2>8. CASE Advance(p)
    BY <2>8 DEF Advance, Goto
  <2>9. CASE Release(p)
    BY <2>9 DEF Release, Goto, NoLease
  <2> QED
    BY <1>4, <2>1, <2>2, <2>3, <2>4, <2>5, <2>6, <2>7, <2>8, <2>9 DEF Step
<1>5. ASSUME NEW p \in Procs, PublishUnclean(p) PROVE Custody'
  BY <1>5 DEF PublishUnclean, Goto
<1>6. ASSUME NEW p \in Procs, Crash(p) PROVE Custody'
  BY <1>6 DEF Crash
<1>7. CASE UNCHANGED vars
  BY <1>7 DEF vars
<1> QED
  BY <1>1, <1>2, <1>3, <1>4, <1>5, <1>6, <1>7 DEF Next

\* If no process stalls between a check of the lease and the write it guards,
\* a cycle writes the ledger it read, however many other cycles ran while it
\* stalled elsewhere (record_sightings_sent).
THEOREM LedgerIsNeverOverwritten ==
  ASSUME StallsIn \cap GuardedSteps = {}
  PROVE  Spec => WritesWhatItRead
<1>1. Custody /\ TypeOK => [\A p \in Procs : WriteLedger(p) => saw[p] = version]_vars
  BY DEF Custody, TypeOK, WriteLedger, GuardedSteps, Held
<1> QED
  BY <1>1, CustodyInitially, CustodyStep, TypeCorrect, PTL DEF Spec, WritesWhatItRead

\* Under the same condition the cursor moves only under the lease
\* (_run_cycle_locked, Step 7).
THEOREM CursorMovesUnderLease ==
  ASSUME StallsIn \cap GuardedSteps = {}
  PROVE  Spec => MovesUnderLease
<1>1. Custody /\ TypeOK => [\A p \in Procs : Advance(p) => Held(p)]_vars
  BY DEF Custody, TypeOK, Advance, GuardedSteps
<1> QED
  BY <1>1, CustodyInitially, CustodyStep, TypeCorrect, PTL DEF Spec, MovesUnderLease

\* And it never moves back over what another process published
\* (set_last_run).
THEOREM CursorNeverMovesBack ==
  ASSUME StallsIn \cap GuardedSteps = {}
  PROVE  Spec => CursorOnlyForward
<1>1. Custody /\ TypeOK /\ [Next]_vars => [cursor' >= cursor]_cursor
  <2> SUFFICES ASSUME Custody, TypeOK, [Next]_vars, cursor' # cursor PROVE cursor' >= cursor
    OBVIOUS
  <2>1. PICK p \in Procs : Advance(p)
    BY DEF Next, vars, bounded, Tick, Stall, Heartbeat, Step, Acquire, Read, CheckLease,
           WriteLedger, PublishClean, PublishUnclean, RecheckLease, MarkCounted, Release, Crash
  <2>2. cursor' = cursor + 1
    BY <2>1 DEF Advance, Custody, GuardedSteps, Held
  <2> QED
    BY <2>2 DEF TypeOK
<1> QED
  BY <1>1, CustodyInitially, CustodyStep, TypeCorrect, PTL DEF Spec, CursorOnlyForward

-----------------------------------------------------------------------------
(* The bundle.                                                             *)

(* Graphs.                                                                 *)

LEMMA GraphParts ==
  \A N, E : Graph(N, E).nodes = N /\ Graph(N, E).edges = E
BY DEF Graph

LEMMA JoinParts ==
  \A S : /\ Join(S).nodes = UNION {g.nodes : g \in S}
         /\ Join(S).edges = UNION {g.edges : g \in S}
BY GraphParts DEF Join

\* A bundle that never took a refused value.
Clean(em) == \A n \in em : ~Rejected(n)

\* _emit_node answers for a clean bundle as it would for an empty one: the other
\* sessions do not matter.
LEMMA AnchorsAlone ==
  ASSUME NEW em, Clean(em), NEW N
  PROVE  Anchors(N, em) = {n \in N : ~Rejected(n)}
BY DEF Anchors, BuiltNow, Clean

LEMMA AnchorsAnywhere ==
  ASSUME NEW em, Clean(em), NEW N
  PROVE  Anchors(N, em) = Anchors(N, {})
BY AnchorsAlone DEF Clean

LEMMA BlocksAnywhere ==
  ASSUME NEW s, NEW em, Clean(em)
  PROVE  /\ Context(s, em) = Context(s, {})
         /\ Driveby(s, em) = Driveby(s, {})
         /\ Ran(s, em) = Ran(s, {})
         /\ Captured(s, em) = Captured(s, {})
         /\ Attributed(s, em) = Attributed(s, {})
         /\ \A U : Referenced(U, s, em) = Referenced(U, s, {})
         /\ \A proc : Chain(s, proc, em) = Chain(s, proc, {})
         /\ \A u : Fetched(u, em) = Fetched(u, {})
<1>1. \A N : Anchors(N, em) = Anchors(N, {})
  BY AnchorsAnywhere
<1>2. Context(s, em) = Context(s, {})
  <2>1. /\ Anchors(Country(s) \cup City(s), em) = Anchors(Country(s) \cup City(s), {})
        /\ Anchors(AS(s), em) = Anchors(AS(s), {})
    BY <1>1
  <2> QED
    BY <2>1 DEF Context
<1>3. Attributed(s, em) = Attributed(s, {})
  BY <1>1 DEF Attributed
<1>4. Driveby(s, em) = Driveby(s, {})
  BY <1>2, <1>3 DEF Driveby
<1>5. Ran(s, em) = Ran(s, {})
  BY <1>1 DEF Ran
<1>6. Captured(s, em) = Captured(s, {})
  BY <1>1 DEF Captured
<1>7. \A U : Referenced(U, s, em) = Referenced(U, s, {})
  BY <1>1 DEF Referenced
<1>8. \A d : Downloaded(d, em) = Downloaded(d, {})
  BY <1>1 DEF Downloaded
<1>9. \A proc : Chain(s, proc, em) = Chain(s, proc, {})
  BY <1>8 DEF Chain
<1>10. \A u : Fetched(u, em) = Fetched(u, {})
  BY <1>1 DEF Fetched
<1> QED
  BY <1>2, <1>3, <1>4, <1>5, <1>6, <1>7, <1>9, <1>10

LEMMA BuildersAnywhere ==
  ASSUME NEW s, NEW em, Clean(em)
  PROVE  /\ SessionGraph(s, em) = SessionGraph(s, {})
         /\ Unattributed(s, em) = Unattributed(s, {})
<1>1. \A N : Anchors(N, em) = Anchors(N, {})
  BY AnchorsAnywhere
<1>2. Cowrie(s, em) = Cowrie(s, {})
  BY <1>1, BlocksAnywhere DEF Cowrie
<1>3. Suricata(s, em) = Suricata(s, {})
  <2>1. /\ Anchors(Patterns(s.techniques), em) = Anchors(Patterns(s.techniques), {})
        /\ Anchors(Patterns({"Network Attack"}), em) = Anchors(Patterns({"Network Attack"}), {})
        /\ Anchors(Cves(s), em) = Anchors(Cves(s), {})
        /\ Anchors(Domains(s.hosts), em) = Anchors(Domains(s.hosts), {})
        /\ Anchors(Hosts(s.dst), em) = Anchors(Hosts(s.dst), {})
    BY <1>1
  <2>2. /\ Attributed(s, em) = Attributed(s, {})
        /\ Driveby(s, em) = Driveby(s, {})
        /\ Referenced({}, s, em) = Referenced({}, s, {})
        /\ Referenced(s.requests, s, em) = Referenced(s.requests, s, {})
    BY BlocksAnywhere
  <2> QED
    BY <2>1, <2>2 DEF Suricata
<1>4. Honeytrap(s, em) = Honeytrap(s, {})
  BY BlocksAnywhere DEF Honeytrap
<1>5. Fallback(s, em) = Fallback(s, {})
  BY BlocksAnywhere DEF Fallback
<1>6. Web(s, em) = Web(s, {})
  <2>1. /\ \A U : Anchors(Urls(FirstUrls(U)), em) = Anchors(Urls(FirstUrls(U)), {})
        /\ \A N : Anchors(Patterns(N), em) = Anchors(Patterns(N), {})
        /\ Anchors(Cves(s), em) = Anchors(Cves(s), {})
    BY <1>1
  <2>2. Driveby(s, em) = Driveby(s, {})
    BY BlocksAnywhere
  <2> QED
    BY <2>1, <2>2 DEF Web
<1>7. Malware(s, em) = Malware(s, {})
  BY <1>1, BlocksAnywhere DEF Malware
<1>8. Fatt(s, em) = Fatt(s, {})
  BY <1>1, BlocksAnywhere DEF Fatt
<1>9. Protocol(s, em) = Protocol(s, {})
  <2>1. Anchors(Patterns({s.type}), em) = Anchors(Patterns({s.type}), {})
    BY <1>1
  <2>2. /\ Driveby(s, em) = Driveby(s, {})
        /\ Ran(s, em) = Ran(s, {})
        /\ Referenced({u[1] : u \in s.fetches}, s, em) = Referenced({u[1] : u \in s.fetches}, s, {})
        /\ {Fetched(u, em) : u \in s.fetches} = {Fetched(u, {}) : u \in s.fetches}
    BY BlocksAnywhere
  <2> QED
    BY <2>1, <2>2 DEF Protocol
<1>10. Behaviour(s, em) = Behaviour(s, {})
  BY <1>1 DEF Behaviour
<1>11. Dispatch(s, em) = Dispatch(s, {})
  BY <1>2, <1>3, <1>4, <1>5, <1>6, <1>7, <1>8, <1>9, BlocksAnywhere DEF Dispatch
<1>12. SessionGraph(s, em) = SessionGraph(s, {})
  BY <1>10, <1>11 DEF SessionGraph
<1>13. Unattributed(s, em) = Unattributed(s, {})
  <2>1. /\ Anchors(Domains(s.domains), em) = Anchors(Domains(s.domains), {})
        /\ Anchors(Cves(s), em) = Anchors(Cves(s), {})
        /\ Anchors(Patterns(s.attackTypes), em) = Anchors(Patterns(s.attackTypes), {})
        /\ Anchors(Urls(s.urls), em) = Anchors(Urls(s.urls), {})
    BY <1>1
  <2> QED
    BY <2>1 DEF Unattributed
<1> QED
  BY <1>12, <1>13

-----------------------------------------------------------------------------
(* The configuration is fixed for the cycle, and so is what a session gives.  *)

LEMMA RefusalsFixed ==
  ASSUME cfg' = cfg
  PROVE  /\ \A n : Rejected(n)' <=> Rejected(n)
         /\ \A N : Anchors(N, {})' = Anchors(N, {})
         /\ \A s : Permitted(s)' <=> Permitted(s)
<1>1. \A n : Rejected(n)' <=> Rejected(n)
  BY DEF Rejected, Invalid, OwnSurface
<1>2. ASSUME NEW N PROVE Anchors(N, {})' = Anchors(N, {})
  <2>1. Anchors(N, {})' = {n \in N : ~Rejected(n)'}
    BY DEF Anchors, BuiltNow
  <2>2. Anchors(N, {}) = {n \in N : ~Rejected(n)}
    BY DEF Anchors, BuiltNow
  <2> QED
    BY <2>1, <2>2, <1>1
<1>3. ASSUME NEW s PROVE Permitted(s)' <=> Permitted(s)
  BY DEF Permitted, HardRefused, HasEvidence
<1> QED
  BY <1>1, <1>2, <1>3

LEMMA BlocksFixed ==
  ASSUME cfg' = cfg, NEW s
  PROVE  /\ Context(s, {})' = Context(s, {})
         /\ Attributed(s, {})' = Attributed(s, {})
         /\ Driveby(s, {})' = Driveby(s, {})
         /\ Ran(s, {})' = Ran(s, {})
         /\ Captured(s, {})' = Captured(s, {})
         /\ \A U : Referenced(U, s, {})' = Referenced(U, s, {})
         /\ \A proc : Chain(s, proc, {})' = Chain(s, proc, {})
         /\ \A u : Fetched(u, {})' = Fetched(u, {})
<1>1. \A N : Anchors(N, {})' = Anchors(N, {})
  BY RefusalsFixed
<1>2. Context(s, {})' = Context(s, {})
  <2>1. /\ Anchors(Country(s) \cup City(s), {})' = Anchors(Country(s) \cup City(s), {})
        /\ Anchors(AS(s), {})' = Anchors(AS(s), {})
    BY <1>1
  <2> QED
    BY <2>1 DEF Context
<1>3. Attributed(s, {})' = Attributed(s, {})
  BY <1>1, RefusalsFixed DEF Attributed
<1>4. Driveby(s, {})' = Driveby(s, {})
  BY <1>2, <1>3 DEF Driveby
<1>5. Ran(s, {})' = Ran(s, {})
  BY <1>1 DEF Ran
<1>6. Captured(s, {})' = Captured(s, {})
  BY <1>1 DEF Captured
<1>7. \A U : Referenced(U, s, {})' = Referenced(U, s, {})
  BY <1>1 DEF Referenced
<1>8. \A d : Downloaded(d, {})' = Downloaded(d, {})
  BY <1>1 DEF Downloaded
<1>9. \A proc : Chain(s, proc, {})' = Chain(s, proc, {})
  BY <1>8 DEF Chain
<1>10. \A u : Fetched(u, {})' = Fetched(u, {})
  BY <1>1 DEF Fetched
<1> QED
  BY <1>2, <1>3, <1>4, <1>5, <1>6, <1>7, <1>9, <1>10

LEMMA BuildersFixed ==
  ASSUME cfg' = cfg, NEW s
  PROVE  /\ SessionGraph(s, {})' = SessionGraph(s, {})
         /\ Unattributed(s, {})' = Unattributed(s, {})
<1>1. \A N : Anchors(N, {})' = Anchors(N, {})
  BY RefusalsFixed
<1>2. Cowrie(s, {})' = Cowrie(s, {})
  <2>1. /\ \A K : Anchors(Keys(K), {})' = Anchors(Keys(K), {})
        /\ Anchors(Domains(s.domains), {})' = Anchors(Domains(s.domains), {})
        /\ Anchors(Process(s), {})' = Anchors(Process(s), {})
    BY <1>1
  <2>2. /\ Attributed(s, {})' = Attributed(s, {})
        /\ Driveby(s, {})' = Driveby(s, {})
        /\ Ran(s, {})' = Ran(s, {})
        /\ Captured(s, {})' = Captured(s, {})
        /\ Referenced(s.urls, s, {})' = Referenced(s.urls, s, {})
        /\ \A proc : Chain(s, proc, {})' = Chain(s, proc, {})
    BY BlocksFixed
  <2> QED
    BY <2>1, <2>2 DEF Cowrie
<1>3. Suricata(s, {})' = Suricata(s, {})
  <2>1. /\ Anchors(Patterns(s.techniques), {})' = Anchors(Patterns(s.techniques), {})
        /\ Anchors(Patterns({"Network Attack"}), {})' = Anchors(Patterns({"Network Attack"}), {})
        /\ Anchors(Cves(s), {})' = Anchors(Cves(s), {})
        /\ Anchors(Domains(s.hosts), {})' = Anchors(Domains(s.hosts), {})
        /\ Anchors(Hosts(s.dst), {})' = Anchors(Hosts(s.dst), {})
    BY <1>1
  <2>2. /\ Attributed(s, {})' = Attributed(s, {})
        /\ Driveby(s, {})' = Driveby(s, {})
        /\ Referenced({}, s, {})' = Referenced({}, s, {})
        /\ Referenced(s.requests, s, {})' = Referenced(s.requests, s, {})
    BY BlocksFixed
  <2> QED
    BY <2>1, <2>2 DEF Suricata
<1>4. Honeytrap(s, {})' = Honeytrap(s, {})
  BY BlocksFixed DEF Honeytrap
<1>5. Fallback(s, {})' = Fallback(s, {})
  BY BlocksFixed DEF Fallback
<1>6. Web(s, {})' = Web(s, {})
  <2>1. /\ \A U : Anchors(Urls(FirstUrls(U)), {})' = Anchors(Urls(FirstUrls(U)), {})
        /\ \A N : Anchors(Patterns(N), {})' = Anchors(Patterns(N), {})
        /\ Anchors(Cves(s), {})' = Anchors(Cves(s), {})
    BY <1>1
  <2>2. Driveby(s, {})' = Driveby(s, {})
    BY BlocksFixed
  <2> QED
    BY <2>1, <2>2 DEF Web
<1>7. Malware(s, {})' = Malware(s, {})
  BY <1>1, BlocksFixed DEF Malware
<1>8. Fatt(s, {})' = Fatt(s, {})
  BY <1>1, BlocksFixed DEF Fatt
<1>9. Protocol(s, {})' = Protocol(s, {})
  <2>1. Anchors(Patterns({s.type}), {})' = Anchors(Patterns({s.type}), {})
    BY <1>1
  <2>2. /\ Driveby(s, {})' = Driveby(s, {})
        /\ Ran(s, {})' = Ran(s, {})
        /\ Referenced({u[1] : u \in s.fetches}, s, {})' = Referenced({u[1] : u \in s.fetches}, s, {})
        /\ {Fetched(u, {})' : u \in s.fetches} = {Fetched(u, {}) : u \in s.fetches}
    BY BlocksFixed
  <2> QED
    BY <2>1, <2>2 DEF Protocol
<1>10. Behaviour(s, {})' = Behaviour(s, {})
  BY <1>1 DEF Behaviour
<1>11. Dispatch(s, {})' = Dispatch(s, {})
  BY <1>2, <1>3, <1>4, <1>5, <1>6, <1>7, <1>8, <1>9, BlocksFixed DEF Dispatch
<1>12. SessionGraph(s, {})' = SessionGraph(s, {})
  BY <1>10, <1>11 DEF SessionGraph
<1>13. Unattributed(s, {})' = Unattributed(s, {})
  <2>1. /\ Anchors(Domains(s.domains), {})' = Anchors(Domains(s.domains), {})
        /\ Anchors(Cves(s), {})' = Anchors(Cves(s), {})
        /\ Anchors(Patterns(s.attackTypes), {})' = Anchors(Patterns(s.attackTypes), {})
        /\ Anchors(Urls(s.urls), {})' = Anchors(Urls(s.urls), {})
        /\ \A n : Rejected(n)' <=> Rejected(n)
    BY <1>1, RefusalsFixed
  <2> QED
    BY <2>1 DEF Unattributed
<1> QED
  BY <1>12, <1>13

-----------------------------------------------------------------------------
(* What a session's graph may hold.                                        *)

\* Nodes the bundle accepts that accuse nobody.
Harmless(N) == \A n \in N : ~Rejected(n) /\ n[1] # "indicator"

\* A graph of s whose nodes are accepted, whose Indicator is the session's own and
\* permitted, and whose edges stay within the graph and L.
Fit(g, s, L) ==
  /\ \A n \in g.nodes : /\ ~Rejected(n)
                        /\ n[1] = "indicator" => n \in Indicator(s) /\ Permitted(s)
  /\ \A e \in g.edges : {e[1], e[3]} \subseteq g.nodes \cup L

LEMMA DrawEnds ==
  \A A, rel, B : \A e \in Draw(A, rel, B) : e[1] \in A /\ e[3] \in B
BY DEF Draw

LEMMA Kinds ==
  ASSUME NEW s
  PROVE  /\ Harmless(Ip(s)) /\ Harmless(Sensor(s)) /\ Harmless(Note(s))
         /\ Harmless(Anchors(Country(s) \cup City(s), {}))
         /\ Harmless(Anchors(AS(s), {})) /\ Harmless(Anchors(Process(s), {}))
         /\ Harmless(Anchors(Cves(s), {}))
         /\ \A N : /\ Harmless(Anchors(Patterns(N), {})) /\ Harmless(Anchors(Keys(N), {}))
                   /\ Harmless(Anchors(Files(N), {}))
                   /\ Harmless(Anchors(FileIndicators(N), {}))
                   /\ Harmless(Anchors(Urls(N), {})) /\ Harmless(Anchors(Domains(N), {}))
                   /\ Harmless(Anchors(Hosts(N), {}))
         /\ Anchors(Indicator(s), {}) = Indicator(s)
         /\ \A N : Anchors(Files(N), {}) = Files(N)
<1>1. \A n : n[1] \notin {"url", "domain", "process"} => ~Rejected(n)
  BY DEF Rejected, Invalid, OwnSurface
<1>2. \A N : \A n \in Anchors(N, {}) : n \in N /\ ~Rejected(n)
  BY DEF Anchors, BuiltNow
<1>3. Harmless(Ip(s)) /\ Harmless(Sensor(s)) /\ Harmless(Note(s))
  BY <1>1 DEF Harmless, Ip, Sensor, Note
<1>4. Harmless(Anchors(Country(s) \cup City(s), {}))
  BY <1>2 DEF Harmless, Country, City
<1>5. /\ Harmless(Anchors(AS(s), {})) /\ Harmless(Anchors(Process(s), {}))
      /\ Harmless(Anchors(Cves(s), {}))
  BY <1>2 DEF Harmless, AS, Process, Cves
<1>6. ASSUME NEW N
      PROVE  /\ Harmless(Anchors(Patterns(N), {})) /\ Harmless(Anchors(Keys(N), {}))
             /\ Harmless(Anchors(Files(N), {}))
             /\ Harmless(Anchors(FileIndicators(N), {}))
             /\ Harmless(Anchors(Urls(N), {})) /\ Harmless(Anchors(Domains(N), {}))
             /\ Harmless(Anchors(Hosts(N), {}))
  BY <1>2 DEF Harmless, Patterns, Keys, Files, FileIndicators, Urls, Domains, Hosts
<1>7. Anchors(Indicator(s), {}) = Indicator(s)
  BY <1>1 DEF Anchors, BuiltNow, Indicator
<1>8. \A N : Anchors(Files(N), {}) = Files(N)
  BY <1>1 DEF Anchors, BuiltNow, Files
<1> QED
  BY <1>3, <1>4, <1>5, <1>6, <1>7, <1>8

LEMMA FitJoin ==
  ASSUME NEW S, NEW s, NEW L, \A g \in S : Fit(g, s, L)
  PROVE  Fit(Join(S), s, L)
BY JoinParts DEF Fit

LEMMA FitClose ==
  ASSUME NEW g, NEW s, NEW L, NEW M, Fit(g, s, L), L \subseteq g.nodes \cup M
  PROVE  Fit(g, s, M)
BY DEF Fit

\* One kind of node, and edges among it and L.
LEMMA FitHarmless ==
  ASSUME NEW N, NEW E, NEW s, NEW L, Harmless(N),
         \A e \in E : {e[1], e[3]} \subseteq N \cup L
  PROVE  Fit(Graph(N, E), s, L)
BY GraphParts DEF Fit, Harmless

\* Where a download chain starts and ends.
Chainable(s, proc, L) ==
  /\ proc \cup Files({d[2] : d \in s.downloads}) \subseteq L
  /\ proc # {} => Files(s.files) \subseteq L

LEMMA BlocksFit ==
  ASSUME NEW s, NEW L, Ip(s) \cup Indicator(s) \subseteq L
  PROVE  /\ Fit(Driveby(s, {}), s, L)
         /\ Fit(Ran(s, {}), s, L)
         /\ Fit(Captured(s, {}), s, L)
         /\ \A U : Fit(Referenced(U, s, {}), s, L)
         /\ \A proc : Chainable(s, proc, L) => Fit(Chain(s, proc, {}), s, L)
         /\ \A u : Fit(Fetched(u, {}), s, L)
<1>1. Fit(Context(s, {}), s, L)
  <2> DEFINE places == Anchors(Country(s) \cup City(s), {})
             as == Anchors(AS(s), {})
             whole == Graph(Ip(s) \cup places \cup as,
                            Draw(Ip(s), "located-at", places) \cup Draw(Ip(s), "belongs-to", as))
  <2>1. Fit(Graph(Sensor(s), {}), s, L)
    BY Kinds, FitHarmless
  <2>2. Fit(Nothing, s, L)
    BY FitHarmless DEF Nothing, Harmless
  <2>3. Harmless(Ip(s) \cup places \cup as)
    BY Kinds DEF Harmless
  <2>4. Fit(whole, s, L)
    <3> HIDE DEF places, as
    <3>1. \A e \in Draw(Ip(s), "located-at", places) \cup Draw(Ip(s), "belongs-to", as) :
            {e[1], e[3]} \subseteq (Ip(s) \cup places \cup as) \cup L
      <4>1. \A e \in Draw(Ip(s), "located-at", places) : e[1] \in Ip(s) /\ e[3] \in places
        BY DrawEnds
      <4>2. \A e \in Draw(Ip(s), "belongs-to", as) : e[1] \in Ip(s) /\ e[3] \in as
        BY DrawEnds
      <4> QED
        BY <4>1, <4>2
    <3> QED
      BY <2>3, <3>1, FitHarmless
  <2>5. \A g \in {Graph(Sensor(s), {}), IF s.ip = {} THEN Nothing ELSE whole} : Fit(g, s, L)
    BY <2>1, <2>2, <2>4
  <2> QED
    BY <2>5, FitJoin DEF Context
<1>2. Fit(Attributed(s, {}), s, L)
  <2> DEFINE ind == IF Permitted(s) THEN Anchors(Indicator(s), {}) ELSE {}
  <2>1. ind \subseteq Indicator(s) /\ (ind # {} => Permitted(s))
    BY Kinds
  <2>2. \A n \in ind : ~Rejected(n)
    BY DEF Anchors, BuiltNow
  <2>3. \A e \in Draw(ind, "based-on", Ip(s)) : {e[1], e[3]} \subseteq ind \cup L
    <3> HIDE DEF ind
    <3> QED
      BY DrawEnds
  <2>4. Attributed(s, {}) = Graph(ind, Draw(ind, "based-on", Ip(s)))
    BY DEF Attributed
  <2> QED
    BY <2>1, <2>2, <2>3, <2>4, GraphParts DEF Fit
<1>3. Fit(Driveby(s, {}), s, L)
  BY <1>1, <1>2, FitJoin DEF Driveby
<1>4. Fit(Ran(s, {}), s, L)
  <2> DEFINE proc == Anchors(Process(s), {})
  <2>1. Harmless(proc)
    BY Kinds
  <2>2. \A e \in Draw(proc, "related-to", Ip(s)) : {e[1], e[3]} \subseteq proc \cup L
    BY DrawEnds
  <2> QED
    BY <2>1, <2>2, FitHarmless DEF Ran
<1>5. Fit(Captured(s, {}), s, L)
  <2> DEFINE files == Anchors(Files(s.files), {})
             inds == Anchors(FileIndicators(s.files), {})
             E == Draw(files, "related-to", Ip(s))
                    \cup {e \in Draw(inds, "based-on", files) : e[1][2] = e[3][2]}
  <2>1. Harmless(files \cup inds)
    BY Kinds DEF Harmless
  <2>2. \A e \in E : {e[1], e[3]} \subseteq (files \cup inds) \cup L
    <3> HIDE DEF files, inds
    <3> QED
      BY DrawEnds
  <2>3. Captured(s, {}) = Graph(files \cup inds, E)
    BY DEF Captured
  <2> HIDE DEF files, inds, E
  <2> QED
    BY <2>1, <2>2, <2>3, FitHarmless
<1>6. ASSUME NEW U PROVE Fit(Referenced(U, s, {}), s, L)
  <2> DEFINE urls == Anchors(Urls(U), {})
  <2>1. Harmless(urls)
    BY Kinds
  <2>2. \A e \in Draw(urls, "related-to", Ip(s)) : {e[1], e[3]} \subseteq urls \cup L
    BY DrawEnds
  <2> QED
    BY <2>1, <2>2, FitHarmless DEF Referenced
<1>7. ASSUME NEW proc, Chainable(s, proc, L) PROVE Fit(Chain(s, proc, {}), s, L)
  <2> USE DEF Chainable
  <2>1. Fit(Nothing, s, L)
    BY FitHarmless DEF Nothing, Harmless
  <2>2. Fit(Graph({}, Draw(proc, "related-to", Files(s.files))), s, L)
    <3>1. \A e \in Draw(proc, "related-to", Files(s.files)) : e[1] \in proc /\ e[3] \in Files(s.files)
      BY DrawEnds
    <3>2. \A e \in Draw(proc, "related-to", Files(s.files)) : {e[1], e[3]} \subseteq {} \cup L
      BY <1>7, <3>1
    <3> QED
      BY <3>2, FitHarmless DEF Harmless
  <2>3. ASSUME NEW d \in s.downloads PROVE Fit(Downloaded(d, {}), s, L)
    <3> DEFINE url == Anchors(Urls({d[1]}), {})
    <3>1. Harmless(url)
      BY Kinds
    <3>2. Files({d[2]}) \subseteq L
      BY <1>7 DEF Files
    <3>3. \A e \in Draw(url, "related-to", Files({d[2]})) : {e[1], e[3]} \subseteq url \cup L
      BY <3>2, DrawEnds
    <3> QED
      BY <3>1, <3>3, FitHarmless DEF Downloaded
  <2>4. \A g \in {Graph({}, Draw(proc, "related-to", Files(s.files)))} \cup
                 {Downloaded(d, {}) : d \in s.downloads} : Fit(g, s, L)
    BY <2>2, <2>3
  <2> QED
    BY <2>1, <2>4, FitJoin DEF Chain
<1>8. ASSUME NEW u PROVE Fit(Fetched(u, {}), s, L)
  <2> DEFINE url == Anchors(Urls({u[1]}), {})
             at == IF url = {} THEN {}
                   ELSE IF u[3] = "address" THEN Anchors(Hosts({u[2]}), {})
                   ELSE Anchors(Domains({u[2]}), {})
  <2>1. Harmless(url \cup at)
    BY Kinds DEF Harmless
  <2>2. \A e \in Draw(url, "related-to", at) : {e[1], e[3]} \subseteq (url \cup at) \cup L
    <3> HIDE DEF url, at
    <3> QED
      BY DrawEnds
  <2> QED
    BY <2>1, <2>2, FitHarmless DEF Fetched
<1> QED
  BY <1>3, <1>4, <1>5, <1>6, <1>7, <1>8

LEMMA BlockNodes ==
  ASSUME NEW s
  PROVE  /\ Attributed(s, {}).nodes = IF Permitted(s) THEN Indicator(s) ELSE {}
         /\ Ran(s, {}).nodes = Anchors(Process(s), {})
         /\ Files(s.files) \subseteq Captured(s, {}).nodes
<1>1. \E E : Attributed(s, {}) = Graph(IF Permitted(s) THEN Anchors(Indicator(s), {}) ELSE {}, E)
  BY DEF Attributed
<1>2. \E E : Ran(s, {}) = Graph(Anchors(Process(s), {}), E)
  BY DEF Ran
<1>3. \E E : Captured(s, {}) = Graph(Anchors(Files(s.files), {})
                                      \cup Anchors(FileIndicators(s.files), {}), E)
  BY DEF Captured
<1>4. Attributed(s, {}).nodes = IF Permitted(s) THEN Indicator(s) ELSE {}
  BY <1>1, Kinds, GraphParts
<1>5. Ran(s, {}).nodes = Anchors(Process(s), {})
  BY <1>2, GraphParts
<1>6. Files(s.files) \subseteq Captured(s, {}).nodes
  <2>1. Captured(s, {}).nodes = Anchors(Files(s.files), {})
                                  \cup Anchors(FileIndicators(s.files), {})
    BY <1>3, GraphParts
  <2>2. Anchors(Files(s.files), {}) = Files(s.files)
    BY Kinds
  <2> QED
    BY <2>1, <2>2
<1> QED
  BY <1>4, <1>5, <1>6

\* The nodes every builder starts with.
LEMMA DrivebyHolds ==
  ASSUME NEW s
  PROVE  /\ Ip(s) \subseteq Driveby(s, {}).nodes
         /\ Permitted(s) => Indicator(s) \subseteq Driveby(s, {}).nodes
<1>1. Ip(s) \subseteq Context(s, {}).nodes
  <2>1. CASE s.ip = {}
    BY <2>1 DEF Ip
  <2>2. CASE s.ip # {}
    <3> DEFINE places == Anchors(Country(s) \cup City(s), {})
               as == Anchors(AS(s), {})
               whole == Graph(Ip(s) \cup places \cup as,
                              Draw(Ip(s), "located-at", places) \cup Draw(Ip(s), "belongs-to", as))
    <3>1. Context(s, {}) = Join({Graph(Sensor(s), {}), whole})
      BY <2>2 DEF Context
    <3>2. whole.nodes = Ip(s) \cup places \cup as
      BY GraphParts
    <3> HIDE DEF whole
    <3> QED
      BY <3>1, <3>2, JoinParts
  <2> QED
    BY <2>1, <2>2
<1>2. Permitted(s) => Indicator(s) \subseteq Attributed(s, {}).nodes
  BY BlockNodes
<1>3. Driveby(s, {}).nodes = Context(s, {}).nodes \cup Attributed(s, {}).nodes
  BY JoinParts DEF Driveby
<1> QED
  BY <1>1, <1>2, <1>3

\* A family's graph: it has what every builder starts with, and its edges stay
\* among its nodes, the address, the Indicator and L.
Founded(g, s, L) ==
  /\ Fit(g, s, Ip(s) \cup Indicator(s) \cup L)
  /\ Ip(s) \subseteq g.nodes
  /\ Permitted(s) => Indicator(s) \subseteq g.nodes

LEMMA JoinFounded ==
  ASSUME NEW S, NEW s, NEW L, Driveby(s, {}) \in S,
         \A g \in S : Fit(g, s, Ip(s) \cup Indicator(s) \cup L)
  PROVE  Founded(Join(S), s, L)
<1>1. Fit(Join(S), s, Ip(s) \cup Indicator(s) \cup L)
  BY FitJoin
<1>2. Driveby(s, {}).nodes \subseteq Join(S).nodes
  BY JoinParts
<1> QED
  BY <1>1, <1>2, DrivebyHolds DEF Founded

LEMMA DrivebyFounded ==
  ASSUME NEW s, NEW L
  PROVE  Founded(Driveby(s, {}), s, L)
BY BlocksFit, DrivebyHolds DEF Founded

LEMMA CowrieFounded ==
  ASSUME NEW s, \A d \in s.downloads : d[2] \in s.files
  PROVE  Founded(Cowrie(s, {}), s, {})
<1> DEFINE proc == Anchors(Process(s), {})
           L == proc \cup Files(s.files)
           M == Ip(s) \cup Indicator(s) \cup L
           hassh == Anchors(Keys(s.hassh), {})
           auth == Anchors(Keys(s.authKeys), {})
           planted == Anchors(Keys(s.planted), {})
           domains == Anchors(Domains(s.domains), {})
           ind == Attributed(s, {}).nodes
           prints == Graph(hassh, Draw(hassh, "related-to", Ip(s)))
           keys == Graph(auth \cup planted,
                         Draw(Ip(s), "related-to", auth \cup planted)
                           \cup Draw(ind, "related-to", planted))
           names == Graph(domains, {})
           S == {Driveby(s, {}), Ran(s, {}), Captured(s, {}), Referenced(s.urls, s, {}),
                 prints, keys, names, Chain(s, proc, {})}
<1>1. Cowrie(s, {}) = Join(S)
  BY DEF Cowrie
<1>2. proc \cup Files({d[2] : d \in s.downloads}) \subseteq M /\ Files(s.files) \subseteq M
  BY DEF Files
<1>3. /\ Fit(Driveby(s, {}), s, M) /\ Fit(Ran(s, {}), s, M) /\ Fit(Captured(s, {}), s, M)
      /\ Fit(Referenced(s.urls, s, {}), s, M) /\ Fit(Chain(s, proc, {}), s, M)
  <2>1. Ip(s) \cup Indicator(s) \subseteq M
    OBVIOUS
  <2> HIDE DEF M, proc
  <2>2. Chainable(s, proc, M)
    BY <1>2 DEF Chainable
  <2>3. Fit(Chain(s, proc, {}), s, M)
    BY <2>1, <2>2, BlocksFit
  <2> QED
    BY <2>1, <2>3, BlocksFit
<1>4. Fit(prints, s, M)
  <2>1. Harmless(hassh)
    BY Kinds
  <2>2. \A e \in Draw(hassh, "related-to", Ip(s)) : {e[1], e[3]} \subseteq hassh \cup M
    BY DrawEnds
  <2> HIDE DEF M, hassh
  <2> QED
    BY <2>1, <2>2, FitHarmless
<1>5. Fit(keys, s, M)
  <2>1. Harmless(auth \cup planted)
    BY Kinds DEF Harmless
  <2>2. ind \subseteq Indicator(s)
    BY BlockNodes
  <2>3. \A e \in Draw(Ip(s), "related-to", auth \cup planted) :
          {e[1], e[3]} \subseteq (auth \cup planted) \cup M
    BY DrawEnds
  <2>4. \A e \in Draw(ind, "related-to", planted) : {e[1], e[3]} \subseteq (auth \cup planted) \cup M
    <3> HIDE DEF ind, planted, auth
    <3> QED
      BY <2>2, DrawEnds
  <2> HIDE DEF M, auth, planted, ind
  <2> QED
    BY <2>1, <2>3, <2>4, FitHarmless
<1>6. Fit(names, s, M)
  BY Kinds, FitHarmless
<1>7. Founded(Join(S), s, L)
  <2>1. Driveby(s, {}) \in S /\ \A g \in S : Fit(g, s, M)
    <3> HIDE DEF M, prints, keys, names, proc
    <3> QED
      BY <1>3, <1>4, <1>5, <1>6
  <2> HIDE DEF S, L
  <2> QED
    BY <2>1, JoinFounded
<1>8. L \subseteq Join(S).nodes
  <2>1. Ran(s, {}).nodes = proc
    BY BlockNodes
  <2>2. Files(s.files) \subseteq Captured(s, {}).nodes
    BY BlockNodes
  <2>3. Ran(s, {}) \in S /\ Captured(s, {}) \in S
    OBVIOUS
  <2> HIDE DEF S, proc
  <2> QED
    BY <2>1, <2>2, <2>3, JoinParts
<1> HIDE DEF S, L
<1> QED
  BY <1>1, <1>7, <1>8, FitClose DEF Founded

LEMMA SuricataFounded == ASSUME NEW s PROVE Founded(Suricata(s, {}), s, {})
<1> DEFINE M == Ip(s) \cup Indicator(s) \cup {}
           ind == Attributed(s, {}).nodes
           named == Anchors(Patterns(s.techniques), {})
           aps == IF named = {} /\ ind # {} /\ cfg.generic
                  THEN Anchors(Patterns({"Network Attack"}), {}) ELSE named
           vulns == Anchors(Cves(s), {})
           hosts == IF cfg.inbound THEN Anchors(Domains(s.hosts), {}) ELSE {}
           dst == IF hosts = {} THEN {} ELSE Anchors(Hosts(s.dst), {})
           asked == IF cfg.inbound THEN s.requests ELSE {}
           G1 == Graph(aps, Draw(ind, "indicates", aps))
           G2 == Graph(vulns, Draw(ind, "indicates", vulns))
           G3 == Graph(hosts \cup dst, Draw(hosts, "resolves-to", dst))
           S == {Driveby(s, {}), Referenced(asked, s, {}), G1, G2, G3}
<1>1. Suricata(s, {}) = Join(S)
  BY DEF Suricata
<1>2. ind \subseteq M
  BY BlockNodes
<1>3. Harmless(aps) /\ Harmless(vulns) /\ Harmless(hosts \cup dst)
  BY Kinds DEF Harmless
<1>4. Fit(Driveby(s, {}), s, M) /\ Fit(Referenced(asked, s, {}), s, M)
  BY BlocksFit
<1> HIDE DEF ind, aps, vulns, hosts, dst, M
<1>5. Fit(G1, s, M)
  <2>1. \A e \in Draw(ind, "indicates", aps) : {e[1], e[3]} \subseteq aps \cup M
    BY <1>2, DrawEnds
  <2> QED
    BY <2>1, <1>3, FitHarmless
<1>6. Fit(G2, s, M)
  <2>1. \A e \in Draw(ind, "indicates", vulns) : {e[1], e[3]} \subseteq vulns \cup M
    BY <1>2, DrawEnds
  <2> QED
    BY <2>1, <1>3, FitHarmless
<1>7. Fit(G3, s, M)
  <2>1. \A e \in Draw(hosts, "resolves-to", dst) : {e[1], e[3]} \subseteq (hosts \cup dst) \cup M
    BY DrawEnds
  <2> QED
    BY <2>1, <1>3, FitHarmless
<1>8. Driveby(s, {}) \in S /\ \A g \in S : Fit(g, s, M)
  <2> HIDE DEF G1, G2, G3, asked
  <2> QED
    BY <1>4, <1>5, <1>6, <1>7
<1> QED
  <2> HIDE DEF S
  <2>1. \A g \in S : Fit(g, s, Ip(s) \cup Indicator(s) \cup {})
    BY <1>8 DEF M
  <2> QED
    BY <1>1, <1>8, <2>1, JoinFounded

LEMMA HoneytrapFounded ==
  ASSUME NEW s
  PROVE  Founded(Honeytrap(s, {}), s, Files({d[2] : d \in s.downloads}))
<1> DEFINE F == Files({d[2] : d \in s.downloads})
           S == {Driveby(s, {}), Chain(s, {}, {})}
<1>1. \A g \in S : Fit(g, s, Ip(s) \cup Indicator(s) \cup F)
  <2> DEFINE M == Ip(s) \cup Indicator(s) \cup F
  <2>1. Ip(s) \cup Indicator(s) \subseteq M /\ F \subseteq M
    OBVIOUS
  <2> HIDE DEF M
  <2>2. Chainable(s, {}, M)
    BY <2>1 DEF Chainable
  <2>3. Fit(Chain(s, {}, {}), s, M)
    BY <2>1, <2>2, BlocksFit
  <2>4. Fit(Driveby(s, {}), s, M)
    BY <2>1, BlocksFit
  <2> QED
    BY <2>3, <2>4 DEF M
<1>2. Driveby(s, {}) \in S
  OBVIOUS
<1>3. Honeytrap(s, {}) = Join(S)
  BY DEF Honeytrap
<1> HIDE DEF F, S
<1>4. Founded(Join(S), s, F)
  BY <1>1, <1>2, JoinFounded
<1> QED
  BY <1>3, <1>4 DEF F

LEMMA FallbackFounded == ASSUME NEW s PROVE Founded(Fallback(s, {}), s, {})
<1>1. CASE s.ip # {}
  BY <1>1, DrivebyFounded DEF Fallback
<1>2. CASE s.ip = {}
  <2> DEFINE N == Sensor(s) \cup Note(s)
             E == Draw(Note(s), "refers-to", Sensor(s))
  <2>1. Fallback(s, {}) = Graph(N, E)
    BY <1>2 DEF Fallback
  <2>2. Harmless(N)
    BY Kinds DEF Harmless
  <2>3. \A e \in E : e[1] \in Note(s) /\ e[3] \in Sensor(s)
    BY DrawEnds
  <2>4. Ip(s) = {} /\ Indicator(s) = {}
    BY <1>2 DEF Ip, Indicator
  <2>5. \A e \in E : {e[1], e[3]} \subseteq N \cup (Ip(s) \cup Indicator(s) \cup {})
    BY <2>3
  <2> HIDE DEF N, E
  <2>6. Fit(Graph(N, E), s, Ip(s) \cup Indicator(s) \cup {})
    BY <2>2, <2>5, FitHarmless
  <2> QED
    BY <2>1, <2>4, <2>6 DEF Founded
<1> QED
  BY <1>1, <1>2

LEMMA WebFounded == ASSUME NEW s PROVE Founded(Web(s, {}), s, {})
<1> DEFINE M == Ip(s) \cup Indicator(s) \cup {}
           wanted == s.urls \cup (IF cfg.inbound THEN s.requests ELSE {})
           urls == Anchors(Urls(FirstUrls(wanted)), {})
           names == IF s.attackTypes = {} /\ s.cves \cup s.techniques # {}
                    THEN {"Web application exploit attempt"} ELSE s.attackTypes
           found == Anchors(Patterns(names), {}) \cup Anchors(Cves(s), {})
           G1 == Graph(urls, Draw(Ip(s), "related-to", urls))
           G2 == Graph(found, Draw(Indicator(s), "indicates", found))
           S == {Driveby(s, {}), G1, G2}
<1>1. Web(s, {}) = IF s.ip = {} THEN Driveby(s, {}) ELSE Join(S)
  BY DEF Web
<1>2. Harmless(urls) /\ Harmless(found)
  <2> HIDE DEF wanted, names
  <2> QED
    BY Kinds DEF Harmless
<1>3. Fit(Driveby(s, {}), s, M)
  BY BlocksFit
<1> HIDE DEF urls, found
<1>4. Fit(G1, s, M)
  <2>1. \A e \in Draw(Ip(s), "related-to", urls) : e[1] \in Ip(s) /\ e[3] \in urls
    BY DrawEnds
  <2>2. \A e \in Draw(Ip(s), "related-to", urls) : {e[1], e[3]} \subseteq urls \cup M
    BY <2>1
  <2> QED
    BY <2>2, <1>2, FitHarmless
<1>5. Fit(G2, s, M)
  <2>1. \A e \in Draw(Indicator(s), "indicates", found) : e[1] \in Indicator(s) /\ e[3] \in found
    BY DrawEnds
  <2>2. \A e \in Draw(Indicator(s), "indicates", found) : {e[1], e[3]} \subseteq found \cup M
    BY <2>1
  <2> QED
    BY <2>2, <1>2, FitHarmless
<1>6. Driveby(s, {}) \in S /\ \A g \in S : Fit(g, s, Ip(s) \cup Indicator(s) \cup {})
  <2> HIDE DEF G1, G2
  <2> QED
    BY <1>3, <1>4, <1>5
<1> HIDE DEF S
<1> QED
  BY <1>1, <1>6, JoinFounded, DrivebyFounded

LEMMA MalwareFounded ==
  ASSUME NEW s, \A d \in s.downloads : d[2] \in s.files
  PROVE  Founded(Malware(s, {}), s, {})
<1> DEFINE proc == Anchors(Process(s), {})
           L == proc \cup Files(s.files)
           M == Ip(s) \cup Indicator(s) \cup L
           doms == Anchors(Domains(s.domains), {})
           G1 == Graph(doms, Draw(doms, "related-to", Ip(s)))
           S == {Driveby(s, {}), Ran(s, {}), Captured(s, {}), Referenced(s.urls, s, {}),
                 G1, Chain(s, proc, {})}
<1>1. Malware(s, {}) = IF s.ip = {} THEN Driveby(s, {}) ELSE Join(S)
  BY DEF Malware
<1>2. proc \cup Files({d[2] : d \in s.downloads}) \subseteq M /\ Files(s.files) \subseteq M
  BY DEF Files
<1>3. /\ Fit(Driveby(s, {}), s, M) /\ Fit(Ran(s, {}), s, M) /\ Fit(Captured(s, {}), s, M)
      /\ Fit(Referenced(s.urls, s, {}), s, M) /\ Fit(Chain(s, proc, {}), s, M)
  <2>1. Ip(s) \cup Indicator(s) \subseteq M
    OBVIOUS
  <2> HIDE DEF M, proc
  <2>2. Chainable(s, proc, M)
    BY <1>2 DEF Chainable
  <2>3. Fit(Chain(s, proc, {}), s, M)
    BY <2>1, <2>2, BlocksFit
  <2> QED
    BY <2>1, <2>3, BlocksFit
<1>4. Fit(G1, s, M)
  <2>1. Harmless(doms)
    BY Kinds
  <2>2. \A e \in Draw(doms, "related-to", Ip(s)) : {e[1], e[3]} \subseteq doms \cup M
    BY DrawEnds
  <2> HIDE DEF M, doms
  <2> QED
    BY <2>1, <2>2, FitHarmless
<1>5. Founded(Join(S), s, L)
  <2>1. Driveby(s, {}) \in S /\ \A g \in S : Fit(g, s, M)
    <3> HIDE DEF M, G1, proc
    <3> QED
      BY <1>3, <1>4
  <2> HIDE DEF S, L
  <2> QED
    BY <2>1, JoinFounded
<1>6. L \subseteq Join(S).nodes
  <2>1. Ran(s, {}).nodes = proc
    BY BlockNodes
  <2>2. Files(s.files) \subseteq Captured(s, {}).nodes
    BY BlockNodes
  <2>3. Ran(s, {}) \in S /\ Captured(s, {}) \in S
    OBVIOUS
  <2> HIDE DEF S, proc
  <2> QED
    BY <2>1, <2>2, <2>3, JoinParts
<1>7. Founded(Join(S), s, {})
  <2> HIDE DEF S, L
  <2> QED
    BY <1>5, <1>6, FitClose DEF Founded
<1> HIDE DEF S
<1> QED
  BY <1>1, <1>7, DrivebyFounded

LEMMA FattFounded == ASSUME NEW s PROVE Founded(Fatt(s, {}), s, {})
<1> DEFINE M == Ip(s) \cup Indicator(s) \cup {}
           prints == Anchors(Keys(s.hassh \cup s.ja3), {})
           G1 == Graph(prints, Draw(prints, "related-to", Ip(s)))
           S == {Driveby(s, {}), G1}
<1>1. Fatt(s, {}) = Join(S)
  BY DEF Fatt
<1>2. Fit(G1, s, M)
  <2>1. Harmless(prints)
    BY Kinds
  <2>2. \A e \in Draw(prints, "related-to", Ip(s)) : {e[1], e[3]} \subseteq prints \cup M
    BY DrawEnds
  <2> HIDE DEF prints
  <2> QED
    BY <2>1, <2>2, FitHarmless
<1>3. Driveby(s, {}) \in S /\ \A g \in S : Fit(g, s, Ip(s) \cup Indicator(s) \cup {})
  <2> HIDE DEF G1
  <2> QED
    BY <1>2, BlocksFit
<1> HIDE DEF S
<1> QED
  BY <1>1, <1>3, JoinFounded

LEMMA ProtocolFounded == ASSUME NEW s PROVE Founded(Protocol(s, {}), s, {})
<1> DEFINE M == Ip(s) \cup Indicator(s) \cup {}
           said == IF s.protoRequests THEN Note(s) ELSE {}
           aps == IF Interacted(s) THEN Anchors(Patterns({s.type}), {}) ELSE {}
           G1 == Graph(said, Draw(said, "refers-to", Ip(s)))
           G2 == Graph(aps, Draw(Indicator(s), "indicates", aps))
           U == {u[1] : u \in s.fetches}
           S == {Driveby(s, {}), Ran(s, {}), G1, G2, Referenced(U, s, {})} \cup
                {Fetched(u, {}) : u \in s.fetches}
<1>1. Protocol(s, {}) = IF s.ip = {} THEN Driveby(s, {}) ELSE Join(S)
  BY DEF Protocol
<1>2. Harmless(said) /\ Harmless(aps)
  BY Kinds DEF Harmless
<1> HIDE DEF said, aps, U
<1>3. /\ Fit(Driveby(s, {}), s, M) /\ Fit(Ran(s, {}), s, M)
      /\ Fit(Referenced(U, s, {}), s, M)
      /\ \A u : Fit(Fetched(u, {}), s, M)
  BY BlocksFit
<1>4. Fit(G1, s, M)
  <2>1. \A e \in Draw(said, "refers-to", Ip(s)) : {e[1], e[3]} \subseteq said \cup M
    BY DrawEnds
  <2> QED
    BY <2>1, <1>2, FitHarmless
<1>5. Fit(G2, s, M)
  <2>1. \A e \in Draw(Indicator(s), "indicates", aps) : {e[1], e[3]} \subseteq aps \cup M
    BY DrawEnds
  <2> QED
    BY <2>1, <1>2, FitHarmless
<1>6. Driveby(s, {}) \in S /\ \A g \in S : Fit(g, s, Ip(s) \cup Indicator(s) \cup {})
  <2> HIDE DEF G1, G2
  <2> QED
    BY <1>3, <1>4, <1>5
<1> HIDE DEF S
<1> QED
  BY <1>1, <1>6, JoinFounded, DrivebyFounded

\* What a Honeytrap download names without shipping it.
Pointed(s) == IF s.type = "Honeytrap" THEN Files({d[2] : d \in s.downloads}) ELSE {}

LEMMA DispatchFounded ==
  ASSUME NEW s, s.type # "Honeytrap" => \A d \in s.downloads : d[2] \in s.files
  PROVE  Founded(Dispatch(s, {}), s, Pointed(s))
<1>1. CASE s.type = "Honeytrap"
  <2>1. Dispatch(s, {}) = Honeytrap(s, {})
    BY <1>1 DEF Dispatch, Web_, Drops, Speaks
  <2> QED
    BY <1>1, <2>1, HoneytrapFounded DEF Pointed
<1>2. CASE s.type # "Honeytrap"
  <2>1. Dispatch(s, {}) \in {Cowrie(s, {}), Suricata(s, {}), Fallback(s, {}), Fatt(s, {}),
                             Web(s, {}), Malware(s, {}), Protocol(s, {}), Driveby(s, {})}
    BY <1>2 DEF Dispatch
  <2>2. Founded(Cowrie(s, {}), s, {}) /\ Founded(Malware(s, {}), s, {})
    BY <1>2, CowrieFounded, MalwareFounded
  <2>3. Founded(Dispatch(s, {}), s, {})
    BY <2>1, <2>2, SuricataFounded, FallbackFounded, FattFounded, WebFounded, ProtocolFounded,
       DrivebyFounded
  <2> QED
    BY <1>2, <2>3 DEF Pointed
<1> QED
  BY <1>1, <1>2

LEMMA SessionSound ==
  ASSUME NEW s, s.type # "Honeytrap" => \A d \in s.downloads : d[2] \in s.files
  PROVE  /\ Fit(SessionGraph(s, {}), s, Withholds(s) \cup Pointed(s))
         /\ Ip(s) \subseteq SessionGraph(s, {}).nodes
         /\ Permitted(s) => Indicator(s) \subseteq SessionGraph(s, {}).nodes
<1> DEFINE L == Ip(s) \cup Indicator(s) \cup Pointed(s)
           aps == Anchors(Patterns(TechniquesFor(s)), {})
           G == Graph(aps, Draw(Indicator(s), "indicates", aps))
           S == {Dispatch(s, {}), Behaviour(s, {})}
<1>1. Founded(Dispatch(s, {}), s, Pointed(s))
  BY DispatchFounded
<1>2. Fit(G, s, L)
  <2>1. Harmless(aps)
    BY Kinds
  <2> HIDE DEF aps
  <2>2. \A e \in Draw(Indicator(s), "indicates", aps) : {e[1], e[3]} \subseteq aps \cup L
    BY DrawEnds
  <2> HIDE DEF L
  <2> QED
    BY <2>1, <2>2, FitHarmless
<1>3. Fit(Nothing, s, L)
  BY FitHarmless DEF Nothing, Harmless
<1>4. Behaviour(s, {}) \in {Nothing, G}
  BY DEF Behaviour
<1>5. \A g \in S : Fit(g, s, L)
  <2> HIDE DEF G
  <2> QED
    BY <1>1, <1>2, <1>3, <1>4 DEF Founded
<1>6. SessionGraph(s, {}) = Join(S)
  BY DEF SessionGraph
<1>7. Dispatch(s, {}).nodes \subseteq Join(S).nodes
  BY JoinParts
<1> HIDE DEF S, L
<1>8. Fit(Join(S), s, L)
  BY <1>5, FitJoin
<1>9. Ip(s) \subseteq Join(S).nodes /\ (Permitted(s) => Indicator(s) \subseteq Join(S).nodes)
  BY <1>1, <1>7 DEF Founded
<1>10. L \subseteq Join(S).nodes \cup (Withholds(s) \cup Pointed(s))
  BY <1>9 DEF L, Withholds
<1>11. Fit(Join(S), s, Withholds(s) \cup Pointed(s))
  BY <1>8, <1>10, FitClose
<1> QED
  BY <1>6, <1>9, <1>11

LEMMA UnattributedSound ==
  ASSUME NEW s, \A u, v \in s.c2 : u = v
  PROVE  /\ Fit(Unattributed(s, {}), s, {})
         /\ \A k \in SalvageSights(s) : k[1] \in Unattributed(s, {}).nodes /\ k[1][1] = "url"
<1> DEFINE url == {n \in Urls(s.c2) : ~Rejected(n)}
           found == Anchors(Domains(s.domains), {}) \cup Anchors(Cves(s), {})
                      \cup Anchors(Patterns(s.attackTypes), {})
           N == Sensor(s) \cup url \cup Anchors(Urls(s.urls), {}) \cup found \cup Note(s)
           E == Draw(url, "related-to", found) \cup Draw(Note(s), "refers-to", url)
<1>1. Unattributed(s, {}) = IF url = {} THEN Nothing ELSE Graph(N, E)
  BY DEF Unattributed
<1>2. Harmless(N)
  <2>1. Harmless(url)
    BY DEF Harmless, Urls
  <2>2. Harmless(found) /\ Harmless(Anchors(Urls(s.urls), {})) /\ Harmless(Sensor(s))
        /\ Harmless(Note(s))
    BY Kinds DEF Harmless
  <2> HIDE DEF url, found
  <2> QED
    BY <2>1, <2>2 DEF Harmless
<1>3. \A e \in E : {e[1], e[3]} \subseteq N \cup {}
  <2> HIDE DEF url, found
  <2>1. \A e \in Draw(url, "related-to", found) : e[1] \in url /\ e[3] \in found
    BY DrawEnds
  <2>2. \A e \in Draw(Note(s), "refers-to", url) : e[1] \in Note(s) /\ e[3] \in url
    BY DrawEnds
  <2> QED
    BY <2>1, <2>2
<1>4. Fit(Nothing, s, {})
  BY FitHarmless DEF Nothing, Harmless
<1>5. Fit(Graph(N, E), s, {})
  <2> HIDE DEF N, E
  <2> QED
    BY <1>2, <1>3, FitHarmless
<1>6. ASSUME NEW k \in SalvageSights(s)
      PROVE  k[1] \in Unattributed(s, {}).nodes /\ k[1][1] = "url"
  <2>1. Unattributed(s, {}) # Nothing /\ k[1] \in Urls(s.c2)
    BY <1>6 DEF SalvageSights
  <2>2. url # {} /\ Unattributed(s, {}) = Graph(N, E)
    BY <1>1, <2>1
  <2>3. k[1] \in url
    BY <2>1, <2>2 DEF Urls
  <2>4. Unattributed(s, {}).nodes = N
    <3> HIDE DEF N, E
    <3> QED
      BY <2>2, GraphParts
  <2> QED
    BY <2>1, <2>3, <2>4 DEF Urls
<1> QED
  <2> HIDE DEF N, E, url
  <2> QED
    BY <1>1, <1>4, <1>5, <1>6

Sessions == UNION Windows

LEMMA AloneSound ==
  ASSUME NEW s \in Sessions \cup Salvaged
  PROVE  /\ Fit(Alone(s), s, Withholds(s) \cup Pointed(s))
         /\ s \notin Salvaged => Ip(s) \subseteq Alone(s).nodes
         /\ s \notin Salvaged /\ Permitted(s) => Indicator(s) \subseteq Alone(s).nodes
<1>1. /\ s.type # "Honeytrap" => \A d \in s.downloads : d[2] \in s.files
      /\ \A u, v \in s.c2 : u = v
  BY BundleAssumption DEF Sessions
<1>2. Fit(Unattributed(s, {}), s, Withholds(s) \cup Pointed(s))
  BY <1>1, UnattributedSound, FitClose
<1> QED
  BY <1>1, <1>2, SessionSound DEF Alone

-----------------------------------------------------------------------------
(* The inductive invariant.                                                *)

\* Where the sessions and the salvage groups are.
Walked ==
  /\ pending \cup lost \subseteq Sessions
  /\ built \subseteq Sessions \cup Salvaged
  /\ pending \cap (built \cup lost) = {}
  /\ phase \in {"build", "notes", "final"}
  /\ phase # "build" => pending = {} /\ Salvaged \subseteq built

\* The bundle holds what its sessions gave, and only what the builder emitted.
Filled ==
  /\ Clean(emitted)
  /\ objects = [nodes |-> objects.nodes, edges |-> objects.edges, sights |-> objects.sights]
  /\ \A s \in built : Alone(s).nodes \subseteq emitted
  /\ lost = {} => emitted \subseteq objects.nodes
  /\ \A n \in objects.nodes : n \in emitted \/ n[1] = "credentials"
  /\ phase = "build" => objects.nodes \subseteq emitted /\ objects.edges \subseteq DOMAIN span
  /\ objects.sights \subseteq DOMAIN tally

\* An Indicator has a session that was permitted one; one refused waits to be
\* stripped (_gate_withheld_ids).
Accused ==
  /\ \A n \in emitted : n[1] = "indicator" =>
       \E s \in built \cup lost : n \in Indicator(s) /\ Permitted(s)
  /\ \A n \in withheld : n[1] = "indicator"
  /\ \A s \in built \cup lost : Withholds(s) \subseteq withheld
  /\ \A k \in DOMAIN tally : k[1] \in emitted

\* Where an edge may end besides what was emitted.
Open ==
  (IF phase = "final" THEN {} ELSE withheld)
    \cup (UNION {Pointed(s) : s \in built}) \cup (UNION {Ip(s) : s \in lost})

EndsKnown == \A e \in objects.edges : {e[1], e[3]} \subseteq emitted \cup objects.nodes \cup Open

\* Which edges are there, and the times they claim.
Spanned ==
  lost = {} =>
    /\ DOMAIN span = UNION {Alone(s).edges : s \in built}
    /\ phase # "final" => DOMAIN span \subseteq objects.edges
    /\ phase = "final" =>
         \A e \in DOMAIN span :
           {e[1], e[3]} \cap (withheld \ emitted) = {} <=> e \in objects.edges

Earliest(e) ==
  /\ span[e].first \in {s.first : s \in Sources(e)}
  /\ \A s \in Sources(e) : span[e].first <= s.first
Latest(e) ==
  /\ span[e].last \in {s.last : s \in Sources(e)}
  /\ \A s \in Sources(e) : span[e].last >= s.last
Hulls == lost = {} => \A e \in DOMAIN span : Earliest(e) /\ Latest(e)

\* The Sightings of built sessions are there, and a count the hive was not asked
\* for starts at one.
Seen ==
  /\ \A s \in built \ Salvaged : Sightings(s, {}) \subseteq DOMAIN tally
  /\ phase # "final" => DOMAIN tally \subseteq objects.sights
  /\ phase = "final" => \A k \in DOMAIN tally : tally[k].n > 0 => k \in objects.sights
Counted ==
  \A k \in DOMAIN tally :
    k[1][1] = "ip" /\ <<k[1][2], k[2]>> \notin DOMAIN EsCounts /\ ~cfg.strict =>
      tally[k].n \in Nat /\ tally[k].n > 0

\* ICS labels are noted as their sessions are built.
Labelled ==
  /\ \A s \in built : Noted(s) \subseteq ics
  /\ phase = "final" => \A n \in DOMAIN labels : IcsUnion(n[2]) \subseteq labels[n]

BundleInv ==
  /\ Walked /\ Filled /\ Accused /\ EndsKnown /\ Spanned /\ Hulls /\ Seen /\ Counted /\ Labelled

LEMMA BundleInvInit == BundleInit => BundleInv
<1> SUFFICES ASSUME BundleInit PROVE BundleInv
  OBVIOUS
<1> USE DEF BundleInit
<1>1. Walked
  BY DEF Walked, Sessions
<1>2. Filled
  BY DEF Filled, Clean
<1>3. DOMAIN tally = {} /\ DOMAIN span = {} /\ DOMAIN labels = {}
  OBVIOUS
<1>4. Accused /\ EndsKnown /\ Spanned /\ Hulls /\ Seen /\ Counted /\ Labelled
  BY <1>3 DEF Accused, EndsKnown, Spanned, Hulls, Seen, Counted, Labelled
<1> QED
  BY <1>1, <1>2, <1>4 DEF BundleInv

-----------------------------------------------------------------------------
(* Steps.                                                                  *)

\* A session or a salvage group joins the bundle with its Sightings.
Joins(s, K) ==
  /\ phase = "build"
  /\ UNCHANGED <<cfg, lost, phase>>
  /\ s \in (Sessions \cup Salvaged) \ lost
  /\ pending' = pending \ {s}
  /\ built' = built \cup {s}
  /\ emitted' = emitted \cup Alone(s).nodes
  /\ span' = Hull(span, Alone(s).edges, s)
  /\ tally' = FoldAll(tally, K, s)
  /\ withheld' = withheld \cup Withholds(s)
  /\ ics' = ics \cup (IF Ip(s) \subseteq Alone(s).nodes THEN Noted(s) ELSE {})
  /\ Extend(Alone(s), K)

LEMMA SightingsAnywhere ==
  ASSUME NEW s, NEW em, Clean(em)
  PROVE  Sightings(s, em) = Sightings(s, {})
BY AnchorsAnywhere DEF Sightings, Sighted

LEMMA BuildJoins ==
  ASSUME BundleInv, NEW s \in pending, Build(s)
  PROVE  Joins(s, Sightings(s, {})) /\ s \notin Salvaged
<1>1. s \in Sessions /\ s \notin lost /\ s \notin Salvaged
  BY BundleAssumption DEF BundleInv, Walked, Sessions
<1>2. Clean(emitted)
  BY DEF BundleInv, Filled
<1>3. SessionGraph(s, emitted) = Alone(s) /\ Sightings(s, emitted) = Sightings(s, {})
  BY <1>1, <1>2, BuildersAnywhere, SightingsAnywhere DEF Alone
<1>4. Absorb(s, Alone(s), Sightings(s, {})) /\ Extend(Alone(s), Sightings(s, {}))
  BY <1>3 DEF Build
<1> QED
  BY <1>1, <1>4 DEF Build, Turn, Joins, Absorb

LEMMA SalvageJoins ==
  ASSUME BundleInv, NEW s \in Salvaged, Salvage(s)
  PROVE  Joins(s, SalvageSights(s))
<1>1. s \notin lost /\ s \notin pending
  BY BundleAssumption DEF BundleInv, Walked, Sessions
<1>2. Clean(emitted)
  BY DEF BundleInv, Filled
<1>3. Unattributed(s, emitted) = Alone(s)
  BY <1>2, BuildersAnywhere DEF Alone
<1>4. Absorb(s, Alone(s), SalvageSights(s)) /\ Extend(Alone(s), SalvageSights(s))
  BY <1>3 DEF Salvage
<1> QED
  BY <1>1, <1>4 DEF Salvage, Joins, Absorb

\* A build that raises leaves nodes and edges with the builder.
Loses(s, g) ==
  /\ phase = "build"
  /\ UNCHANGED <<cfg, built, objects, phase>>
  /\ s \in Sessions \ Salvaged
  /\ pending' = pending \ {s}
  /\ lost' = lost \cup {s}
  /\ emitted' = emitted \cup g.nodes
  /\ DOMAIN span' = DOMAIN span \cup g.edges
  /\ DOMAIN tally' = DOMAIN tally /\ \A k \in DOMAIN tally : tally'[k] = tally[k]
  /\ withheld' = withheld \cup Withholds(s)
  /\ ics \subseteq ics'
  /\ \A n \in g.nodes : ~Rejected(n) /\ (n[1] = "indicator" => n \in Indicator(s) /\ Permitted(s))

LEMMA BuildFailsLoses ==
  ASSUME BundleInv, NEW s \in pending, BuildFails(s)
  PROVE  \E g : Loses(s, g)
<1>1. s \in Sessions \ Salvaged
  BY BundleAssumption DEF BundleInv, Walked, Sessions
<1>2. Clean(emitted)
  BY DEF BundleInv, Filled
<1>3. PICK g \in {Context(s, emitted), SessionGraph(s, emitted)} : Absorb(s, g, {})
  BY DEF BuildFails
<1>4. Context(s, emitted) = Context(s, {}) /\ SessionGraph(s, emitted) = Alone(s)
  BY <1>1, <1>2, BlocksAnywhere, BuildersAnywhere DEF Alone
<1>5. Context(s, {}).nodes \subseteq Driveby(s, {}).nodes
  BY JoinParts DEF Driveby
<1>6. Fit(Driveby(s, {}), s, Ip(s) \cup Indicator(s)) /\ Fit(Alone(s), s, Withholds(s) \cup Pointed(s))
  BY <1>1, BlocksFit, AloneSound
<1>7. \A n \in g.nodes : ~Rejected(n) /\ (n[1] = "indicator" => n \in Indicator(s) /\ Permitted(s))
  BY <1>3, <1>4, <1>5, <1>6 DEF Fit
<1>8. tally' = FoldAll(tally, {}, s) /\ span' = Hull(span, g.edges, s)
  BY <1>3 DEF Absorb
<1>9. DOMAIN tally' = DOMAIN tally /\ \A k \in DOMAIN tally : tally'[k] = tally[k]
  BY <1>8 DEF FoldAll
<1>10. DOMAIN span' = DOMAIN span \cup g.edges
  BY <1>8 DEF Hull
<1>11. Loses(s, g)
  BY <1>1, <1>3, <1>7, <1>9, <1>10 DEF Loses, BuildFails, Turn, Absorb
<1> QED
  BY <1>11

LEMMA FixedForCycle ==
  ASSUME cfg' = cfg, NEW s
  PROVE  /\ Alone(s)' = Alone(s)
         /\ Withholds(s)' = Withholds(s)
         /\ (Permitted(s)' <=> Permitted(s))
         /\ Sightings(s, {})' = Sightings(s, {})
         /\ \A n : Rejected(n)' <=> Rejected(n)
<1>1. Alone(s)' = Alone(s)
  BY BuildersFixed DEF Alone
<1>2. Withholds(s)' = Withholds(s)
  BY RefusalsFixed DEF Withholds
<1>3. Anchors(Indicator(s), {})' = Anchors(Indicator(s), {})
  BY RefusalsFixed
<1>4. Sightings(s, {})' = Sightings(s, {})
  BY <1>3, RefusalsFixed DEF Sightings, Sighted
<1> QED
  BY <1>1, <1>2, <1>4, RefusalsFixed

\* What is sighted of a session is in its graph.
LEMMA SightsHeld ==
  ASSUME NEW s \in Sessions \cup Salvaged
  PROVE  /\ s \notin Salvaged => \A k \in Sightings(s, {}) : k[1] \in Alone(s).nodes /\ k[2] = s.sensor
         /\ s \in Salvaged => \A k \in SalvageSights(s) : k[1] \in Alone(s).nodes /\ k[1][1] = "url"
<1>1. ASSUME s \notin Salvaged, NEW k \in Sightings(s, {})
      PROVE  k[1] \in Alone(s).nodes /\ k[2] = s.sensor
  <2>1. k[1] \in Sighted(s, {}) /\ k[2] = s.sensor
    BY <1>1 DEF Sightings
  <2>2. Anchors(Indicator(s), {}) = Indicator(s)
    BY Kinds
  <2>3. k[1] \in Ip(s) \/ (Permitted(s) /\ k[1] \in Indicator(s))
    BY <2>1, <2>2 DEF Sighted
  <2> QED
    BY <1>1, <2>1, <2>3, AloneSound
<1>2. ASSUME s \in Salvaged, NEW k \in SalvageSights(s)
      PROVE  k[1] \in Alone(s).nodes /\ k[1][1] = "url"
  BY <1>2, UnattributedSound, BundleAssumption DEF Alone
<1> QED
  BY <1>1, <1>2

-----------------------------------------------------------------------------

LEMMA JoinsKeeps ==
  ASSUME BundleInv, NEW s, NEW K, Joins(s, K),
         \A k \in K : k[1] \in Alone(s).nodes
  PROVE  Filled' /\ Accused' /\ EndsKnown' /\ Spanned'
<1> USE DEF BundleInv, Joins
<1>1. s \in Sessions \cup Salvaged /\ cfg' = cfg
  OBVIOUS
<1>2. Fit(Alone(s), s, Withholds(s) \cup Pointed(s))
  BY <1>1, AloneSound
<1>3. /\ objects' = [nodes |-> objects.nodes \cup (Alone(s).nodes \ emitted),
                     edges |-> objects.edges \cup (Alone(s).edges \ DOMAIN span),
                     sights |-> objects.sights \cup (K \ DOMAIN tally)]
  BY DEF Extend
<1>4. /\ DOMAIN span' = DOMAIN span \cup Alone(s).edges
      /\ DOMAIN tally' = DOMAIN tally \cup K
  BY DEF Hull, FoldAll
<1>5. \A x : /\ Alone(x)' = Alone(x) /\ Withholds(x)' = Withholds(x)
             /\ (Permitted(x)' <=> Permitted(x))
  BY <1>1, FixedForCycle
<1>6. \A n : Rejected(n)' <=> Rejected(n)
  BY <1>1, FixedForCycle
<1>7. Filled'
  <2>1. Clean(emitted)'
    BY <1>2, <1>6 DEF Filled, Clean, Fit
  <2>2. \A x \in built' : Alone(x)'.nodes \subseteq emitted'
    BY <1>5 DEF Filled
  <2>3. /\ objects'.nodes = objects.nodes \cup (Alone(s).nodes \ emitted)
        /\ objects'.edges = objects.edges \cup (Alone(s).edges \ DOMAIN span)
        /\ objects'.sights = objects.sights \cup (K \ DOMAIN tally)
        /\ objects' = [nodes |-> objects'.nodes, edges |-> objects'.edges, sights |-> objects'.sights]
    BY <1>3
  <2>4. lost' = {} => emitted' \subseteq objects'.nodes
    BY <2>3 DEF Filled
  <2>5. objects'.nodes \subseteq emitted' /\ objects'.edges \subseteq DOMAIN span'
    BY <1>4, <2>3 DEF Filled
  <2>6. objects'.sights \subseteq DOMAIN tally'
    BY <1>4, <2>3 DEF Filled
  <2> QED
    BY <2>1, <2>2, <2>3, <2>4, <2>5, <2>6 DEF Filled
<1>8. Accused'
  <2>1. ASSUME NEW n \in emitted', n[1] = "indicator"
        PROVE  \E x \in built' \cup lost' : n \in Indicator(x) /\ Permitted(x)'
    BY <2>1, <1>2, <1>5 DEF Accused, Fit
  <2>2. \A n \in withheld' : n[1] = "indicator"
    BY DEF Accused, Withholds, Indicator
  <2>3. \A x \in built' \cup lost' : Withholds(x)' \subseteq withheld'
    BY <1>5 DEF Accused
  <2>4. \A k \in DOMAIN tally' : k[1] \in emitted'
    BY <1>4 DEF Accused
  <2> QED
    BY <2>1, <2>2, <2>3, <2>4 DEF Accused
<1>9. EndsKnown'
  <2>1. objects'.nodes = objects.nodes \cup (Alone(s).nodes \ emitted)
        /\ objects'.edges = objects.edges \cup (Alone(s).edges \ DOMAIN span)
    BY <1>3
  <2>2. Open \subseteq Open' /\ Withholds(s) \cup Pointed(s) \subseteq Open'
    BY DEF Open
  <2>3. ASSUME NEW e \in objects.edges PROVE {e[1], e[3]} \subseteq emitted' \cup objects'.nodes \cup Open'
    BY <2>1, <2>2 DEF EndsKnown
  <2>4. ASSUME NEW e \in Alone(s).edges PROVE {e[1], e[3]} \subseteq emitted' \cup objects'.nodes \cup Open'
    BY <2>2, <1>2 DEF Fit
  <2> QED
    BY <2>1, <2>3, <2>4 DEF EndsKnown
<1>10. Spanned'
  <2>1. objects'.edges = objects.edges \cup (Alone(s).edges \ DOMAIN span)
    BY <1>3
  <2> SUFFICES ASSUME lost = {} PROVE Spanned'
    BY DEF Spanned
  <2>2. DOMAIN span' = UNION {Alone(x).edges : x \in built'}
    BY <1>4 DEF Spanned
  <2>3. DOMAIN span' = UNION {Alone(x)'.edges : x \in built'}
    BY <2>2, <1>5
  <2>4. DOMAIN span' \subseteq objects'.edges
    BY <1>4, <2>1 DEF Spanned
  <2> QED
    BY <2>3, <2>4 DEF Spanned
<1> QED
  BY <1>7, <1>8, <1>9, <1>10

LEMMA PairBounds ==
  \A a, b \in Int :
    /\ Min({a, b}) \in {a, b} /\ Min({a, b}) <= a /\ Min({a, b}) <= b
    /\ Max({a, b}) \in {a, b} /\ Max({a, b}) >= a /\ Max({a, b}) >= b
<1> SUFFICES ASSUME NEW a \in Int, NEW b \in Int
             PROVE  /\ Min({a, b}) \in {a, b} /\ Min({a, b}) <= a /\ Min({a, b}) <= b
                    /\ Max({a, b}) \in {a, b} /\ Max({a, b}) >= a /\ Max({a, b}) >= b
  OBVIOUS
<1>1. \E x \in {a, b} : \A y \in {a, b} : x =< y
  OBVIOUS
<1>2. \E x \in {a, b} : \A y \in {a, b} : x >= y
  OBVIOUS
<1>3. Min({a, b}) \in {a, b} /\ \A y \in {a, b} : Min({a, b}) =< y
  BY <1>1 DEF Min
<1>4. Max({a, b}) \in {a, b} /\ \A y \in {a, b} : Max({a, b}) >= y
  BY <1>2 DEF Max
<1> QED
  BY <1>3, <1>4

\* An edge observed once more claims the hull of its observations.
LEMMA JoinsHulls ==
  ASSUME BundleInv, NEW s, NEW K, Joins(s, K), lost = {}
  PROVE  \A e \in DOMAIN span' : Earliest(e)' /\ Latest(e)'
<1> USE DEF BundleInv, Joins
<1>1. span' = [e \in DOMAIN span \cup Alone(s).edges |->
                IF e \notin Alone(s).edges THEN span[e]
                ELSE IF e \notin DOMAIN span THEN [first |-> s.first, last |-> s.last]
                ELSE [first |-> Min({span[e].first, s.first}),
                      last |-> Max({span[e].last, s.last})]]
  BY DEF Hull
<1>2. \A x : Alone(x)' = Alone(x)
  BY FixedForCycle
<1>3. \A x \in built \cup {s} : x.first \in Int /\ x.last \in Int
  BY BundleAssumption DEF Walked, Sessions
<1> SUFFICES ASSUME NEW e \in DOMAIN span' PROVE Earliest(e)' /\ Latest(e)'
  OBVIOUS
<1>4. Sources(e)' = Sources(e) \cup {x \in {s} : e \in Alone(x).edges}
  BY <1>2 DEF Sources
<1>5. CASE e \notin Alone(s).edges
  <2>1. span'[e] = span[e] /\ e \in DOMAIN span
    BY <1>1, <1>5
  <2>2. Sources(e)' = Sources(e)
    BY <1>4, <1>5
  <2>3. Earliest(e) /\ Latest(e)
    BY <2>1 DEF Hulls
  <2> QED
    BY <2>1, <2>2, <2>3 DEF Earliest, Latest
<1>6. CASE e \in Alone(s).edges /\ e \notin DOMAIN span
  <2>1. span'[e] = [first |-> s.first, last |-> s.last]
    BY <1>1, <1>6
  <2>2. Sources(e) = {}
    BY <1>6 DEF Spanned, Sources
  <2>3. Sources(e)' = {s}
    BY <1>4, <1>6, <2>2
  <2> QED
    BY <2>1, <2>3, <1>3 DEF Earliest, Latest
<1>7. CASE e \in Alone(s).edges /\ e \in DOMAIN span
  <2>1. span'[e].first = Min({span[e].first, s.first}) /\ span'[e].last = Max({span[e].last, s.last})
    BY <1>1, <1>7
  <2>2. Sources(e)' = Sources(e) \cup {s}
    BY <1>4, <1>7
  <2>3. Earliest(e) /\ Latest(e)
    BY <1>7 DEF Hulls
  <2>4. \A x \in Sources(e) \cup {s} : x.first \in Int /\ x.last \in Int
    BY <1>3 DEF Sources
  <2>5. span[e].first \in Int /\ span[e].last \in Int
    BY <2>3, <2>4 DEF Earliest, Latest
  <2>6. /\ span'[e].first \in {span[e].first, s.first}
        /\ span'[e].first <= span[e].first /\ span'[e].first <= s.first
        /\ span'[e].last \in {span[e].last, s.last}
        /\ span'[e].last >= span[e].last /\ span'[e].last >= s.last
    <3>1. s.first \in Int /\ s.last \in Int
      BY <1>3
    <3>2. /\ Min({span[e].first, s.first}) \in {span[e].first, s.first}
          /\ Min({span[e].first, s.first}) <= span[e].first
          /\ Min({span[e].first, s.first}) <= s.first
      BY <2>5, <3>1, PairBounds
    <3>3. /\ Max({span[e].last, s.last}) \in {span[e].last, s.last}
          /\ Max({span[e].last, s.last}) >= span[e].last
          /\ Max({span[e].last, s.last}) >= s.last
      BY <2>5, <3>1, PairBounds
    <3> QED
      BY <2>1, <3>2, <3>3
  <2>7. Earliest(e)'
    <3>1. span'[e].first \in {x.first : x \in Sources(e) \cup {s}}
      BY <2>3, <2>6 DEF Earliest
    <3>2. ASSUME NEW x \in Sources(e) \cup {s} PROVE span'[e].first <= x.first
      BY <2>3, <2>4, <2>5, <2>6 DEF Earliest
    <3> QED
      BY <3>1, <3>2, <2>2 DEF Earliest
  <2>8. Latest(e)'
    <3>1. span'[e].last \in {x.last : x \in Sources(e) \cup {s}}
      BY <2>3, <2>6 DEF Latest
    <3>2. ASSUME NEW x \in Sources(e) \cup {s} PROVE span'[e].last >= x.last
      BY <2>3, <2>4, <2>5, <2>6 DEF Latest
    <3> QED
      BY <3>1, <3>2, <2>2 DEF Latest
  <2> QED
    BY <2>7, <2>8
<1> QED
  BY <1>5, <1>6, <1>7

\* A Sighting the hive was not asked for counts each session it folds.
LEMMA JoinsCounts ==
  ASSUME BundleInv, NEW s, NEW K, Joins(s, K),
         \/ s \notin Salvaged /\ K = Sightings(s, {})
         \/ s \in Salvaged /\ K = SalvageSights(s)
  PROVE  Counted'
<1> USE DEF BundleInv, Joins
<1>1. tally' = [k \in DOMAIN tally \cup K |-> IF k \in K THEN Folded(tally, k, s) ELSE tally[k]]
  BY DEF FoldAll
<1> SUFFICES ASSUME NEW k \in DOMAIN tally', k[1][1] = "ip",
                    <<k[1][2], k[2]>> \notin DOMAIN EsCounts, ~cfg.strict
             PROVE  tally'[k].n \in Nat /\ tally'[k].n > 0
  BY DEF Counted
<1>2. k \in DOMAIN tally => tally[k].n \in Nat /\ tally[k].n > 0
  BY DEF Counted
<1>3. CASE k \notin K
  BY <1>1, <1>2, <1>3
<1>4. CASE k \in K
  <2>1. s \notin Salvaged /\ K = Sightings(s, {})
    BY <1>4, SightsHeld
  <2>2. k[1] \in Sighted(s, {}) /\ k[2] = s.sensor
    BY <1>4, <2>1 DEF Sightings
  <2>3. k[1] \in Ip(s)
    <3>1. Anchors(Indicator(s), {}) = Indicator(s)
      BY Kinds
    <3> QED
      BY <2>2, <3>1 DEF Sighted, Indicator
  <2>4. k[1][2] \in s.ip
    BY <2>3 DEF Ip
  <2>5. /\ \A a, b \in s.ip : a = b
        /\ s.n \in Nat \ {0}
    BY BundleAssumption DEF Sessions
  <2>6. Authoritative(s) = {}
    BY <2>2, <2>4, <2>5 DEF Authoritative
  <2>7. ~FromEs(s) /\ Delta(s) \in Nat \ {0}
    BY <2>5, <2>6 DEF FromEs, Delta
  <2>8. tally'[k] = Folded(tally, k, s)
    BY <1>1, <1>4
  <2>9. Folded(tally, k, s).n =
          IF k \notin DOMAIN tally THEN Delta(s)
          ELSE IF s.sid \in tally[k].sids THEN tally[k].n ELSE tally[k].n + Delta(s)
    BY <2>7 DEF Folded
  <2> QED
    BY <1>2, <2>7, <2>8, <2>9
<1> QED
  BY <1>3, <1>4

LEMMA JoinsRest ==
  ASSUME BundleInv, NEW s, NEW K, Joins(s, K),
         s \notin Salvaged => K = Sightings(s, {})
  PROVE  Walked' /\ Seen' /\ Labelled'
<1> USE DEF BundleInv, Joins
<1>1. s \in Sessions \cup Salvaged /\ cfg' = cfg
  OBVIOUS
<1>2. Walked'
  BY DEF Walked
<1>3. DOMAIN tally' = DOMAIN tally \cup K
  BY DEF FoldAll
<1>4. Seen'
  <2>1. \A x : Sightings(x, {})' = Sightings(x, {})
    BY <1>1, FixedForCycle
  <2>2. \A x \in built' \ Salvaged : Sightings(x, {})' \subseteq DOMAIN tally'
    BY <1>3, <2>1 DEF Seen
  <2>3. objects'.sights = objects.sights \cup (K \ DOMAIN tally)
    BY DEF Extend
  <2>4. DOMAIN tally' \subseteq objects'.sights
    BY <1>3, <2>3 DEF Seen
  <2> QED
    BY <2>2, <2>4 DEF Seen
<1>5. Labelled'
  <2>1. Noted(s) \subseteq ics'
    <3>1. CASE s \in Salvaged
      BY <3>1, BundleAssumption DEF Noted
    <3>2. CASE s \notin Salvaged
      BY <3>2, AloneSound
    <3> QED
      BY <3>1, <3>2
  <2>2. \A x \in built' : Noted(x) \subseteq ics'
    BY <2>1 DEF Labelled
  <2> QED
    BY <2>2 DEF Labelled, Noted, IcsLabels
<1> QED
  BY <1>2, <1>4, <1>5

LEMMA JoinsStep ==
  ASSUME BundleInv, NEW s, NEW K, Joins(s, K),
         \/ s \notin Salvaged /\ K = Sightings(s, {})
         \/ s \in Salvaged /\ K = SalvageSights(s)
  PROVE  BundleInv'
<1>1. \A k \in K : k[1] \in Alone(s).nodes
  BY SightsHeld DEF Joins
<1>2. Filled' /\ Accused' /\ EndsKnown' /\ Spanned'
  BY <1>1, JoinsKeeps
<1>3. Hulls'
  BY JoinsHulls DEF Hulls, Joins
<1>4. Counted'
  BY JoinsCounts
<1>5. Walked' /\ Seen' /\ Labelled'
  BY JoinsRest
<1> QED
  BY <1>2, <1>3, <1>4, <1>5 DEF BundleInv

-----------------------------------------------------------------------------

LEMMA LosesStep == ASSUME BundleInv, NEW s, NEW g, Loses(s, g) PROVE BundleInv'
<1> USE DEF BundleInv, Loses
<1>1. cfg' = cfg /\ lost' # {} /\ s \in Sessions
  OBVIOUS
<1>2. \A x : /\ Alone(x)' = Alone(x) /\ Withholds(x)' = Withholds(x)
             /\ (Permitted(x)' <=> Permitted(x)) /\ Sightings(x, {})' = Sightings(x, {})
  BY <1>1, FixedForCycle
<1>3. \A n : Rejected(n)' <=> Rejected(n)
  BY <1>1, FixedForCycle
<1>4. Walked'
  BY BundleAssumption DEF Walked, Sessions
<1>5. Filled'
  <2>1. Clean(emitted)'
    BY <1>3 DEF Filled, Clean
  <2>2. \A x \in built' : Alone(x)'.nodes \subseteq emitted'
    BY <1>2 DEF Filled
  <2> QED
    BY <1>1, <2>1, <2>2 DEF Filled
<1>6. Accused'
  <2>1. ASSUME NEW n \in emitted', n[1] = "indicator"
        PROVE  \E x \in built' \cup lost' : n \in Indicator(x) /\ Permitted(x)'
    BY <2>1, <1>2 DEF Accused
  <2>2. \A n \in withheld' : n[1] = "indicator"
    BY DEF Accused, Withholds, Indicator
  <2>3. \A x \in built' \cup lost' : Withholds(x)' \subseteq withheld'
    BY <1>2 DEF Accused
  <2>4. \A k \in DOMAIN tally' : k[1] \in emitted'
    BY DEF Accused
  <2> QED
    BY <2>1, <2>2, <2>3, <2>4 DEF Accused
<1>7. EndsKnown'
  <2>1. Open \subseteq Open'
    BY DEF Open
  <2> QED
    BY <2>1 DEF EndsKnown
<1>8. Spanned' /\ Hulls'
  BY <1>1 DEF Spanned, Hulls
<1>9. Seen'
  BY <1>2 DEF Seen
<1>10. Counted'
  BY DEF Counted
<1>11. Labelled'
  BY DEF Labelled
<1> QED
  BY <1>4, <1>5, <1>6, <1>7, <1>8, <1>9, <1>10, <1>11

\* What the last steps of a cycle leave alone.
LEMMA Unbuilt ==
  ASSUME BundleInv, UNCHANGED <<cfg, built, lost, emitted, span, tally, withheld, ics>>
  PROVE  /\ Clean(emitted)'
         /\ \A x \in built' : Alone(x)'.nodes \subseteq emitted'
         /\ Accused' /\ Hulls' /\ Counted'
         /\ \A x : Alone(x)' = Alone(x) /\ Sightings(x, {})' = Sightings(x, {})
<1> USE DEF BundleInv
<1>1. \A x : /\ Alone(x)' = Alone(x) /\ Withholds(x)' = Withholds(x)
             /\ (Permitted(x)' <=> Permitted(x)) /\ Sightings(x, {})' = Sightings(x, {})
  BY FixedForCycle
<1>2. \A n : Rejected(n)' <=> Rejected(n)
  BY FixedForCycle
<1>3. Clean(emitted)'
  BY <1>2 DEF Clean, Filled
<1>4. \A x \in built' : Alone(x)'.nodes \subseteq emitted'
  BY <1>1 DEF Filled
<1>5. Accused'
  BY <1>1 DEF Accused
<1>6. \A e : Sources(e)' = Sources(e)
  BY <1>1 DEF Sources
<1>7. Hulls'
  BY <1>6 DEF Hulls, Earliest, Latest
<1>8. Counted'
  BY DEF Counted
<1> QED
  BY <1>1, <1>3, <1>4, <1>5, <1>7, <1>8

LEMMA SkipStep == ASSUME BundleInv, NEW s \in pending, Skip(s) PROVE BundleInv'
<1> USE DEF BundleInv
<1>1. /\ UNCHANGED <<cfg, built, lost, emitted, span, tally, withheld, ics>>
      /\ UNCHANGED <<objects, labels, phase>>
      /\ phase = "build" /\ pending' = pending \ {s}
  BY DEF Skip, Turn
<1>2. /\ Clean(emitted)'
      /\ \A x \in built' : Alone(x)'.nodes \subseteq emitted'
      /\ Accused' /\ Hulls' /\ Counted'
      /\ \A x : Alone(x)' = Alone(x) /\ Sightings(x, {})' = Sightings(x, {})
  BY <1>1, Unbuilt
<1>3. Walked'
  BY <1>1 DEF Walked
<1>4. Filled'
  BY <1>1, <1>2 DEF Filled
<1>5. EndsKnown'
  BY <1>1 DEF EndsKnown, Open
<1>6. Spanned'
  BY <1>1, <1>2 DEF Spanned
<1>7. Seen'
  BY <1>1, <1>2 DEF Seen
<1>8. Labelled'
  BY <1>1 DEF Labelled
<1> QED
  BY <1>2, <1>3, <1>4, <1>5, <1>6, <1>7, <1>8

LEMMA LostOpen == \A x \in lost : Ip(x) \subseteq Open
<1> SUFFICES ASSUME NEW x \in lost PROVE Ip(x) \subseteq Open
  OBVIOUS
<1>1. Ip(x) \in {Ip(s) : s \in lost}
  OBVIOUS
<1>2. UNION {Ip(s) : s \in lost} \subseteq Open
  BY DEF Open
<1> QED
  BY <1>1, <1>2

LEMMA NotesStep == ASSUME BundleInv, CredentialNotes PROVE BundleInv'
<1> USE DEF BundleInv
<1> DEFINE tried == UNION {s.ip : s \in {s \in built \cup lost : s.creds > 0}}
           N == {"credentials"} \X tried
           E == {<<<<"credentials", a>>, "refers-to", <<"ip", a>>>> : a \in tried}
<1>1. /\ UNCHANGED <<cfg, built, lost, emitted, span, tally, withheld, ics>>
      /\ UNCHANGED <<pending, labels>>
      /\ phase = "build" /\ phase' = "notes" /\ pending = {} /\ Salvaged \subseteq built
  BY DEF CredentialNotes
<1>2. /\ Clean(emitted)'
      /\ \A x \in built' : Alone(x)'.nodes \subseteq emitted'
      /\ Accused' /\ Hulls' /\ Counted'
      /\ \A x : Alone(x)' = Alone(x) /\ Sightings(x, {})' = Sightings(x, {})
  BY <1>1, Unbuilt
<1>3. objects' = [objects EXCEPT !.nodes = @ \cup N, !.edges = @ \cup E]
  BY DEF CredentialNotes
<1>4. objects = [nodes |-> objects.nodes, edges |-> objects.edges, sights |-> objects.sights]
  BY DEF Filled
<1>5. /\ objects'.nodes = objects.nodes \cup N
      /\ objects'.edges = objects.edges \cup E
      /\ objects'.sights = objects.sights
      /\ objects' = [nodes |-> objects'.nodes, edges |-> objects'.edges, sights |-> objects'.sights]
  <2> HIDE DEF N, E
  <2> QED
    BY <1>3, <1>4
<1>6. Walked'
  BY <1>1 DEF Walked
<1>7. Filled'
  <2>1. \A n \in objects'.nodes : n \in emitted' \/ n[1] = "credentials"
    BY <1>1, <1>5 DEF Filled
  <2> HIDE DEF N, E
  <2> QED
    BY <1>1, <1>2, <1>5, <2>1 DEF Filled
<1>8. EndsKnown'
  <2>1. Open' = Open
    BY <1>1 DEF Open
  <2>2. ASSUME NEW e \in objects.edges
        PROVE  {e[1], e[3]} \subseteq emitted' \cup objects'.nodes \cup Open'
    BY <1>1, <1>5, <2>1 DEF EndsKnown
  <2>3. ASSUME NEW a \in tried
        PROVE  <<"credentials", a>> \in objects'.nodes /\ <<"ip", a>> \in emitted' \cup Open'
    <3>1. PICK x \in built \cup lost : a \in x.ip
      OBVIOUS
    <3>2. <<"credentials", a>> \in N /\ <<"ip", a>> \in Ip(x)
      BY <3>1 DEF Ip
    <3> HIDE DEF tried, N, E
    <3>3. CASE x \in lost
      <4>1. Ip(x) \subseteq Open
        BY <3>3, LostOpen
      <4> QED
        BY <1>5, <2>1, <3>2, <4>1
    <3>4. CASE x \in built
      <4>1. x \notin Salvaged
        BY <3>1, BundleAssumption
      <4>2. Ip(x) \subseteq Alone(x).nodes
        BY <4>1, <3>4, AloneSound DEF Walked
      <4>3. Alone(x).nodes \subseteq emitted'
        BY <1>1, <1>2, <3>4
      <4> QED
        BY <1>5, <3>2, <4>2, <4>3
    <3> QED
      BY <3>1, <3>3, <3>4
  <2>4. ASSUME NEW e \in E
        PROVE  {e[1], e[3]} \subseteq emitted' \cup objects'.nodes \cup Open'
    BY <2>3
  <2> HIDE DEF E, N
  <2> QED
    BY <1>5, <2>2, <2>4 DEF EndsKnown
<1> HIDE DEF N, E
<1>9. Spanned'
  BY <1>1, <1>2, <1>5 DEF Spanned
<1>10. Seen'
  BY <1>1, <1>2, <1>5 DEF Seen
<1>11. Labelled'
  BY <1>1 DEF Labelled
<1> QED
  BY <1>2, <1>6, <1>7, <1>8, <1>9, <1>10, <1>11

LEMMA FinalizeStep == ASSUME BundleInv, Finalize PROVE BundleInv'
<1> USE DEF BundleInv
<1> DEFINE gone == withheld \ emitted
           E == {e \in objects.edges : e[1] \notin gone /\ e[3] \notin gone}
           T == {k \in objects.sights : tally[k].n > 0}
<1>1. /\ UNCHANGED <<cfg, built, lost, emitted, span, tally, withheld, ics>>
      /\ UNCHANGED pending
      /\ phase = "notes" /\ phase' = "final"
      /\ labels' = [n \in DOMAIN labels |-> labels[n] \cup IcsUnion(n[2])]
  BY DEF Finalize
<1>2. /\ Clean(emitted)'
      /\ \A x \in built' : Alone(x)'.nodes \subseteq emitted'
      /\ Accused' /\ Hulls' /\ Counted'
      /\ \A x : Alone(x)' = Alone(x) /\ Sightings(x, {})' = Sightings(x, {})
  BY <1>1, Unbuilt
<1>3. objects' = [nodes |-> objects.nodes, edges |-> E, sights |-> T]
  BY DEF Finalize
<1>4. objects'.nodes = objects.nodes /\ objects'.edges = E /\ objects'.sights = T
  <2> HIDE DEF E, T
  <2> QED
    BY <1>3
<1>5. Walked'
  BY <1>1 DEF Walked
<1>6. Filled'
  <2>1. objects' = [nodes |-> objects'.nodes, edges |-> objects'.edges, sights |-> objects'.sights]
    <3> HIDE DEF E, T
    <3> QED
      BY <1>3, <1>4
  <2>2. objects'.sights \subseteq DOMAIN tally'
    BY <1>1, <1>4 DEF Filled
  <2> HIDE DEF E, T
  <2> QED
    BY <1>1, <1>2, <1>4, <2>1, <2>2 DEF Filled
<1>7. EndsKnown'
  <2>1. Open \subseteq Open' \cup withheld
    BY <1>1 DEF Open
  <2>2. ASSUME NEW e \in E, NEW n \in {e[1], e[3]}
        PROVE  n \in emitted' \cup objects'.nodes \cup Open'
    <3>1. n \notin gone /\ n \in emitted \cup objects.nodes \cup Open
      BY DEF EndsKnown
    <3> QED
      BY <3>1, <2>1, <1>1, <1>4
  <2> HIDE DEF E
  <2> QED
    BY <1>4, <2>2 DEF EndsKnown
<1>8. Spanned'
  <2> SUFFICES ASSUME lost = {} PROVE Spanned'
    BY <1>1 DEF Spanned
  <2>1. DOMAIN span = UNION {Alone(x).edges : x \in built} /\ DOMAIN span \subseteq objects.edges
    BY <1>1 DEF Spanned
  <2>2. DOMAIN span' = UNION {Alone(x)'.edges : x \in built'}
    BY <1>1, <1>2, <2>1
  <2>3. \A e \in DOMAIN span : {e[1], e[3]} \cap (withheld \ emitted) = {} <=> e \in E
    BY <2>1
  <2> HIDE DEF E
  <2> QED
    BY <1>1, <1>4, <2>2, <2>3 DEF Spanned
<1>9. Seen'
  BY <1>1, <1>2, <1>4 DEF Seen
<1>10. Labelled'
  <2>1. \A a : IcsUnion(a)' = IcsUnion(a)
    BY <1>1 DEF IcsUnion
  <2> QED
    BY <1>1, <2>1 DEF Labelled
<1> QED
  BY <1>2, <1>5, <1>6, <1>7, <1>8, <1>9, <1>10

LEMMA StutterStep == BundleInv /\ UNCHANGED bundleVars => BundleInv'
<1> SUFFICES ASSUME BundleInv, UNCHANGED bundleVars PROVE BundleInv'
  OBVIOUS
<1> USE DEF BundleInv
<1>1. /\ UNCHANGED <<cfg, built, lost, emitted, span, tally, withheld, ics>>
      /\ UNCHANGED <<objects, labels, phase, pending>>
  BY DEF bundleVars
<1>2. /\ Clean(emitted)'
      /\ \A x \in built' : Alone(x)'.nodes \subseteq emitted'
      /\ Accused' /\ Hulls' /\ Counted'
      /\ \A x : Alone(x)' = Alone(x) /\ Sightings(x, {})' = Sightings(x, {})
  BY <1>1, Unbuilt
<1>3. Walked' /\ Filled' /\ EndsKnown'
  BY <1>1, <1>2 DEF Walked, Filled, EndsKnown, Open
<1>4. Spanned'
  BY <1>1, <1>2 DEF Spanned
<1>5. Seen'
  BY <1>1, <1>2 DEF Seen
<1>6. Labelled'
  <2>1. \A a : IcsUnion(a)' = IcsUnion(a)
    BY <1>1 DEF IcsUnion
  <2> QED
    BY <1>1, <2>1 DEF Labelled
<1> QED
  BY <1>2, <1>3, <1>4, <1>5, <1>6

LEMMA BundleInvStep == BundleInv /\ [BundleNext]_bundleVars => BundleInv'
<1> SUFFICES ASSUME BundleInv, [BundleNext]_bundleVars PROVE BundleInv'
  OBVIOUS
<1>1. ASSUME NEW s \in pending, Skip(s) PROVE BundleInv'
  BY <1>1, SkipStep
<1>2. ASSUME NEW s \in pending, Build(s) PROVE BundleInv'
  BY <1>2, BuildJoins, JoinsStep
<1>3. ASSUME NEW s \in pending, BuildFails(s) PROVE BundleInv'
  BY <1>3, BuildFailsLoses, LosesStep
<1>4. ASSUME NEW s \in Salvaged, Salvage(s) PROVE BundleInv'
  BY <1>4, SalvageJoins, JoinsStep
<1>5. CASE CredentialNotes
  BY <1>5, NotesStep
<1>6. CASE Finalize
  BY <1>6, FinalizeStep
<1>7. CASE Done \/ UNCHANGED bundleVars
  BY <1>7, StutterStep DEF Done
<1> QED
  BY <1>1, <1>2, <1>3, <1>4, <1>5, <1>6, <1>7 DEF BundleNext

LEMMA BundleInvariant == BundleSpec => []BundleInv
<1> QED
  BY BundleInvInit, BundleInvStep, PTL DEF BundleSpec

-----------------------------------------------------------------------------
(* The theorems.                                                           *)

\* The bundle holds nothing the builder did not emit, and no session is built
\* twice (main.run_cycle, builder._emitted_ids).
THEOREM BundleTypes == BundleSpec => []BundleTypeOK
<1>1. BundleInv => BundleTypeOK
  <2> SUFFICES ASSUME BundleInv PROVE BundleTypeOK
    OBVIOUS
  <2>1. ASSUME phase = "build" PROVE objects \in Ids
    <3>1. /\ objects = [nodes |-> objects.nodes, edges |-> objects.edges, sights |-> objects.sights]
          /\ objects.nodes \in SUBSET emitted
          /\ objects.edges \in SUBSET DOMAIN span
          /\ objects.sights \in SUBSET DOMAIN tally
      BY <2>1 DEF BundleInv, Filled
    <3> QED
      BY <3>1 DEF Ids
  <2> QED
    BY <2>1 DEF BundleTypeOK, BundleInv, Walked
<1> QED
  BY <1>1, BundleInvariant, PTL

LEMMA OpenAtEnd ==
  ASSUME phase = "final", NEW n \in Open
  PROVE  \/ \E s \in built : s.type = "Honeytrap" /\ n \in Files({d[2] : d \in s.downloads})
         \/ \E s \in lost : n \in Ip(s)
<1>1. \/ \E s \in built : n \in Pointed(s)
      \/ \E s \in lost : n \in Ip(s)
  BY DEF Open
<1> QED
  BY <1>1 DEF Pointed

\* Every edge and Note reference of the finished bundle ends at an object of the
\* bundle, save at a node a failed build took with it and at the file only a
\* Honeytrap download names (_emit_node, _link_download_chain, finalize_bundle).
THEOREM EdgesEndInTheBundle == BundleSpec => []NoEdgeDangles
<1>1. BundleInv => NoEdgeDangles
  <2> SUFFICES ASSUME BundleInv, phase = "final" PROVE NoEdgeDangles
    BY DEF NoEdgeDangles
  <2> DEFINE H == {s \in built : s.type = "Honeytrap"}
             P == {Files({d[2] : d \in s.downloads}) : s \in H}
             G == {Ip(s) : s \in lost}
             taken == emitted \ objects.nodes
  <2>1. \A e \in objects.edges : {e[1], e[3]} \subseteq emitted \cup objects.nodes \cup Open
    BY DEF BundleInv, EndsKnown
  <2>2. Open \subseteq (UNION P) \cup (UNION G)
    BY OpenAtEnd
  <2>3. \A e \in objects.edges :
          {e[1], e[3]} \subseteq objects.nodes \cup taken \cup (UNION P) \cup (UNION G)
    <3> HIDE DEF P, G
    <3> QED
      BY <2>1, <2>2
  <2> QED
    BY <2>3 DEF NoEdgeDangles
<1> QED
  BY <1>1, BundleInvariant, PTL

\* An accused node was emitted.
LEMMA AccusedEmitted ==
  ASSUME BundleInv, phase = "final", NEW n, n[1] = "indicator",
         \/ n \in objects.nodes
         \/ \E k \in objects.sights : n = k[1]
         \/ \E e \in objects.edges : n \in {e[1], e[3]}
  PROVE  \E s \in built \cup lost : n[2] \in s.ip /\ Permitted(s)
<1>1. CASE n \in objects.nodes
  BY <1>1 DEF BundleInv, Filled, Accused, Indicator
<1>2. CASE \E k \in objects.sights : n = k[1]
  BY <1>2 DEF BundleInv, Filled, Accused, Indicator
<1>3. ASSUME NEW e \in objects.edges, n \in {e[1], e[3]}
      PROVE  \E s \in built \cup lost : n[2] \in s.ip /\ Permitted(s)
  <2>1. n \in emitted \cup objects.nodes \cup Open
    BY <1>3 DEF BundleInv, EndsKnown
  <2>2. n \notin Open
    BY OpenAtEnd DEF Files, Ip
  <2>3. n \in emitted
    BY <1>1, <2>1, <2>2 DEF BundleInv, Filled
  <2> QED
    BY <2>3 DEF BundleInv, Accused, Indicator
<1> QED
  BY <1>1, <1>2, <1>3

\* An address is accused only if some session of it passed the gate; one refused
\* keeps its observable, and its Sighting when the Sightings are decoupled
\* (_indicator_permitted, build_dual_sighting, finalize_bundle).
THEOREM NoneAccusedUnheard == BundleSpec => []AccusedForCause
<1>1. BundleInv => AccusedForCause
  <2> SUFFICES ASSUME BundleInv, phase = "final" PROVE AccusedForCause
    BY DEF AccusedForCause
  <2>1. ASSUME NEW n \in objects.nodes, n[1] = "indicator"
        PROVE  \E s \in built \cup lost : n[2] \in s.ip /\ Permitted(s)
    BY <2>1, AccusedEmitted
  <2>2. ASSUME NEW k \in objects.sights, k[1][1] = "indicator"
        PROVE  \E s \in built \cup lost : k[1][2] \in s.ip /\ Permitted(s)
    BY <2>2, AccusedEmitted
  <2>3. ASSUME NEW e \in objects.edges, NEW m \in {e[1], e[3]}, m[1] = "indicator"
        PROVE  \E s \in built \cup lost : m[2] \in s.ip /\ Permitted(s)
    BY <2>3, AccusedEmitted
  <2>4. ASSUME NEW s \in built \ Salvaged, lost = {}
        PROVE  Ip(s) \subseteq objects.nodes
    BY <2>4, AloneSound DEF BundleInv, Filled, Walked
  <2>5. ASSUME NEW s \in built \ Salvaged, lost = {}, cfg.decoupled, ~FromEs(s)
        PROVE  Ip(s) \X {s.sensor} \subseteq objects.sights
    <3> SUFFICES ASSUME NEW a \in s.ip PROVE <<<<"ip", a>>, s.sensor>> \in objects.sights
      BY DEF Ip
    <3> DEFINE k == <<<<"ip", a>>, s.sensor>>
    <3>1. k \in Sightings(s, {})
      BY <2>5 DEF Sightings, Sighted, Ip
    <3>2. k \in DOMAIN tally
      BY <3>1 DEF BundleInv, Seen
    <3>3. <<a, s.sensor>> \notin DOMAIN EsCounts /\ ~cfg.strict
      BY <2>5 DEF FromEs, Authoritative
    <3>4. tally[k].n > 0
      BY <3>2, <3>3 DEF BundleInv, Counted
    <3> QED
      BY <3>2, <3>4 DEF BundleInv, Seen
  <2> QED
    BY <2>1, <2>2, <2>3, <2>4, <2>5 DEF AccusedForCause
<1> QED
  BY <1>1, BundleInvariant, PTL

\* What a session said of its address's industrial protocols is on record.
LEMMA SaidOnRecord ==
  ASSUME BundleInv, NEW a, NEW s \in built, a \in s.ip
  PROVE  /\ IcsLabels(s) \subseteq {p[2] : p \in {p \in ics : p[1] = a}}
         /\ UNION {i.protocols : i \in s.ics} \subseteq {p[2] : p \in {p \in ics : p[1] = a}}
         /\ IcsLabels(s) \cap Industrial = {}
         /\ UNION {i.protocols : i \in s.ics} \subseteq Industrial
<1>1. s \in Sessions
  BY BundleAssumption DEF BundleInv, Walked
<1>2. \A i \in s.ics : i.labels \cap Industrial = {} /\ i.protocols \subseteq Industrial
  BY <1>1, BundleAssumption DEF Sessions
<1>3. Noted(s) \subseteq ics
  BY DEF BundleInv, Labelled
<1>4. ASSUME NEW l \in IcsLabels(s) \cup UNION {i.protocols : i \in s.ics}
      PROVE  l \in {p[2] : p \in {p \in ics : p[1] = a}}
  <2>1. <<a, l>> \in ics
    BY <1>3 DEF Noted
  <2> QED
    BY <2>1
<1>5. IcsLabels(s) \cap Industrial = {} /\ UNION {i.protocols : i \in s.ics} \subseteq Industrial
  BY <1>2 DEF IcsLabels
<1> QED
  BY <1>4, <1>5

\* No ICS label of a later session is lost, and an address that spoke several
\* industrial protocols shows it, whichever sessions it spoke them in
\* (_note_ics_session, _apply_ics_label_union).
THEOREM IcsLabelsReachTheBundle == BundleSpec => []IcsLabelsKept
<1>1. BundleInv => IcsLabelsKept
  <2> SUFFICES ASSUME BundleInv, phase = "final", NEW n \in DOMAIN labels
      PROVE  LET S == {s \in built : n[2] \in s.ip}
                 spoken == UNION {i.protocols : i \in UNION {s.ics : s \in S}}
             IN /\ UNION {IcsLabels(s) : s \in S} \subseteq labels[n]
                /\ Cardinality(spoken) >= 2 => "ics:multi-protocol" \in labels[n]
    BY DEF IcsLabelsKept
  <2> DEFINE S == {s \in built : n[2] \in s.ip}
             spoken == UNION {i.protocols : i \in UNION {s.ics : s \in S}}
             said == {p[2] : p \in {p \in ics : p[1] = n[2]}}
  <2>1. IcsUnion(n[2]) \subseteq labels[n]
    BY DEF BundleInv, Labelled
  <2>2. IcsUnion(n[2]) = (said \ Industrial) \cup
          (IF Cardinality(said \cap Industrial) >= 2 THEN {"ics:multi-protocol"} ELSE {})
    BY DEF IcsUnion
  <2>3. \A s \in S : IcsLabels(s) \subseteq said \ Industrial
    BY SaidOnRecord
  <2>4. \A s \in S : UNION {i.protocols : i \in s.ics} \subseteq said \cap Industrial
    BY SaidOnRecord
  <2>5. spoken \subseteq said \cap Industrial
    BY <2>4
  <2>6. IsFiniteSet(said \cap Industrial)
    <3>1. IsFiniteSet({}) /\ IsFiniteSet({} \cup {"modbus"})
      BY FS_EmptySet, FS_AddElement
    <3>2. IsFiniteSet(({} \cup {"modbus"}) \cup {"s7comm"})
      BY <3>1, FS_AddElement
    <3>3. IsFiniteSet((({} \cup {"modbus"}) \cup {"s7comm"}) \cup {"bacnet"})
      BY <3>2, FS_AddElement
    <3>4. Industrial = (({} \cup {"modbus"}) \cup {"s7comm"}) \cup {"bacnet"}
      BY DEF Industrial
    <3>5. IsFiniteSet(Industrial)
      BY <3>3, <3>4
    <3> QED
      BY <3>5, FS_Subset
  <2>7. Cardinality(spoken) >= 2 => Cardinality(said \cap Industrial) >= 2
    <3> HIDE DEF spoken, said
    <3>1. Cardinality(spoken) <= Cardinality(said \cap Industrial)
      BY <2>5, <2>6, FS_Subset
    <3>2. Cardinality(spoken) \in Nat /\ Cardinality(said \cap Industrial) \in Nat
      BY <2>5, <2>6, FS_Subset, FS_CardinalityType
    <3> QED
      BY <3>1, <3>2
  <2>8. UNION {IcsLabels(s) : s \in S} \subseteq labels[n]
    BY <2>1, <2>2, <2>3
  <2>9. Cardinality(spoken) >= 2 => "ics:multi-protocol" \in labels[n]
    <3> HIDE DEF spoken, said
    <3> QED
      BY <2>1, <2>2, <2>7
  <2> QED
    BY <2>8, <2>9
<1> QED
  BY <1>1, BundleInvariant, PTL

\* The extremes of a set of times are what the invariant says they are.
LEMMA Extremes ==
  ASSUME NEW S, S \subseteq Int, NEW m \in S
  PROVE  /\ (\A x \in S : m <= x) => m = Min(S)
         /\ (\A x \in S : m >= x) => m = Max(S)
<1>1. ASSUME \A x \in S : m <= x PROVE m = Min(S)
  <2>1. Min(S) \in S /\ \A x \in S : Min(S) <= x
    BY <1>1 DEF Min
  <2>2. m \in Int /\ Min(S) \in Int /\ Min(S) <= m /\ m <= Min(S)
    BY <1>1, <2>1
  <2> QED
    BY <2>2
<1>2. ASSUME \A x \in S : m >= x PROVE m = Max(S)
  <2>1. Max(S) \in S /\ \A x \in S : Max(S) >= x
    BY <1>2 DEF Max
  <2>2. m \in Int /\ Max(S) \in Int /\ Max(S) >= m /\ m >= Max(S)
    BY <1>2, <2>1
  <2> QED
    BY <2>2
<1> QED
  BY <1>1, <1>2

\* An edge is stripped when it ends at an Indicator nobody was granted.
LEMMA StrippedOrGranted ==
  ASSUME BundleInv, lost = {}, NEW s \in built, NEW e \in Alone(s).edges,
         NEW n \in {e[1], e[3]}
  PROVE  n \in withheld \ emitted <=>
           /\ n[1] = "indicator"
           /\ ~\E x \in built : Permitted(x) /\ n \in Indicator(x)
<1>1. s \in Sessions \cup Salvaged
  BY DEF BundleInv, Walked
<1>2. n \in Alone(s).nodes \cup (Withholds(s) \cup Pointed(s))
  BY <1>1, AloneSound DEF Fit
<1>3. n[1] = "indicator" => n \in withheld \/ \E x \in built : Permitted(x) /\ n \in Indicator(x)
  <2>1. n \in Alone(s).nodes /\ n[1] = "indicator" => n \in Indicator(s) /\ Permitted(s)
    BY <1>1, AloneSound DEF Fit
  <2>2. n \in Withholds(s) => n \in withheld
    BY DEF BundleInv, Accused
  <2>3. n \in Pointed(s) => n[1] # "indicator"
    BY DEF Pointed, Files
  <2> QED
    BY <1>2, <2>1, <2>2, <2>3
<1>4. n \in emitted /\ n[1] = "indicator" => \E x \in built : Permitted(x) /\ n \in Indicator(x)
  BY DEF BundleInv, Accused
<1>5. ASSUME NEW x \in built, Permitted(x), n \in Indicator(x)
      PROVE  n \in emitted
  <2>1. x \in Sessions \ Salvaged
    BY <1>5, BundleAssumption DEF BundleInv, Walked, Indicator
  <2>2. Indicator(x) \subseteq Alone(x).nodes
    BY <1>5, <2>1, AloneSound
  <2> QED
    BY <1>5, <2>2 DEF BundleInv, Filled
<1>6. n \in withheld => n[1] = "indicator"
  BY DEF BundleInv, Accused
<1> QED
  BY <1>3, <1>4, <1>5, <1>6

\* Unless a build raised, the finished bundle is the union of what the sessions
\* would have given alone, in whatever order they were built: every node, every
\* edge but those to an Indicator no session was permitted, and on each edge the
\* hull of the observations of it (_emit_node, _widen_relationship_window).
THEOREM OrderDecidesNothing == BundleSpec => []OrderFree
<1>1. BundleInv => OrderFree
  <2> SUFFICES ASSUME BundleInv, phase = "final", lost = {} PROVE OrderFree
    BY DEF OrderFree
  <2> DEFINE alone == Join({Alone(s) : s \in built})
             granted == UNION {Indicator(s) : s \in {s \in built : Permitted(s)}}
             Kept(e) == \A n \in {e[1], e[3]} : n[1] = "indicator" => n \in granted
  <2>1. /\ \A n \in alone.nodes : \E s \in built : n \in Alone(s).nodes
        /\ \A e \in alone.edges : \E s \in built : e \in Alone(s).edges
    BY JoinParts
  <2>2. DOMAIN span = UNION {Alone(s).edges : s \in built}
    BY DEF BundleInv, Spanned
  <2> HIDE DEF alone
  <2>3. alone.nodes \subseteq objects.nodes
    BY <2>1 DEF BundleInv, Filled
  <2>4. ASSUME NEW e \in alone.edges PROVE e \in DOMAIN span
    BY <2>1, <2>2
  <2>5. ASSUME NEW e \in alone.edges PROVE Kept(e) <=> e \in objects.edges
    <3>1. {e[1], e[3]} \cap (withheld \ emitted) = {} <=> e \in objects.edges
      BY <2>4 DEF BundleInv, Spanned
    <3>2. PICK s \in built : e \in Alone(s).edges
      BY <2>1
    <3>3. \A n \in {e[1], e[3]} : n \in withheld \ emitted <=> n[1] = "indicator" /\ n \notin granted
      BY <3>2, StrippedOrGranted
    <3> HIDE DEF granted
    <3> QED
      BY <3>1, <3>3
  <2>6. ASSUME NEW e \in alone.edges
        PROVE  /\ span[e].first = Min({s.first : s \in Sources(e)})
               /\ span[e].last = Max({s.last : s \in Sources(e)})
    <3>1. Earliest(e) /\ Latest(e)
      BY <2>4 DEF BundleInv, Hulls
    <3>2. \A s \in Sources(e) : s.first \in Int /\ s.last \in Int
      BY BundleAssumption DEF Sources, BundleInv, Walked, Sessions
    <3> DEFINE F == {s.first : s \in Sources(e)}
               L == {s.last : s \in Sources(e)}
    <3>3. /\ F \subseteq Int /\ span[e].first \in F
          /\ \A x \in F : span[e].first <= x
      BY <3>1, <3>2 DEF Earliest
    <3>4. /\ L \subseteq Int /\ span[e].last \in L
          /\ \A x \in L : span[e].last >= x
      BY <3>1, <3>2 DEF Latest
    <3> HIDE DEF F, L
    <3>5. span[e].first = Min(F) /\ span[e].last = Max(L)
      BY <3>3, <3>4, Extremes
    <3> QED
      BY <3>5 DEF F, L
  <2> USE DEF alone
  <2> QED
    BY <2>3, <2>5, <2>6 DEF OrderFree
<1> QED
  BY <1>1, BundleInvariant, PTL
-----------------------------------------------------------------------------
(* What the Sightings count.  The sessions behind one are seen by the same *)
(* sensor at the same address, so the hive's count is one for all of them, *)
(* and a session is counted when it is the first of its id.                *)
CountsAll(S, row) ==
  /\ S # {} /\ IsFiniteSet(Events(S))
  /\ row.n \in Nat /\ row.sids = {s.sid : s \in S}
  /\ \A s \in S : FromEs(s) => row.n = Delta(s)
  /\ (\A s \in S : ~FromEs(s)) /\ ToldApart(S) => row.n = Cardinality(Events(S))
  /\ \E s \in S : row.last = s.last
  /\ \A s \in S : s.last <= row.last
Tallied == \A k \in DOMAIN tally : k[1][1] # "url" => CountsAll(Sighting(k), tally[k])

\* What is sighted is an address or its Indicator, of the session's sensor.
LEMMA SightingSeen ==
  ASSUME NEW s, NEW k \in Sightings(s, {})
  PROVE  k[1][1] # "url" /\ k[1][2] \in s.ip /\ k[2] = s.sensor
<1>1. k[1] \in Sighted(s, {}) /\ k[2] = s.sensor
  BY DEF Sightings
<1>2. Anchors(Indicator(s), {}) = Indicator(s)
  BY Kinds
<1>3. k[1] \in Ip(s) \cup Indicator(s)
  BY <1>1, <1>2 DEF Sighted
<1> QED
  BY <1>1, <1>3 DEF Ip, Indicator

\* What a session adds is a number of events, the same for all behind one Sighting
\* where the hive was asked.
LEMMA DeltaKnown ==
  ASSUME NEW s \in Sessions
  PROVE  Delta(s) \in Nat
<1>1. CASE Authoritative(s) # {}
  <2>1. PICK a \in s.ip : <<a, s.sensor>> \in DOMAIN EsCounts
    BY <1>1 DEF Authoritative
  <2>2. \A b \in s.ip : b = a
    BY BundleAssumption DEF Sessions
  <2>3. Authoritative(s) = {EsCounts[<<a, s.sensor>>]}
    BY <2>1, <2>2 DEF Authoritative
  <2>4. EsCounts[<<a, s.sensor>>] \in Nat
    BY <2>1, BundleAssumption
  <2> DEFINE c == EsCounts[<<a, s.sensor>>]
  <2>5. Max({c}) = c
    <3> HIDE DEF c
    <3> QED
      BY <2>4, PairBounds DEF Max
  <2> QED
    BY <1>1, <2>3, <2>4, <2>5 DEF Delta
<1>2. CASE Authoritative(s) = {}
  <2>1. s.n \in Nat
    BY BundleAssumption DEF Sessions
  <2> QED
    BY <1>2, <2>1 DEF Delta
<1> QED
  BY <1>1, <1>2

LEMMA SameHive ==
  ASSUME NEW s \in Sessions, NEW t \in Sessions,
         NEW k \in Sightings(s, {}) \cap Sightings(t, {})
  PROVE  (FromEs(s) <=> FromEs(t)) /\ (FromEs(s) => Delta(s) = Delta(t))
<1>1. k[1][2] \in s.ip /\ k[1][2] \in t.ip /\ s.sensor = t.sensor
  BY SightingSeen
<1>2. s.ip = t.ip
  <2>1. (\A a, b \in s.ip : a = b) /\ (\A a, b \in t.ip : a = b)
    BY BundleAssumption DEF Sessions
  <2> QED
    BY <1>1, <2>1
<1>3. Authoritative(s) = Authoritative(t)
  BY <1>1, <1>2 DEF Authoritative
<1> QED
  BY <1>3 DEF FromEs, Delta

\* The events of one session more.
LEMMA EventsOfOne ==
  ASSUME NEW s \in Sessions
  PROVE  /\ IsFiniteSet({s} \X (1..Delta(s)))
         /\ Cardinality({s} \X (1..Delta(s))) = Delta(s)
<1>1. Delta(s) \in Nat
  BY DeltaKnown
<1> DEFINE d == Delta(s)
<1>2. IsFiniteSet(1..d) /\ Cardinality(1..d) = d
  <2> HIDE DEF d
  <2>1. IsFiniteSet(1..d) /\ Cardinality(1..d) = IF 1 <= d THEN d - 1 + 1 ELSE 0
    BY <1>1, FS_Interval DEF d
  <2> QED
    BY <1>1, <2>1 DEF d
<1>3. IsFiniteSet({s}) /\ Cardinality({s}) = 1
  BY FS_Singleton
<1> HIDE DEF d
<1>4. d \in Nat
  BY <1>1 DEF d
<1>5. \A S, T : IsFiniteSet(S) /\ IsFiniteSet(T) =>
         IsFiniteSet(S \X T) /\ Cardinality(S \X T) = Cardinality(S) * Cardinality(T)
  BY FS_Product
<1> DEFINE J == {s}
           I == 1..d
<1>6. IsFiniteSet(J \X I) /\ Cardinality(J \X I) = Cardinality(J) * Cardinality(I)
  <2> HIDE DEF I, J
  <2> QED
    BY <1>2, <1>3, <1>5 DEF I, J
<1>7. Cardinality(J) * Cardinality(I) = d
  <2>1. Cardinality(J) = 1 /\ Cardinality(I) = d
    BY <1>2, <1>3
  <2> HIDE DEF I, J
  <2> QED
    BY <1>4, <2>1
<1>8. IsFiniteSet(J \X I) /\ Cardinality(J \X I) = d
  <2> HIDE DEF I, J
  <2> QED
    BY <1>6, <1>7
<1> QED
  BY <1>8 DEF d

LEMMA EventsOfMore ==
  ASSUME NEW S, NEW s \in Sessions, s \notin S, IsFiniteSet(Events(S))
  PROVE  /\ IsFiniteSet(Events(S \cup {s}))
         /\ Cardinality(Events(S \cup {s})) = Cardinality(Events(S)) + Delta(s)
         /\ Cardinality(Events(S)) \in Nat
<1> DEFINE A == Events(S)
           B == {s} \X (1..Delta(s))
<1>1. Events(S \cup {s}) = A \cup B
  BY DEF Events
<1>2. A \cap B = {}
  BY DEF Events
<1>3. IsFiniteSet(B) /\ Cardinality(B) = Delta(s)
  BY EventsOfOne
<1>4. Cardinality(A) \in Nat /\ Delta(s) \in Nat
  BY FS_CardinalityType, DeltaKnown
<1> HIDE DEF A, B
<1>5. IsFiniteSet(A \cup B) /\ Cardinality(A \cup B) = Cardinality(A) + Cardinality(B) - Cardinality(A \cap B)
  BY <1>3, FS_Union DEF A
<1>6. Cardinality(A \cap B) = 0
  BY <1>2, FS_EmptySet
<1>7. Cardinality(A \cup B) = Cardinality(A) + Delta(s)
  BY <1>3, <1>4, <1>5, <1>6
<1>8. Cardinality(A) = Cardinality(Events(S))
  BY DEF A
<1> QED
  BY <1>1, <1>4, <1>5, <1>7, <1>8

\* The configuration is fixed, and so is what it makes a row count.
LEMMA CountFixed ==
  ASSUME cfg' = cfg, NEW S, NEW row
  PROVE  CountsAll(S, row)' <=> CountsAll(S, row)
<1>1. \A x : FromEs(x)' <=> FromEs(x)
  BY DEF FromEs, Authoritative
<1>2. \A x : Delta(x)' = Delta(x)
  BY DEF Delta, Authoritative
<1>3. Events(S)' = Events(S)
  BY <1>2 DEF Events
<1> QED
  BY <1>1, <1>2, <1>3 DEF CountsAll, ToldApart

\* A session more behind a Sighting.
LEMMA CountsMore ==
  ASSUME NEW S \in SUBSET Sessions, NEW s \in Sessions \ S, NEW t, NEW k,
         \A x \in S \cup {s} : k \in Sightings(x, {}),
         k \in DOMAIN t => CountsAll(S, t[k]), k \notin DOMAIN t => S = {}
  PROVE  CountsAll(S \cup {s}, Folded(t, k, s))
<1> DEFINE T == S \cup {s}
           row == Folded(t, k, s)
<1>1. Delta(s) \in Nat /\ s.last \in Int /\ \A x \in T : x.last \in Int
  BY DeltaKnown, BundleAssumption DEF Sessions
<1>2. \A x, y \in T : (FromEs(x) <=> FromEs(y)) /\ (FromEs(x) => Delta(x) = Delta(y))
  BY SameHive
<1>3. CASE k \notin DOMAIN t
  <2>1. row = [n |-> Delta(s), first |-> s.first, last |-> s.last, sids |-> {s.sid}]
    BY <1>3 DEF Folded
  <2>2. T = {s}
    BY <1>3
  <2>3. Events({s}) = {s} \X (1..Delta(s))
    BY DEF Events
  <2>4. IsFiniteSet(Events({s})) /\ Cardinality(Events({s})) = Delta(s)
    BY <2>3, EventsOfOne
  <2>5. row.n = Delta(s) /\ row.last = s.last /\ row.sids = {s.sid}
    BY <2>1
  <2> HIDE DEF row
  <2>6. CountsAll({s}, row)
    BY <1>1, <2>4, <2>5 DEF CountsAll
  <2> QED
    BY <2>2, <2>6 DEF row
<1>4. CASE k \in DOMAIN t
  <2> DEFINE old == t[k]
  <2>1. /\ row.n = IF s.sid \in old.sids THEN old.n
                   ELSE IF FromEs(s) THEN Max({old.n, Delta(s)}) ELSE old.n + Delta(s)
        /\ row.last = Max({old.last, s.last}) /\ row.sids = old.sids \cup {s.sid}
    <3>1. row = [n |-> IF s.sid \in old.sids THEN old.n
                       ELSE IF FromEs(s) THEN Max({old.n, Delta(s)}) ELSE old.n + Delta(s),
                 first |-> Min({old.first, s.first}), last |-> Max({old.last, s.last}),
                 sids |-> old.sids \cup {s.sid}]
      BY <1>4 DEF Folded
    <3> HIDE DEF row, old
    <3> QED
      BY <3>1
  <2>2. CountsAll(S, old)
    BY <1>4
  <2> HIDE DEF old, row
  <2>3. IsFiniteSet(Events(T)) /\ Cardinality(Events(T)) = Cardinality(Events(S)) + Delta(s)
    BY <2>2, EventsOfMore DEF CountsAll
  <2>4. old.n \in Nat /\ old.sids = {x.sid : x \in S} /\ S # {}
    BY <2>2 DEF CountsAll
  <2>5. row.sids = {x.sid : x \in T}
    BY <2>1, <2>4
  <2>6. ASSUME FromEs(s) PROVE row.n = Delta(s)
    <3>1. old.n = Delta(s)
      BY <1>2, <2>2, <2>4, <2>6 DEF CountsAll
    <3>2. \A d \in Int : Max({d, d}) = d
      BY PairBounds
    <3>3. Max({old.n, Delta(s)}) = Delta(s)
      BY <1>1, <3>1, <3>2
    <3> QED
      BY <2>1, <2>6, <3>1, <3>3
  <2>7. ASSUME ~FromEs(s), ToldApart(T) PROVE row.n = Cardinality(Events(T))
    <3>1. s.sid \notin old.sids
      BY <2>4, <2>7 DEF ToldApart
    <3>2. ToldApart(S) /\ \A x \in S : ~FromEs(x)
      BY <1>2, <2>7 DEF ToldApart
    <3>3. old.n = Cardinality(Events(S))
      BY <2>2, <3>2 DEF CountsAll
    <3> QED
      BY <2>1, <2>3, <2>7, <3>1, <3>3
  <2>8. row.n \in Nat
    <3>1. CASE FromEs(s)
      BY <1>1, <2>6, <3>1
    <3>2. CASE ~FromEs(s)
      BY <1>1, <2>1, <2>4, <3>2
    <3> QED
      BY <3>1, <3>2
  <2>9. (\E x \in T : row.last = x.last) /\ \A x \in T : x.last <= row.last
    <3>1. PICK y \in S : old.last = y.last
      BY <2>2 DEF CountsAll
    <3>2. \A x \in S : x.last <= old.last
      BY <2>2 DEF CountsAll
    <3>9. old.last \in Int /\ s.last \in Int
      BY <1>1, <3>1
    <3>3. row.last \in {old.last, s.last} /\ row.last >= old.last /\ row.last >= s.last
      <4> DEFINE a == old.last
                 b == s.last
      <4>1. Max({a, b}) \in {a, b} /\ Max({a, b}) >= a /\ Max({a, b}) >= b
        <5> HIDE DEF a, b
        <5> QED
          BY <3>9, PairBounds DEF a, b
      <4> QED
        BY <2>1, <4>1
    <3>4. \A x \in S : x.last <= row.last
      BY <1>1, <3>9, <3>2, <3>3
    <3>5. \E x \in T : row.last = x.last
      BY <3>1, <3>3
    <3>6. \A x \in T : x.last <= row.last
      BY <3>3, <3>4
    <3> QED
      BY <3>5, <3>6
  <2>10. \A x \in T : FromEs(x) => row.n = Delta(x)
    BY <1>2, <2>6
  <2> QED
    BY <2>3, <2>5, <2>7, <2>8, <2>9, <2>10 DEF CountsAll, row
<1> QED
  BY <1>3, <1>4

LEMMA TallyJoins ==
  ASSUME BundleInv, Tallied, NEW s, NEW K, Joins(s, K), s \notin built,
         \/ s \notin Salvaged /\ K = Sightings(s, {})
         \/ s \in Salvaged /\ K = SalvageSights(s)
  PROVE  Tallied'
<1>1. /\ cfg' = cfg /\ s \in Sessions \cup Salvaged /\ built' = built \cup {s}
      /\ built \ Salvaged \subseteq Sessions
  BY DEF Joins, BundleInv, Walked
<1>2. tally' = [k \in DOMAIN tally \cup K |-> IF k \in K THEN Folded(tally, k, s) ELSE tally[k]]
  BY DEF FoldAll, Joins
<1>3. \A x : Sightings(x, {})' = Sightings(x, {})
  BY <1>1, FixedForCycle
<1> SUFFICES ASSUME NEW k \in DOMAIN tally', k[1][1] # "url"
             PROVE  CountsAll(Sighting(k), tally[k])'
  BY DEF Tallied
<1> DEFINE S == Sighting(k)
<1>4. Sighting(k)' = IF k \in K THEN S \cup {s} ELSE S
  <2>1. Sighting(k)' = {x \in (built \cup {s}) \ Salvaged : k \in Sightings(x, {})}
    BY <1>1, <1>3 DEF Sighting
  <2>2. CASE s \in Salvaged
    <3>1. k \notin K
      BY <2>2, SightsHeld, <1>1
    <3> QED
      BY <2>1, <2>2, <3>1 DEF Sighting
  <2>3. CASE s \notin Salvaged
    BY <2>1, <2>3 DEF Sighting
  <2> QED
    BY <2>2, <2>3
<1>5. \A T, row : T = Sighting(k)' /\ row = tally'[k] /\ CountsAll(T, row) => CountsAll(Sighting(k), tally[k])'
  <2> TAKE T, row
  <2>1. CountsAll(T, row)' <=> CountsAll(T, row)
    BY <1>1, CountFixed
  <2> QED
    BY <2>1 DEF CountsAll, Events, ToldApart
<1>6. CASE k \notin K
  <2>1. tally'[k] = tally[k] /\ k \in DOMAIN tally
    BY <1>2, <1>6
  <2>2. CountsAll(S, tally[k])
    BY <2>1 DEF Tallied
  <2> QED
    BY <1>4, <1>5, <1>6, <2>1, <2>2
<1>7. CASE k \in K
  <2>1. s \notin Salvaged /\ s \in Sessions /\ k \in Sightings(s, {})
    BY <1>1, <1>7, SightsHeld
  <2>2. tally'[k] = Folded(tally, k, s)
    BY <1>2, <1>7
  <2>3. S \in SUBSET Sessions /\ s \notin S /\ \A x \in S \cup {s} : k \in Sightings(x, {})
    BY <1>1, <2>1 DEF Sighting
  <2>4. k \in DOMAIN tally => CountsAll(S, tally[k])
    BY DEF Tallied
  <2>5. k \notin DOMAIN tally => S = {}
    BY DEF BundleInv, Seen, Sighting
  <2> HIDE DEF S
  <2>6. CountsAll(S \cup {s}, Folded(tally, k, s))
    BY <2>1, <2>3, <2>4, <2>5, CountsMore
  <2> QED
    BY <1>4, <1>5, <1>7, <2>2, <2>6
<1> QED
  BY <1>6, <1>7

LEMMA TallyStays ==
  ASSUME Tallied, cfg' = cfg, built' = built,
         DOMAIN tally' = DOMAIN tally, \A k \in DOMAIN tally : tally'[k] = tally[k]
  PROVE  Tallied'
<1>1. \A k : Sighting(k)' = Sighting(k)
  BY FixedForCycle DEF Sighting
<1> SUFFICES ASSUME NEW k \in DOMAIN tally, k[1][1] # "url"
             PROVE  CountsAll(Sighting(k), tally[k])'
  BY DEF Tallied
<1>2. \A T, row : T = Sighting(k)' /\ row = tally'[k] /\ CountsAll(T, row) => CountsAll(Sighting(k), tally[k])'
  <2> TAKE T, row
  <2>1. CountsAll(T, row)' <=> CountsAll(T, row)
    BY CountFixed
  <2> QED
    BY <2>1 DEF CountsAll, Events, ToldApart
<1>3. CountsAll(Sighting(k), tally[k])
  BY DEF Tallied
<1> QED
  BY <1>1, <1>2, <1>3

LEMMA TallyStep == BundleInv /\ Tallied /\ [BundleNext]_bundleVars => Tallied'
<1> SUFFICES ASSUME BundleInv, Tallied, [BundleNext]_bundleVars PROVE Tallied'
  OBVIOUS
<1>1. ASSUME NEW s \in pending, Skip(s) PROVE Tallied'
  BY <1>1, TallyStays DEF Skip
<1>2. ASSUME NEW s \in pending, Build(s) PROVE Tallied'
  <2>1. s \notin built
    BY DEF BundleInv, Walked
  <2> QED
    BY <1>2, <2>1, BuildJoins, TallyJoins
<1>3. ASSUME NEW s \in pending, BuildFails(s) PROVE Tallied'
  <2>1. PICK g : Loses(s, g)
    BY <1>3, BuildFailsLoses
  <2> QED
    BY <2>1, TallyStays DEF Loses
<1>4. ASSUME NEW s \in Salvaged, Salvage(s) PROVE Tallied'
  <2>1. s \notin built
    BY <1>4 DEF Salvage
  <2> QED
    BY <1>4, <2>1, SalvageJoins, TallyJoins
<1>5. CASE CredentialNotes
  BY <1>5, TallyStays DEF CredentialNotes
<1>6. CASE Finalize
  BY <1>6, TallyStays DEF Finalize
<1>7. CASE Done \/ UNCHANGED bundleVars
  BY <1>7, TallyStays DEF Done, bundleVars
<1> QED
  BY <1>1, <1>2, <1>3, <1>4, <1>5, <1>6, <1>7 DEF BundleNext

\* A Sighting counts its window once: what the hive counted, or every event of
\* every session behind it, whatever the order in which they were folded
\* (_merge_or_emit_sighting).
THEOREM WindowCountedOnce == BundleSpec => []CountsWindowOnce
<1>1. BundleInit => Tallied
  BY DEF BundleInit, Tallied
<1>2. BundleInv /\ Tallied => CountsWindowOnce
  <2> SUFFICES ASSUME BundleInv, Tallied, phase = "final", NEW k \in objects.sights,
                      Sighting(k) # {}
               PROVE  /\ \A s \in Sighting(k) : FromEs(s) => tally[k].n = Delta(s)
                      /\ (\A s \in Sighting(k) : ~FromEs(s)) /\ ToldApart(Sighting(k))
                           => tally[k].n = Cardinality(Events(Sighting(k)))
                      /\ tally[k].last = Max({s.last : s \in Sighting(k)})
    BY DEF CountsWindowOnce
  <2>1. PICK s \in Sighting(k) : TRUE
    OBVIOUS
  <2>2. k \in Sightings(s, {}) /\ k \in DOMAIN tally
    BY DEF Sighting, BundleInv, Seen
  <2>3. CountsAll(Sighting(k), tally[k])
    BY <2>2, SightingSeen DEF Tallied
  <2> DEFINE L == {x.last : x \in Sighting(k)}
             m == tally[k].last
  <2>4. L \subseteq Int
    BY BundleAssumption DEF Sighting, BundleInv, Walked, Sessions
  <2>5. m \in L /\ \A x \in L : m >= x
    BY <2>3, <2>4 DEF CountsAll
  <2>6. m = Max(L)
    <3> HIDE DEF L, m
    <3> QED
      BY <2>4, <2>5, Extremes
  <2> QED
    BY <2>3, <2>6 DEF CountsAll
<1> QED
  BY <1>1, <1>2, TallyStep, BundleInvInit, BundleInvStep, PTL DEF BundleSpec

-------------------------------------------------------------------------------
(* What /health says of the cycles.                                        *)

HealthRow == [ended : Nat \cup {None}, took : Nat, ok : BOOLEAN]
Busy == step \in {"stream", "build", "publish"}

HealthTypes ==
  /\ {clock, since, began, wake, started} \subseteq Nat
  /\ step \in {"down", "asleep", "stream", "build", "publish"}
  /\ rows \in Seq(HealthRow) /\ Len(rows) <= Recent
  /\ {heartbeat, success, longest} \subseteq Nat \cup {None}
  /\ unended \in 0..MaxUnended
  /\ since <= clock /\ began <= clock /\ success <= clock

\* The rows of a cycle under way, of a success, and their lengths.
OnRecord ==
  /\ Busy => rows # <<>> /\ ~Ended(rows[1]) /\ ~rows[1].ok
  /\ success # None => rows # <<>>
  /\ \A i \in DOMAIN rows :
       /\ rows[i].ok => Ended(rows[i]) /\ rows[i].ended <= success
       /\ rows[i].took = 0 \/ rows[i].took <= longest

\* Once a cycle has ended, the rows show one that has: the rows above it are
\* those of cycles without an end and of the cycle under way.
Retained ==
  longest # None =>
    \E i \in DOMAIN rows :
      Ended(rows[i]) /\ i <= 2 + unended /\ (Busy \/ i <= 1 + unended)

Pause(took) == Larger(Breath, Interval - took)

Timely ==
  /\ rows # <<>> /\ rows[1].ok => rows[1].ended = success
  /\ step = "asleep" /\ rows # <<>> /\ rows[1].ok /\ started <= success =>
       clock <= wake /\ wake <= success + Pause(rows[1].took)
  /\ Busy /\ Len(rows) > 1 /\ rows[2].ok =>
       /\ rows[2].ended = success
       /\ started <= success => began <= success + Pause(rows[2].took)

Beating ==
  /\ step = "stream" => heartbeat = clock
  /\ step = "build" => heartbeat = since /\ clock - since <= MaxBuild
  /\ step = "publish" => heartbeat # None /\ clock - heartbeat <= MaxBuild

HealthInv == HealthTypes /\ OnRecord /\ Timely /\ Beating

Blank == [ended |-> None, took |-> 0, ok |-> FALSE]

LEMMA RowsTyped ==
  ASSUME NEW log \in Seq(HealthRow), NEW i \in DOMAIN log
  PROVE  /\ i \in Nat \ {0} /\ i <= Len(log) /\ log[i] \in HealthRow
         /\ log[i].took \in Nat /\ log[i].ok \in BOOLEAN /\ log[i].ended \in Nat \cup {None}
<1>1. i \in 1..Len(log) /\ Len(log) \in Nat
  OBVIOUS
<1>2. log[i] \in HealthRow
  BY <1>1
<1> QED
  BY <1>1, <1>2 DEF HealthRow

\* What start_cycle leaves of the rows: the new one on top, and below it those
\* before it, as many as recent_cycles returns.
LEMMA NewestRows ==
  ASSUME NEW log \in Seq(HealthRow), Len(log) <= Recent
  PROVE  LET new == Newest(<<Blank>> \o log) IN
         /\ new \in Seq(HealthRow) /\ new # <<>> /\ Len(new) <= Recent
         /\ new[1] = Blank
         /\ \A i \in DOMAIN new : i # 1 => i - 1 \in DOMAIN log /\ new[i] = log[i - 1]
         /\ \A i \in DOMAIN log : i + 1 <= Recent => i + 1 \in DOMAIN new /\ new[i + 1] = log[i]
<1> DEFINE all == <<Blank>> \o log
           n == IF Len(all) < Recent THEN Len(all) ELSE Recent
<1>1. Blank \in HealthRow
  BY DEF Blank, HealthRow, None
<1>2. all \in Seq(HealthRow) /\ Len(all) = Len(log) + 1 /\ Len(log) \in Nat
  BY <1>1
<1>3. all[1] = Blank /\ \A i \in 1..Len(log) : all[i + 1] = log[i]
  BY <1>2
<1>4. n \in 1..Len(all) /\ n <= Recent /\ n \in Nat
  BY <1>2, HealthAssumption
<1>5. \A i \in 1..Len(log) : i + 1 <= Recent => i + 1 <= n
  BY <1>2, HealthAssumption
<1>6. Newest(all) = SubSeq(all, 1, n)
  BY DEF Newest
<1> HIDE DEF all, n
<1>7. SubSeq(all, 1, n) \in Seq(HealthRow) /\ Len(SubSeq(all, 1, n)) = n
  BY <1>2, <1>4
<1>8. \A i \in 1..n : SubSeq(all, 1, n)[i] = all[i]
  BY <1>2, <1>4
<1>9. DOMAIN SubSeq(all, 1, n) = 1..n /\ DOMAIN log = 1..Len(log)
  BY <1>7
<1>10. \A i \in 1..n : i # 1 => i - 1 \in 1..Len(log) /\ all[i] = log[i - 1]
  <2> SUFFICES ASSUME NEW i \in 1..n, i # 1 PROVE i - 1 \in 1..Len(log) /\ all[i] = log[i - 1]
    OBVIOUS
  <2>1. i - 1 \in 1..Len(log) /\ (i - 1) + 1 = i
    BY <1>2, <1>4
  <2> QED
    BY <2>1, <1>3
<1> DEFINE new == SubSeq(all, 1, n)
<1> HIDE DEF new
<1>11. new \in Seq(HealthRow) /\ Len(new) <= Recent /\ new # <<>> /\ new[1] = Blank
  <2>1. new \in Seq(HealthRow) /\ Len(new) = n
    BY <1>7 DEF new
  <2>2. new[1] = Blank
    BY <1>3, <1>4, <1>8 DEF new
  <2> QED
    BY <2>1, <2>2, <1>4
<1>12. \A i \in DOMAIN new : i # 1 => i - 1 \in DOMAIN log /\ new[i] = log[i - 1]
  BY <1>8, <1>9, <1>10 DEF new
<1>13. \A i \in DOMAIN log : i + 1 <= Recent => i + 1 \in DOMAIN new /\ new[i + 1] = log[i]
  <2> SUFFICES ASSUME NEW i \in DOMAIN log, i + 1 <= Recent
               PROVE  i + 1 \in DOMAIN new /\ new[i + 1] = log[i]
    OBVIOUS
  <2>1. i \in 1..Len(log) /\ i + 1 <= n /\ i + 1 \in 1..n
    BY <1>2, <1>4, <1>5, <1>9
  <2> QED
    BY <2>1, <1>3, <1>8, <1>9 DEF new
<1>14. Newest(all) = new
  BY <1>6 DEF new
<1> QED
  BY <1>11, <1>12, <1>13, <1>14 DEF all

\* What record_cycle leaves of them: the topmost changed.
LEMMA RowRecorded ==
  ASSUME NEW log \in Seq(HealthRow), log # <<>>, NEW row \in HealthRow
  PROVE  LET new == [log EXCEPT ![1] = row] IN
         /\ new \in Seq(HealthRow) /\ new # <<>> /\ Len(new) = Len(log)
         /\ DOMAIN new = DOMAIN log /\ 1 \in DOMAIN log /\ new[1] = row
         /\ \A i \in DOMAIN log : i # 1 => new[i] = log[i]
<1>1. Len(log) \in Nat \ {0} /\ DOMAIN log = 1..Len(log)
  OBVIOUS
<1> DEFINE new == [log EXCEPT ![1] = row]
<1>2. DOMAIN new = 1..Len(log) /\ new[1] = row /\ \A i \in 1..Len(log) : i # 1 => new[i] = log[i]
  BY <1>1
<1>3. \A i \in 1..Len(log) : new[i] \in HealthRow
  BY <1>1, <1>2
<1>4. new = [i \in 1..Len(log) |-> new[i]]
  BY <1>2
<1>5. new \in Seq(HealthRow) /\ Len(new) = Len(log)
  <2> HIDE DEF new
  <2>1. new \in [1..Len(log) -> HealthRow]
    BY <1>3, <1>4
  <2> QED
    BY <1>1, <2>1
<1> QED
  BY <1>1, <1>2, <1>5

LEMMA HealthStarts == HealthInit => HealthInv /\ Retained
<1> SUFFICES ASSUME HealthInit PROVE HealthInv /\ Retained
  OBVIOUS
<1> USE HealthAssumption DEF HealthInit, None
<1>1. HealthTypes
  <2>1. rows \in Seq(HealthRow) /\ Len(rows) = 0
    OBVIOUS
  <2> QED
    BY <2>1 DEF HealthTypes
<1>2. OnRecord /\ Retained /\ Timely /\ Beating
  BY DEF OnRecord, Retained, Timely, Beating, Busy
<1> QED
  BY <1>1, <1>2 DEF HealthInv

\* What the proofs need of the types, one fact at a time.
LEMMA HealthFacts ==
  ASSUME HealthTypes
  PROVE  /\ clock \in Nat /\ since \in Nat /\ began \in Nat /\ wake \in Nat /\ started \in Nat
         /\ rows \in Seq(HealthRow) /\ Len(rows) \in Nat /\ Len(rows) <= Recent
         /\ DOMAIN rows = 1..Len(rows)
         /\ heartbeat \in Nat \cup {-1} /\ success \in Nat \cup {-1} /\ longest \in Nat \cup {-1}
         /\ unended \in Nat /\ unended <= MaxUnended
         /\ since <= clock /\ began <= clock /\ success <= clock
         /\ Recent \in Nat /\ Recent >= 2 /\ MaxUnended \in Nat /\ MaxBuild \in Nat
         /\ Interval \in Nat /\ Breath \in Nat /\ Breath <= Interval /\ Interval >= 1
         /\ \A t \in Nat : Pause(t) \in Nat
<1>1. \A t \in Nat : Pause(t) \in Nat
  BY HealthAssumption DEF Pause, Larger
<1>2. rows \in Seq(HealthRow) /\ Len(rows) <= Recent
  BY DEF HealthTypes
<1>3. Len(rows) \in Nat /\ DOMAIN rows = 1..Len(rows)
  BY <1>2
<1>4. clock \in Nat /\ since \in Nat /\ began \in Nat /\ wake \in Nat /\ started \in Nat
  BY DEF HealthTypes
<1>5. heartbeat \in Nat \cup {-1} /\ success \in Nat \cup {-1} /\ longest \in Nat \cup {-1}
  BY DEF HealthTypes, None
<1>6. /\ unended \in Nat /\ unended <= MaxUnended
      /\ since <= clock /\ began <= clock /\ success <= clock
  BY HealthAssumption DEF HealthTypes
<1>7. Recent \in Nat /\ Recent >= 2 /\ MaxUnended \in Nat /\ MaxBuild \in Nat
  BY HealthAssumption
<1>8. Interval \in Nat /\ Breath \in Nat /\ Breath <= Interval /\ Interval >= 1
  BY HealthAssumption
<1> QED
  BY <1>1, <1>2, <1>3, <1>4, <1>5, <1>6, <1>7, <1>8

\* A step that leaves the rows alone, and what really happened.
LEMMA RowsKept ==
  ASSUME OnRecord, rows' = rows, success' = success, longest' = longest,
         Busy' => Busy
  PROVE  OnRecord'
BY DEF OnRecord, Ended

LEMMA StillRetained ==
  ASSUME HealthTypes, Retained, rows' = rows, longest' = longest,
         unended' \in Nat, unended' >= unended, Busy => Busy' \/ unended' > unended
  PROVE  Retained'
<1> SUFFICES ASSUME longest' # None
             PROVE  \E i \in DOMAIN rows' :
                      Ended(rows'[i]) /\ i <= 2 + unended' /\ (Busy' \/ i <= 1 + unended')
  BY DEF Retained, Ended
<1>1. PICK i \in DOMAIN rows : Ended(rows[i]) /\ i <= 2 + unended /\ (Busy \/ i <= 1 + unended)
  BY DEF Retained
<1>2. i \in Nat /\ unended \in Nat
  BY HealthFacts
<1>3. i <= 2 + unended'
  BY <1>1, <1>2
<1>4. Busy' \/ i <= 1 + unended'
  BY <1>1, <1>2
<1> QED
  BY <1>1, <1>3, <1>4 DEF Ended

\* What the end of a cycle records (record_cycle, record_cycle_failure).
LEMMA RecordKeeps ==
  ASSUME HealthTypes, OnRecord, Busy, NEW ok \in BOOLEAN, Record(ok), Sleep, clock' = clock
  PROVE  /\ rows' \in Seq(HealthRow) /\ Len(rows') <= Recent
         /\ success' \in Nat \cup {-1} /\ success' <= clock
         /\ longest' \in Nat /\ unended' = 0
         /\ OnRecord' /\ Retained' /\ Timely'
<1> DEFINE took == clock - began
           row  == [ended |-> clock, took |-> took, ok |-> ok]
<1>0. /\ clock \in Nat /\ began \in Nat /\ began <= clock
      /\ success \in Nat \cup {-1} /\ success <= clock /\ longest \in Nat \cup {-1}
      /\ rows \in Seq(HealthRow) /\ Len(rows) <= Recent
      /\ \A t \in Nat : Pause(t) \in Nat
  BY HealthFacts
<1>1. took \in Nat /\ clock \in Nat /\ clock # None
  BY <1>0 DEF None
<1>2. row \in HealthRow
  BY <1>1 DEF HealthRow
<1>3. rows # <<>>
  BY DEF OnRecord
<1>4. rows' = [rows EXCEPT ![1] = row]
  BY DEF Record
<1>5. /\ success' = IF ok THEN clock ELSE success
      /\ longest' = Larger(longest, took) /\ unended' = 0
  BY DEF Record
<1>6. row.ended = clock /\ row.took = took /\ row.ok = ok
  OBVIOUS
<1> HIDE DEF took, row
<1>7. /\ rows' \in Seq(HealthRow) /\ rows' # <<>> /\ Len(rows') = Len(rows)
      /\ DOMAIN rows' = DOMAIN rows /\ 1 \in DOMAIN rows /\ rows'[1] = row
      /\ \A i \in DOMAIN rows : i # 1 => rows'[i] = rows[i]
  BY <1>0, <1>2, <1>3, <1>4, RowRecorded
<1>8. longest' \in Nat /\ longest' >= took /\ longest' >= longest
  BY <1>0, <1>1, <1>5 DEF Larger
<1>9. success' \in Nat \cup {-1} /\ success' <= clock /\ success' >= success /\ (ok => success' = clock)
  BY <1>0, <1>5
<1>10. ~Busy' /\ step' = "asleep"
  BY DEF Sleep, Enter, Busy
<1>11. OnRecord'
  <2>1. \A n \in Nat \cup {-1} : n <= success => n <= success'
    BY <1>0, <1>9
  <2>2. \A n \in Nat : n <= longest => n <= longest'
    BY <1>0, <1>8
  <2>3. ASSUME NEW i \in DOMAIN rows'
        PROVE  /\ rows'[i].ok => rows'[i].ended # None /\ rows'[i].ended <= success'
               /\ rows'[i].took = 0 \/ rows'[i].took <= longest'
    <3>1. CASE i = 1
      BY <3>1, <1>1, <1>6, <1>7, <1>8, <1>9
    <3>2. CASE i # 1
      <4>1. rows'[i] = rows[i] /\ i \in DOMAIN rows
        BY <3>2, <1>7
      <4>2. rows[i].took \in Nat /\ rows[i].ended \in Nat \cup {None}
        BY <1>0, <4>1, RowsTyped
      <4>3. /\ rows[i].ok => rows[i].ended # None /\ rows[i].ended <= success
            /\ rows[i].took = 0 \/ rows[i].took <= longest
        BY <4>1 DEF OnRecord, Ended
      <4>4. rows[i].ended <= success => rows[i].ended <= success'
        BY <4>2, <2>1 DEF None
      <4>5. rows[i].took <= longest => rows[i].took <= longest'
        BY <4>2, <2>2
      <4> QED
        BY <4>1, <4>3, <4>4, <4>5
    <3> QED
      BY <3>1, <3>2
  <2> QED
    BY <2>3, <1>7, <1>10 DEF OnRecord, Ended
<1>12. Retained'
  <2>1. 1 <= 2 + unended' /\ 1 <= 1 + unended'
    BY <1>5
  <2>2. rows'[1].ended # None /\ 1 \in DOMAIN rows'
    BY <1>1, <1>6, <1>7
  <2> QED
    BY <2>1, <2>2 DEF Retained, Ended
<1>13. Timely'
  <2>1. rows'[1].ok = ok /\ rows'[1].ended = clock /\ rows'[1].took = took
    BY <1>6, <1>7
  <2>2. wake' = clock + Pause(took) /\ Pause(took) \in Nat
      <3>1. wake' = clock + Larger(Breath, Interval - (clock - began))
      BY DEF Sleep, Enter
    <3> QED
      BY <1>0, <1>1, <3>1 DEF Pause, took
  <2>3. rows'[1].ok => clock' <= wake' /\ wake' <= success' + Pause(rows'[1].took)
    <3>1. clock <= clock + Pause(took)
      BY <1>1, <2>2
    <3> QED
      BY <1>9, <2>1, <2>2, <3>1
  <2>4. rows'[1].ok => rows'[1].ended = success'
    BY <1>9, <2>1
  <2> QED
    BY <2>3, <2>4, <1>10 DEF Timely, Pause
<1> QED
  BY <1>0, <1>5, <1>7, <1>8, <1>9, <1>11, <1>12, <1>13

\* The start of a cycle (start_cycle): the rows move down by one.
LEMMA StartKeeps ==
  ASSUME HealthInv, StartCycle
  PROVE  /\ rows' \in Seq(HealthRow) /\ Len(rows') <= Recent
         /\ OnRecord' /\ Timely'
         /\ MaxUnended + 2 <= Recent /\ Retained => Retained'
<1>0. /\ clock \in Nat /\ wake \in Nat /\ Recent \in Nat /\ Recent >= 2
      /\ MaxUnended \in Nat /\ unended \in Nat /\ unended <= MaxUnended
      /\ rows \in Seq(HealthRow) /\ Len(rows) <= Recent /\ DOMAIN rows = 1..Len(rows)
      /\ Len(rows) \in Nat /\ HealthTypes /\ OnRecord /\ Timely
  BY HealthFacts DEF HealthInv
<1>1. /\ step = "asleep" /\ clock = wake /\ step' = "stream" /\ began' = clock
      /\ rows' = Newest(<<Blank>> \o rows) /\ heartbeat' = clock
      /\ UNCHANGED <<clock, started, success, longest, unended>>
  BY DEF StartCycle, Enter, Blank, truth
<1>2. /\ rows' \in Seq(HealthRow) /\ rows' # <<>> /\ Len(rows') <= Recent
      /\ rows'[1] = Blank
      /\ \A i \in DOMAIN rows' : i # 1 => i - 1 \in DOMAIN rows /\ rows'[i] = rows[i - 1]
      /\ \A i \in DOMAIN rows : i + 1 <= Recent => i + 1 \in DOMAIN rows' /\ rows'[i + 1] = rows[i]
  BY <1>0, <1>1, NewestRows
<1>3. Blank.ended = None /\ Blank.took = 0 /\ Blank.ok = FALSE
  BY DEF Blank
<1>4. Busy' /\ ~Busy
  BY <1>1 DEF Busy
<1>5. OnRecord'
  <2>1. ASSUME NEW i \in DOMAIN rows'
        PROVE  /\ rows'[i].ok => rows'[i].ended # None /\ rows'[i].ended <= success'
               /\ rows'[i].took = 0 \/ rows'[i].took <= longest'
    <3>1. CASE i = 1
      BY <3>1, <1>2, <1>3
    <3>2. CASE i # 1
      <4>1. i - 1 \in DOMAIN rows /\ rows'[i] = rows[i - 1]
        BY <3>2, <1>2
      <4>2. /\ rows[i - 1].ok => rows[i - 1].ended # None /\ rows[i - 1].ended <= success
            /\ rows[i - 1].took = 0 \/ rows[i - 1].took <= longest
        BY <4>1, <1>0 DEF OnRecord, Ended
      <4> QED
        BY <4>1, <4>2, <1>1
    <3> QED
      BY <3>1, <3>2
  <2> QED
    BY <2>1, <1>2, <1>3, <1>4 DEF OnRecord, Ended
<1>6. Timely'
  <2>1. ASSUME Len(rows') > 1, rows'[2].ok
        PROVE  /\ rows'[2].ended = success'
               /\ started' <= success' => began' <= success' + Pause(rows'[2].took)
    <3>1. 2 \in DOMAIN rows'
      BY <1>2, <2>1
    <3>2. 1 \in DOMAIN rows /\ rows'[2] = rows[1]
      BY <1>2, <3>1
    <3>3. rows # <<>>
      BY <1>0, <3>2
    <3>4. /\ rows[1].ended = success
          /\ started <= success => wake <= success + Pause(rows[1].took)
      BY <1>0, <1>1, <2>1, <3>2, <3>3 DEF Timely
    <3> QED
      BY <3>2, <3>4, <1>1
  <2> QED
    BY <2>1, <1>1, <1>2, <1>3 DEF Timely, Pause
<1>7. ASSUME MaxUnended + 2 <= Recent, Retained PROVE Retained'
  <2> SUFFICES ASSUME longest # None
               PROVE  \E i \in DOMAIN rows' : Ended(rows'[i]) /\ i <= 2 + unended
    BY <1>1, <1>4 DEF Retained, Ended
  <2>1. PICK i \in DOMAIN rows : Ended(rows[i]) /\ i <= 1 + unended
    BY <1>4, <1>7 DEF Retained
  <2>2. i \in Nat /\ i + 1 <= Recent /\ i + 1 <= 2 + unended
    BY <1>0, <1>7, <2>1
  <2>3. i + 1 \in DOMAIN rows' /\ rows'[i + 1] = rows[i]
    BY <1>2, <2>2
  <2> QED
    BY <2>1, <2>2, <2>3
<1> QED
  BY <1>2, <1>5, <1>6, <1>7

\* Steps that leave the rows alone keep what is said of them, unless a cycle
\* starts or a sleep does.
LEMMA TimelyKept ==
  ASSUME HealthTypes, Timely, rows' = rows, success' = success,
         step' = "asleep" => \/ rows # <<>> => ~rows[1].ok
                             \/ step = "asleep" /\ clock' <= wake' /\ wake' = wake /\ started' = started,
         Busy' => Busy /\ began' = began /\ started' = started
  PROVE  Timely'
<1>1. step' = "asleep" /\ rows # <<>> /\ rows[1].ok /\ started' <= success =>
        clock' <= wake' /\ wake' <= success + Pause(rows[1].took)
  BY DEF Timely
<1>2. Busy' /\ Len(rows) > 1 /\ rows[2].ok =>
        /\ rows[2].ended = success
        /\ started' <= success => began' <= success + Pause(rows[2].took)
  BY DEF Timely
<1>3. rows # <<>> /\ rows[1].ok => rows[1].ended = success
  BY DEF Timely
<1> QED
  BY <1>1, <1>2, <1>3 DEF Timely, Pause

\* The types, but for the rows and what is recorded with them.
LEMMA HealthTypesKept ==
  ASSUME HealthTypes, HealthNext,
         rows' \in Seq(HealthRow), Len(rows') <= Recent,
         success' \in Nat \cup {-1}, success' <= clock, longest' \in Nat \cup {-1}
  PROVE  HealthTypes'
<1>0. /\ clock \in Nat /\ since \in Nat /\ began \in Nat /\ wake \in Nat /\ started \in Nat
      /\ heartbeat \in Nat \cup {-1} /\ unended \in Nat /\ unended <= MaxUnended
      /\ since <= clock /\ began <= clock /\ MaxUnended \in Nat
      /\ step \in {"down", "asleep", "stream", "build", "publish"}
  BY HealthFacts DEF HealthTypes
<1>1. clock' \in Nat /\ clock' >= clock
  <2>1. clock' = clock \/ clock' = clock + 1
    BY DEF HealthNext, Elapse, StartProcess, StartCycle, StreamFails, StreamEnds, Built,
           Published, Raise, Dies
  <2> QED
    BY <1>0, <2>1
<1>2. heartbeat' \in Nat \cup {-1}
  <2>1. heartbeat' \in {heartbeat, clock, clock'}
    BY DEF HealthNext, Elapse, StartProcess, StartCycle, StreamFails, StreamEnds, Built,
           Published, Raise, Dies
  <2> QED
    BY <1>0, <1>1, <2>1
<1>3. unended' \in Nat /\ unended' <= MaxUnended
  <2>1. unended' \in {0, unended} \/ (unended < MaxUnended /\ unended' = unended + 1)
    BY DEF HealthNext, Elapse, StartProcess, StartCycle, StreamFails, StreamEnds, Built,
           Published, Raise, Dies, Record, truth
  <2> QED
    BY <1>0, <2>1
<1>4. clock + Larger(Breath, Interval - (clock - began)) \in Nat
  <2>1. Interval \in Nat /\ Breath \in Nat
    BY HealthAssumption
  <2> QED
    BY <1>0, <2>1 DEF Larger
<1>5. /\ step' \in {"down", "asleep", "stream", "build", "publish"}
      /\ since' \in Nat /\ since' <= clock' /\ began' \in Nat /\ began' <= clock'
      /\ wake' \in Nat /\ started' \in Nat
  <2>1. CASE Elapse
    BY <1>0, <1>1, <2>1 DEF Elapse, process
  <2>2. CASE StartProcess \/ StartCycle \/ StreamEnds \/ Built \/ Dies
    BY <1>0, <1>1, <2>2 DEF StartProcess, StartCycle, StreamEnds, Built, Dies, Enter
  <2>3. CASE StreamFails \/ (\E ok \in BOOLEAN : Published(ok)) \/ Raise
    <3>1. Sleep
      BY <2>3 DEF StreamFails, Published, Raise
    <3> QED
      BY <1>0, <1>1, <1>4, <3>1 DEF Sleep, Enter
  <2> QED
    BY <2>1, <2>2, <2>3 DEF HealthNext
<1>6. success' <= clock' /\ Len(rows') <= Recent
  BY <1>0, <1>1
<1> QED
  BY <1>1, <1>2, <1>3, <1>5, <1>6 DEF HealthTypes, None

LEMMA HealthStep ==
  ASSUME HealthInv, HealthNext
  PROVE  HealthInv' /\ (MaxUnended + 2 <= Recent /\ Retained => Retained')
<1>0. HealthTypes /\ OnRecord /\ Timely /\ Beating
  BY DEF HealthInv
<1>1. /\ clock \in Nat /\ wake \in Nat /\ since \in Nat /\ unended \in Nat
      /\ rows \in Seq(HealthRow) /\ Len(rows) <= Recent
      /\ success \in Nat \cup {-1} /\ success <= clock /\ longest \in Nat \cup {-1}
      /\ heartbeat \in Nat \cup {-1} /\ MaxBuild \in Nat
  BY <1>0, HealthFacts
<1>2. CASE StartCycle
  <2>1. UNCHANGED <<clock, success, longest>> /\ step' = "stream" /\ heartbeat' = clock
    BY <1>2 DEF StartCycle, Enter, truth
  <2>2. HealthTypes'
    BY <1>0, <1>1, <1>2, <2>1, StartKeeps, HealthTypesKept
  <2>3. Beating'
    BY <2>1 DEF Beating
  <2> QED
    BY <1>2, <2>2, <2>3, StartKeeps DEF HealthInv
<1>3. ASSUME NEW ok \in BOOLEAN, Record(ok), Sleep, clock' = clock, Busy
      PROVE  HealthInv' /\ Retained'
  <2>1. HealthTypes'
    BY <1>0, <1>1, <1>3, RecordKeeps, HealthTypesKept
  <2>2. Beating'
    BY <1>3 DEF Sleep, Enter, Beating
  <2> QED
    BY <1>0, <1>3, <2>1, <2>2, RecordKeeps DEF HealthInv
<1>4. CASE StreamFails
  BY <1>3, <1>4 DEF StreamFails, Busy
<1>5. ASSUME NEW ok \in BOOLEAN, Published(ok) PROVE HealthInv' /\ Retained'
  BY <1>3, <1>5 DEF Published, Busy
<1>6. CASE Elapse
  <2>1. /\ UNCHANGED <<step, since, began, wake, started, rows, success, longest, unended>>
        /\ clock' = clock + 1 /\ (Busy' <=> Busy)
        /\ step = "asleep" => clock < wake
        /\ step = "build" => clock - since < MaxBuild
        /\ heartbeat' = IF step \in {"stream", "publish"} THEN clock' ELSE heartbeat
    BY <1>6 DEF Elapse, process, truth, Busy
  <2>2. HealthTypes'
    BY <1>0, <1>1, <2>1, HealthTypesKept
  <2>3. OnRecord' /\ (Retained => Retained')
    BY <1>0, <1>1, <2>1, RowsKept, StillRetained
  <2>4. Timely'
    <3>1. step' = "asleep" => clock' <= wake'
      BY <1>1, <2>1
    <3> QED
      BY <1>0, <2>1, <3>1, TimelyKept
  <2>5. Beating'
    <3>1. step' = "build" => heartbeat' = since' /\ clock' - since' <= MaxBuild
      BY <1>0, <1>1, <2>1 DEF Beating
    <3>2. step' = "publish" => heartbeat' # None /\ clock' - heartbeat' <= MaxBuild
      BY <1>1, <2>1 DEF None
    <3> QED
      BY <2>1, <3>1, <3>2 DEF Beating
  <2> QED
    BY <2>2, <2>3, <2>4, <2>5 DEF HealthInv
<1>7. CASE StartProcess
  <2>1. /\ UNCHANGED <<clock, rows, heartbeat, success, longest, unended>>
        /\ step' = "asleep" /\ wake' = clock /\ started' = clock /\ ~Busy' /\ ~Busy
    BY <1>7 DEF StartProcess, Enter, truth, Busy
  <2>2. HealthTypes'
    BY <1>0, <1>1, <2>1, HealthTypesKept
  <2>3. OnRecord' /\ (Retained => Retained')
    BY <1>0, <1>1, <2>1, RowsKept, StillRetained
  <2>4. Timely'
    <3>1. ASSUME rows # <<>>, rows[1].ok, clock <= success
          PROVE  clock <= success + Pause(rows[1].took)
      <4>1. 1 \in DOMAIN rows
        BY <1>1, <3>1
      <4>2. rows[1].took \in Nat
        BY <1>1, <4>1, RowsTyped
      <4>3. Pause(rows[1].took) \in Nat
        BY <1>0, <4>2, HealthFacts
      <4> QED
        BY <1>1, <3>1, <4>3
    <3>2. rows # <<>> /\ rows[1].ok => rows[1].ended = success
      BY <1>0 DEF Timely
    <3>3. clock <= clock
      BY <1>1
    <3> QED
      BY <2>1, <3>1, <3>2, <3>3 DEF Timely, Pause
  <2>5. Beating'
    BY <2>1 DEF Beating
  <2> QED
    BY <2>2, <2>3, <2>4, <2>5 DEF HealthInv
<1>8. CASE StreamEnds \/ Built
  <2>1. /\ UNCHANGED <<clock, began, started, rows, success, longest, unended>>
        /\ step' \in {"build", "publish"} /\ Busy' /\ Busy
    BY <1>8 DEF StreamEnds, Built, Enter, truth, Busy
  <2>2. HealthTypes'
    BY <1>0, <1>1, <1>8, <2>1, HealthTypesKept DEF HealthNext
  <2>3. OnRecord' /\ (Retained => Retained')
    BY <1>0, <1>1, <2>1, RowsKept, StillRetained
  <2>4. Timely'
    BY <1>0, <2>1, TimelyKept
  <2>5. Beating'
    <3>1. CASE StreamEnds
      <4>1. step' = "build" /\ since' = clock /\ heartbeat' = clock /\ clock' = clock
        BY <3>1 DEF StreamEnds, Enter
      <4>2. clock' - since' <= MaxBuild
        BY <1>1, <4>1
      <4> QED
        BY <4>1, <4>2 DEF Beating
    <3>2. CASE Built
      <4>1. step = "build" /\ step' = "publish" /\ UNCHANGED <<heartbeat, clock>>
        BY <3>2 DEF Built, Enter
      <4>2. heartbeat = since /\ clock - since <= MaxBuild
        BY <1>0, <4>1 DEF Beating
      <4>3. heartbeat # None
        BY <1>1, <4>2 DEF None
      <4> QED
        BY <4>1, <4>2, <4>3 DEF Beating
    <3> QED
      BY <1>8, <3>1, <3>2
  <2> QED
    BY <2>2, <2>3, <2>4, <2>5 DEF HealthInv
<1>9. CASE Raise \/ Dies
  <2>1. /\ UNCHANGED <<clock, rows, success, longest>>
        /\ step' \in {"asleep", "down"} /\ ~Busy' /\ (step' = "asleep" => Busy)
        /\ unended' \in Nat /\ unended' >= unended /\ (Busy => unended' > unended)
    BY <1>1, <1>9 DEF Raise, Dies, Sleep, Enter, Busy
  <2>2. HealthTypes'
    BY <1>0, <1>1, <1>9, <2>1, HealthTypesKept DEF HealthNext
  <2>3. OnRecord' /\ (Retained => Retained')
    BY <1>0, <2>1, RowsKept, StillRetained
  <2>4. Timely'
    <3>1. step' = "asleep" => ~rows[1].ok
      BY <1>0, <2>1 DEF OnRecord
    <3> QED
      BY <1>0, <2>1, <3>1, TimelyKept
  <2>5. Beating'
    BY <2>1 DEF Beating
  <2> QED
    BY <2>2, <2>3, <2>4, <2>5 DEF HealthInv
<1> QED
  BY <1>2, <1>4, <1>5, <1>6, <1>7, <1>8, <1>9 DEF HealthNext

THEOREM HealthKnown == HealthSpec => []HealthInv
<1>1. HealthInv /\ [HealthNext]_healthVars => HealthInv'
  <2> SUFFICES ASSUME HealthInv, [HealthNext]_healthVars PROVE HealthInv'
    OBVIOUS
  <2>1. CASE HealthNext
    BY <2>1, HealthStep
  <2>2. CASE UNCHANGED healthVars
    BY <2>2 DEF healthVars, process, truth, HealthInv, HealthTypes, OnRecord, Timely, Beating,
                Busy, Ended, Pause
  <2> QED
    BY <2>1, <2>2
<1> QED
  BY <1>1, HealthStarts, PTL DEF HealthSpec

LEMMA RowRetained == ASSUME MaxUnended + 2 <= Recent PROVE HealthSpec => []Retained
<1>1. HealthInv /\ Retained /\ [HealthNext]_healthVars => Retained'
  <2> SUFFICES ASSUME HealthInv, Retained, [HealthNext]_healthVars PROVE Retained'
    OBVIOUS
  <2>1. CASE HealthNext
    BY <2>1, HealthStep
  <2>2. CASE UNCHANGED healthVars
    BY <2>2 DEF healthVars, process, truth, Retained, Busy, Ended
  <2> QED
    BY <2>1, <2>2
<1> QED
  BY <1>1, HealthStarts, HealthKnown, PTL DEF HealthSpec

\* The row /health reports is the newest success it reads (_cycle_summary).
LEMMA NewestGood ==
  ASSUME HealthTypes, Good # {}
  PROVE  \E i \in Good : Summary = rows[i] /\ \A j \in Good : i <= j
<1> DEFINE R == OpToRel(<, Nat)
           least == CHOOSE i \in Good : \A j \in Good : i <= j
<1>1. Good \subseteq Nat
  BY HealthFacts DEF Good
<1>2. IsWellFoundedOn(R, Nat)
  BY NatLessThanWellFounded
<1>3. PICK i \in Good : \A j \in Good : ~(<<j, i>> \in R)
  <2> HIDE DEF R
  <2> QED
    BY <1>1, <1>2, WFMin
<1>4. \A j \in Good : ~(j < i)
  BY <1>1, <1>3 DEF OpToRel
<1>5. \A j \in Good : i <= j
  BY <1>1, <1>4
<1>6. least \in Good /\ \A j \in Good : least <= j
  BY <1>5
<1>7. Summary = rows[least]
  BY DEF Summary
<1> HIDE DEF least
<1> QED
  BY <1>6, <1>7

\* Whatever /health takes for the latest cycle, it ended no later than the
\* latest success and lasted no longer than the longest cycle.
LEMMA SummaryBounded ==
  ASSUME HealthTypes, OnRecord
  PROVE  /\ Summary.ok \in BOOLEAN /\ Summary.took \in Nat
         /\ Summary.took = 0 \/ Summary.took <= longest
         /\ Summary.ok => Summary.ended \in Nat /\ Summary.ended <= success
<1>0. rows \in Seq(HealthRow) /\ DOMAIN rows = 1..Len(rows) /\ Len(rows) \in Nat
  BY HealthFacts
<1>1. CASE Good # {}
  <2>1. PICK i \in Good : Summary = rows[i]
    BY <1>1, NewestGood
  <2>2. i \in DOMAIN rows /\ rows[i].ok /\ rows[i].ended # None
    BY DEF Good, Ended
  <2>3. rows[i].ok \in BOOLEAN /\ rows[i].took \in Nat /\ rows[i].ended \in Nat \cup {None}
    BY <1>0, <2>2, RowsTyped
  <2>4. rows[i].ended <= success /\ (rows[i].took = 0 \/ rows[i].took <= longest)
    BY <2>2 DEF OnRecord
  <2> QED
    BY <2>1, <2>2, <2>3, <2>4
<1>2. CASE Good = {} /\ rows # <<>>
  <2>1. 1 \in DOMAIN rows
    BY <1>0, <1>2
  <2>2. rows[1] \in HealthRow /\ rows[1].took \in Nat
    BY <1>0, <2>1, RowsTyped
  <2>3. Summary = [rows[1] EXCEPT !.ok = FALSE]
    BY <1>2 DEF Summary
  <2>4. Summary.ok = FALSE /\ Summary.took = rows[1].took
    BY <2>2, <2>3 DEF HealthRow
  <2>5. rows[1].took = 0 \/ rows[1].took <= longest
    BY <2>1 DEF OnRecord
  <2> QED
    BY <2>2, <2>4, <2>5
<1>3. CASE Good = {} /\ rows = <<>>
  <2>1. Summary = [ended |-> None, took |-> 0, ok |-> FALSE]
    BY <1>3 DEF Summary
  <2> QED
    BY <2>1
<1> QED
  BY <1>1, <1>2, <1>3

\* A process that keeps cycling without success turns red, whatever its
\* heartbeat says (compute_status), as long as not so many cycles in a row
\* leave no end that they fill the rows it reads.
THEOREM StallSeen == ASSUME MaxUnended + 2 <= Recent PROVE HealthSpec => []StallTurnsRed
<1>1. HealthInv /\ Retained => StallTurnsRed
  <2> SUFFICES ASSUME HealthInv, Retained, Stalled PROVE ~Green
    BY DEF StallTurnsRed
  <2> DEFINE allowed == Larger(3 * Interval, 2 * longest)
  <2>1. /\ longest # None /\ clock - success > allowed /\ clock - started > allowed
    BY DEF Stalled
  <2>2. /\ clock \in Nat /\ success \in Nat \cup {-1} /\ longest \in Nat \cup {-1}
        /\ started \in Nat /\ Interval \in Nat
    BY HealthFacts DEF HealthInv
  <2>3. longest \in Nat
    BY <2>1, <2>2 DEF None
  <2>4. allowed \in Nat /\ allowed >= 3 * Interval /\ allowed >= 2 * longest
    BY <2>2, <2>3 DEF Larger
  <2> HIDE DEF allowed
  <2>5. /\ Summary.ok \in BOOLEAN /\ Summary.took \in Nat
        /\ Summary.took = 0 \/ Summary.took <= longest
        /\ Summary.ok => Summary.ended \in Nat /\ Summary.ended <= success
    BY SummaryBounded DEF HealthInv
  <2>6. Ceiling \in Nat /\ Ceiling <= allowed
    <3>1. 2 * Summary.took <= allowed
      BY <2>3, <2>4, <2>5
    <3> QED
      BY <2>2, <2>4, <2>5, <3>1 DEF Ceiling, Larger
  <2>7. AnyCompleted
    BY <2>1 DEF Retained, AnyCompleted
  <2>8. CASE Summary.ok
    <3>1. clock - Summary.ended > allowed
      BY <2>1, <2>2, <2>4, <2>5, <2>8
    <3>2. NoSuccessAge = clock - Summary.ended
      BY <2>8 DEF NoSuccessAge
    <3>3. ~(NoSuccessAge <= Ceiling)
      BY <2>2, <2>4, <2>5, <2>6, <2>8, <3>1, <3>2
    <3>4. ~(clock - Summary.ended <= StaleAfter)
      BY <2>2, <2>4, <2>5, <2>8, <3>1 DEF StaleAfter
    <3> QED
      BY <3>3, <3>4 DEF Green, CycleFresh
  <2>9. CASE ~Summary.ok
    <3>1. NoSuccessAge = clock - started
      BY <2>7, <2>9 DEF NoSuccessAge
    <3>2. ~(NoSuccessAge <= Ceiling)
      BY <2>1, <2>2, <2>4, <2>6, <3>1
    <3> QED
      BY <2>9, <3>2 DEF Green, CycleFresh
  <2> QED
    BY <2>5, <2>8, <2>9
<1> QED
  BY <1>1, HealthKnown, RowRetained, PTL

\* A process at work stays green through a cycle of up to two intervals, or of
\* not quite twice the last one's length, if nothing is silent for longer than
\* the heartbeat may be old (compute_status).
THEOREM WorkSeen == ASSUME MaxBuild <= 2 * Interval PROVE HealthSpec => []WorkStaysGreen
<1>1. HealthInv => WorkStaysGreen
  <2> DEFINE last == IF rows[1].ok THEN rows[1].took ELSE rows[2].took
  <2> SUFFICES ASSUME HealthInv, AtWork,
                      step = "asleep" \/ clock - began <= Larger(2 * Interval, 2 * last - Breath)
               PROVE  Green
    BY DEF WorkStaysGreen
  <2>0. HealthTypes /\ OnRecord /\ Timely /\ Beating
    BY DEF HealthInv
  <2>1. /\ clock \in Nat /\ began \in Nat /\ wake \in Nat /\ since \in Nat
        /\ heartbeat \in Nat \cup {-1}
        /\ rows \in Seq(HealthRow) /\ DOMAIN rows = 1..Len(rows) /\ Len(rows) \in Nat
        /\ Interval \in Nat /\ Breath \in Nat /\ Breath <= Interval /\ MaxBuild \in Nat
    BY <2>0, HealthFacts
  <2>2. success \in Nat /\ success # None /\ started <= success /\ rows # <<>>
    <3>1. success # None /\ started <= success
      BY DEF AtWork
    <3>2. success \in Nat \cup {-1}
      BY <2>0, HealthFacts
    <3> QED
      BY <2>0, <3>1, <3>2 DEF OnRecord, None
  <2>3. 1 \in DOMAIN rows
    BY <2>1, <2>2
  <2>4. step = "asleep" \/ Busy
    BY <2>0 DEF AtWork, HealthTypes, Busy
  <2>5. CASE step = "asleep"
    <3>1. rows[1].ok
      BY <2>5 DEF AtWork
    <3>2. rows[1].took \in Nat /\ rows[1].ended = success /\ Ended(rows[1])
      BY <2>0, <2>1, <2>2, <2>3, <3>1, RowsTyped DEF Timely, OnRecord
    <3>3. clock <= wake /\ wake <= success + Pause(rows[1].took)
      BY <2>0, <2>2, <2>5, <3>1 DEF Timely
    <3>4. Pause(rows[1].took) \in Nat /\ Pause(rows[1].took) <= Interval
      BY <2>1, <3>2 DEF Pause, Larger
    <3>5. clock - success <= StaleAfter
      BY <2>1, <2>2, <3>3, <3>4 DEF StaleAfter
    <3>6. Summary = rows[1]
      <4>1. 1 \in Good
        BY <2>3, <3>1, <3>2 DEF Good
      <4>2. PICK i \in Good : Summary = rows[i] /\ \A j \in Good : i <= j
        BY <2>0, <4>1, NewestGood
      <4>3. i \in 1..Len(rows) /\ i <= 1
        BY <2>1, <4>1, <4>2 DEF Good
      <4> QED
        BY <2>1, <4>2, <4>3
    <3> QED
      BY <3>1, <3>2, <3>5, <3>6 DEF Green, CycleFresh
  <2>6. CASE Busy
    <3>1. ~rows[1].ok /\ ~Ended(rows[1])
      BY <2>0, <2>6 DEF OnRecord
    <3>2. Len(rows) > 1 /\ rows[2].ok
      BY <3>1 DEF AtWork
    <3>3. 2 \in DOMAIN rows
      BY <2>1, <3>2
    <3>4. rows[2].took \in Nat /\ Ended(rows[2])
      BY <2>0, <2>1, <3>2, <3>3, RowsTyped DEF OnRecord
    <3>5. rows[2].ended = success /\ began <= success + Pause(rows[2].took)
      BY <2>0, <2>2, <2>6, <3>2 DEF Timely
    <3>6. Summary = rows[2]
      <4>1. 2 \in Good /\ 1 \notin Good
        BY <3>1, <3>2, <3>3, <3>4 DEF Good
      <4>2. PICK i \in Good : Summary = rows[i] /\ \A j \in Good : i <= j
        BY <2>0, <4>1, NewestGood
      <4>3. i \in 1..Len(rows) /\ i <= 2 /\ i # 1
        BY <2>1, <4>1, <4>2 DEF Good
      <4>4. i = 2
        BY <2>1, <4>3
      <4> QED
        BY <4>2, <4>4
    <3>7. NoSuccessAge <= Ceiling
      <4> DEFINE took == rows[2].took
      <4>1. clock - began <= Larger(2 * Interval, 2 * took - Breath)
        BY <2>6, <3>1 DEF Busy
      <4>2. took \in Nat /\ began <= success + Larger(Breath, Interval - took)
        BY <3>4, <3>5 DEF Pause
      <4>3. NoSuccessAge = clock - success
        BY <3>2, <3>5, <3>6 DEF NoSuccessAge
      <4>4. Ceiling = Larger(3 * Interval, 2 * took)
        BY <3>6 DEF Ceiling
      <4> HIDE DEF took
      <4>5. clock - success <= Larger(3 * Interval, 2 * took)
        BY <2>1, <2>2, <4>1, <4>2 DEF Larger
      <4> QED
        BY <4>3, <4>4, <4>5
    <3>8. HeartbeatFresh
      <4>1. heartbeat # None /\ clock - heartbeat <= MaxBuild
        <5>1. CASE step = "stream"
          BY <2>0, <2>1, <5>1 DEF Beating, None
        <5>2. CASE step = "build"
          BY <2>0, <2>1, <5>2 DEF Beating, None
        <5>3. CASE step = "publish"
          BY <2>0, <5>3 DEF Beating
        <5> QED
          BY <2>6, <5>1, <5>2, <5>3 DEF Busy
      <4>2. heartbeat \in Nat
        BY <2>1, <4>1 DEF None
      <4> QED
        BY <2>1, <4>1, <4>2 DEF HeartbeatFresh, StaleAfter
    <3> QED
      BY <3>7, <3>8 DEF Green
  <2> QED
    BY <2>4, <2>5, <2>6
<1> QED
  BY <1>1, HealthKnown, PTL
==============================================================================
