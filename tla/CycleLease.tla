----------------------------- MODULE CycleLease -----------------------------
(***************************************************************************)
(* The lease around run_cycle.  Several processes may run tpot2cti against *)
(* one state.db: a container that is being replaced, a manual run.  A row  *)
(* of cycle_lease names a holder and an expiry; heartbeats renew it; a     *)
(* process that finds it taken skips its cycle.  The lease is checked      *)
(* before the Sighting ledger is written and before the cursor moves, but  *)
(* a check and the write it guards are separate transactions.              *)
(*                                                                         *)
(* A restarted process is a new holder, so a process that crashed never    *)
(* comes back.  What a cycle does to the ledger is in SightingLedger; here *)
(* the ledger is a version, read at the start and replaced by the write.   *)
(***************************************************************************)
EXTENDS Integers, FiniteSets

CONSTANTS
  Procs,        \* processes, each run of the program one of its own
  Nobody,       \* the holder in an empty table
  TTL,          \* CYCLE_LEASE_TTL_S
  StallsIn,     \* steps in which a process may go TTL without a heartbeat
  LastWindow,   \* bound on the windows
  MaxStalls,    \* bound on such stalls
  MaxUnclean,   \* bound on unclean publishes
  MaxCrashes    \* bound on crashes

Steps == {"idle", "read", "check", "ledger", "publish", "recheck", "mark", "advance", "release"}

ASSUME LeaseAssumption ==
  /\ Nobody \notin Procs
  /\ TTL \in Nat \ {0}
  /\ StallsIn \subseteq Steps
  /\ LastWindow \in Nat
  /\ MaxStalls \in Nat
  /\ MaxUnclean \in Nat
  /\ MaxCrashes \in Nat

VARIABLES
  lease,      \* the row: holder and time left
  up,         \* the processes that run
  pc,         \* where each is in its cycle
  window,     \* the window each computed
  saw,        \* the version of the ledger each read
  version,    \* the version of the Sighting ledger
  cursor,     \* last_run
  stalls,
  unclean,
  crashes

bounded == <<stalls, unclean, crashes>>
vars == <<lease, up, pc, window, saw, version, cursor, bounded>>

Lease == [holder : Procs \cup {Nobody}, left : 0..TTL]
NoLease == [holder |-> Nobody, left |-> 0]

TypeOK ==
  /\ lease \in Lease
  /\ up \subseteq Procs
  /\ pc \in [Procs -> Steps]
  /\ window \in [Procs -> Nat]
  /\ saw \in [Procs -> Nat]
  /\ version \in Nat
  /\ cursor \in Nat
  /\ stalls \in 0..MaxStalls
  /\ unclean \in 0..MaxUnclean
  /\ crashes \in 0..MaxCrashes

Init ==
  /\ lease = NoLease
  /\ up = Procs
  /\ pc = [p \in Procs |-> "idle"]
  /\ window = [p \in Procs |-> 0]
  /\ saw = [p \in Procs |-> 0]
  /\ version = 0
  /\ cursor = 0
  /\ stalls = 0
  /\ unclean = 0
  /\ crashes = 0

-----------------------------------------------------------------------------
(* acquire_lease, renew_lease, lease_held and release_lease of state.py.    *)

FreeUnlessOwned(p) == lease.holder \in {Nobody, p}               \* mutant
FreeToAll(p) == TRUE                                             \* mutant
Free(p) == lease.holder \in {Nobody, p} \/ lease.left = 0

HeldByName(p) == lease.holder = p                                \* mutant
HeldUnchecked(p) == TRUE                                         \* mutant
Held(p) == lease.holder = p /\ lease.left > 0

Goto(p, step) == pc' = [pc EXCEPT ![p] = step]
InCycle == {p \in up : pc[p] # "idle"}

\* Time passes.  The lease of a process in its cycle runs out only if that
\* process stalls.
Tick ==
  /\ lease.left > 0
  /\ lease.left = 1 => lease.holder \notin InCycle
  /\ lease' = [lease EXCEPT !.left = @ - 1]
  /\ UNCHANGED <<up, pc, window, saw, version, cursor, bounded>>

Stall ==
  /\ lease.left = 1
  /\ lease.holder \in InCycle
  /\ pc[lease.holder] \in StallsIn
  /\ stalls < MaxStalls
  /\ stalls' = stalls + 1
  /\ lease' = [lease EXCEPT !.left = 0]
  /\ UNCHANGED <<up, pc, window, saw, version, cursor, unclean, crashes>>

RenewedOnTop == lease.left + TTL                                 \* mutant
Renewed == TTL

\* Renews a lease that has run out as well, as long as nobody took it.
Heartbeat(p) ==
  /\ p \in InCycle
  /\ lease.holder = p
  /\ lease' = [lease EXCEPT !.left = Renewed]
  /\ UNCHANGED <<up, pc, window, saw, version, cursor, bounded>>

\* A process that does not get the lease skips this cycle and tries again.
Acquire(p) ==
  /\ p \in up
  /\ pc[p] = "idle"
  /\ cursor < LastWindow
  /\ Free(p)
  /\ lease' = [holder |-> p, left |-> TTL]
  /\ Goto(p, "read")
  /\ UNCHANGED <<up, window, saw, version, cursor, bounded>>

\* _compute_window, sighting_count_scope: the cursor and the ledger.
Read(p) ==
  /\ p \in up
  /\ pc[p] = "read"
  /\ window' = [window EXCEPT ![p] = cursor]
  /\ saw' = [saw EXCEPT ![p] = version]
  /\ Goto(p, "check")
  /\ UNCHANGED <<lease, up, version, cursor, bounded>>

\* A cycle whose lease is lost publishes nothing.
CheckLease(p) ==
  /\ p \in up
  /\ pc[p] = "check"
  /\ Goto(p, IF Held(p) THEN "ledger" ELSE "release")
  /\ UNCHANGED <<lease, up, window, saw, version, cursor, bounded>>

WriteLedger(p) ==
  /\ p \in up
  /\ pc[p] = "ledger"
  /\ version' = version + 1
  /\ Goto(p, "publish")
  /\ UNCHANGED <<lease, up, window, saw, cursor, bounded>>

PublishClean(p) ==
  /\ p \in up
  /\ pc[p] = "publish"
  /\ Goto(p, "recheck")
  /\ UNCHANGED <<lease, up, window, saw, version, cursor, bounded>>

PublishUnclean(p) ==
  /\ p \in up
  /\ pc[p] = "publish"
  /\ unclean < MaxUnclean
  /\ unclean' = unclean + 1
  /\ Goto(p, "release")
  /\ UNCHANGED <<lease, up, window, saw, version, cursor, stalls, crashes>>

RecheckLease(p) ==
  /\ p \in up
  /\ pc[p] = "recheck"
  /\ Goto(p, IF Held(p) THEN "mark" ELSE "release")
  /\ UNCHANGED <<lease, up, window, saw, version, cursor, bounded>>

MarkCounted(p) ==
  /\ p \in up
  /\ pc[p] = "mark"
  /\ version' = version + 1
  /\ Goto(p, "advance")
  /\ UNCHANGED <<lease, up, window, saw, cursor, bounded>>

Advance(p) ==
  /\ p \in up
  /\ pc[p] = "advance"
  /\ cursor' = window[p] + 1
  /\ Goto(p, "release")
  /\ UNCHANGED <<lease, up, window, saw, version, bounded>>

Release(p) ==
  /\ p \in up
  /\ pc[p] = "release"
  /\ lease' = IF lease.holder = p THEN NoLease ELSE lease
  /\ Goto(p, "idle")
  /\ UNCHANGED <<up, window, saw, version, cursor, bounded>>

Crash(p) ==
  /\ p \in up
  /\ crashes < MaxCrashes
  /\ crashes' = crashes + 1
  /\ up' = up \ {p}
  /\ UNCHANGED <<lease, pc, window, saw, version, cursor, stalls, unclean>>

Step(p) ==
  \/ Acquire(p)
  \/ Read(p)
  \/ CheckLease(p)
  \/ WriteLedger(p)
  \/ PublishClean(p)
  \/ RecheckLease(p)
  \/ MarkCounted(p)
  \/ Advance(p)
  \/ Release(p)

Next ==
  \/ Tick
  \/ Stall
  \/ \E p \in Procs : Heartbeat(p)
  \/ \E p \in Procs : Step(p)
  \/ \E p \in Procs : PublishUnclean(p)
  \/ \E p \in Procs : Crash(p)

Spec == Init /\ [][Next]_vars

-----------------------------------------------------------------------------
(* Safety.                                                                 *)

\* "The lease admits one": while heartbeats come in time, two processes are
\* never in a cycle together, whoever crashes (run_cycle).
OneCycleAtATime == stalls = 0 => \A p, q \in InCycle : p = q

\* A cycle writes the ledger it read: no other process wrote to it between
\* its read and its write, so floors and rows are never overwritten
\* (record_sightings_sent).
WritesWhatItRead == [][\A p \in Procs : WriteLedger(p) => saw[p] = version]_vars

\* The cursor moves only under the lease: a process whose lease ran out, or
\* was taken over, leaves it alone.
MovesUnderLease == [][\A p \in Procs : Advance(p) => Held(p)]_vars

\* No process moves the cursor back over what another published.
CursorOnlyForward == [][cursor' >= cursor]_cursor

-----------------------------------------------------------------------------
(* Liveness.  Every process runs its loop for ever and time passes;          *)
(* unclean publishes, stalls and crashes are bounded.                       *)

Fairness == WF_vars(Tick) /\ \A p \in Procs : WF_vars(Step(p))

FairSpec == Spec /\ Fairness

\* The lease of a crashed process runs out: the windows are all published by
\* the processes that are left, however the others died.
KeepsPublishing == <>(cursor = LastWindow)
=============================================================================
