----------------------------- MODULE LabelLanes -----------------------------
(***************************************************************************)
(* The lanes that label addresses from what is known locally: noisefloor   *)
(* (classified telemetry) and blocklists (downloaded lists).  Each cycle   *)
(* takes a page of active addresses, publishes the labels it has not       *)
(* marked yet and, if they landed, marks them and moves the sweep cursor;  *)
(* otherwise the page is held.  The process may die between any two of     *)
(* these writes.                                                           *)
(*                                                                         *)
(* Landed is what the publisher confirms; what that is worth when a pass   *)
(* is quarantined is the subject of module ChunkedPublish.                 *)
(***************************************************************************)
EXTENDS ActivitySweep

CONSTANTS
  Labels,      \* the labels of the lane
  Malformed,   \* rows of attacker_activity that are no address
  MaxFaults    \* bound on failures

ASSUME LaneAssumption ==
  /\ Malformed \subseteq Addresses
  /\ MaxFaults \in Nat

VARIABLES
  active,      \* the addresses active within the window
  evidence,    \* the labels CORE's telemetry, or a list, gives each
  cursor,      \* the sweep cursor
  marks,       \* the (address, label) pairs marked as labelled
  landed,      \* those OpenCTI holds
  pc,          \* where the cycle is
  page,        \* the addresses it read
  fresh,       \* the pairs it publishes
  faults

telemetry == <<active, evidence>>
vars == <<telemetry, cursor, marks, landed, pc, page, fresh, faults>>

Pairs == Addresses \X Labels

TypeOK ==
  /\ active \subseteq Addresses
  /\ evidence \in [Addresses -> SUBSET Labels]
  /\ cursor \in Addresses \cup {StartOfPass}
  /\ marks \subseteq Pairs
  /\ landed \subseteq Pairs
  /\ pc \in {"idle", "publish", "mark", "advance"}
  /\ page \subseteq Addresses
  /\ fresh \subseteq Pairs
  /\ faults \in Nat

Init ==
  /\ active = {}
  /\ evidence = [a \in Addresses |-> {}]
  /\ cursor = StartOfPass
  /\ marks = {}
  /\ landed = {}
  /\ pc = "idle"
  /\ page = {}
  /\ fresh = {}
  /\ faults = 0

-----------------------------------------------------------------------------
(* CORE's telemetry and the lists change while the lane works.             *)

Appear(a) ==
  /\ active' = active \cup {a}
  /\ UNCHANGED <<evidence, cursor, marks, landed, pc, page, fresh, faults>>

AgeOut(a) ==
  /\ active' = active \ {a}
  /\ UNCHANGED <<evidence, cursor, marks, landed, pc, page, fresh, faults>>

Observe(a, l) ==
  /\ evidence' = [evidence EXCEPT ![a] = @ \cup {l}]
  /\ UNCHANGED <<active, cursor, marks, landed, pc, page, fresh, faults>>

-----------------------------------------------------------------------------
(* A cycle.                                                                *)

Fault ==
  /\ faults < MaxFaults
  /\ faults' = faults + 1

\* The unmarked labels of the page; usable are the labels whose list is not
\* stale.
FreshOncePerAddress(rows, usable) ==
  {p \in rows \X usable : p[1] \notin Malformed /\ p[2] \in evidence[p[1]]
                          /\ \A l \in Labels : <<p[1], l>> \notin marks}        \* mutant
Fresh(rows, usable) ==
  {p \in rows \X usable : p[1] \notin Malformed /\ p[2] \in evidence[p[1]] /\ p \notin marks}

\* A cycle whose lists are all stale, or that cannot read the telemetry, fails
\* before it touches anything; without some of them it does less.
Begin(usable) ==
  /\ pc = "idle"
  /\ usable # {}
  /\ page' = Page(active, cursor)
  /\ fresh' = Fresh(page', usable)
  /\ pc' = IF fresh' = {} THEN "advance" ELSE "publish"
  /\ IF usable = Labels THEN UNCHANGED faults ELSE Fault
  /\ UNCHANGED <<telemetry, cursor, marks, landed>>

PublishClean ==
  /\ pc = "publish"
  /\ landed' = landed \cup fresh
  /\ pc' = "mark"
  /\ UNCHANGED <<telemetry, cursor, marks, page, fresh, faults>>

\* publish raised or returned errors, whatever of it landed: the page is held.
AfterErrorsMarked == "mark"                                      \* mutant
AfterErrors == "idle"
PublishErrors(part) ==
  /\ pc = "publish"
  /\ Fault
  /\ landed' = landed \cup part
  /\ pc' = AfterErrors
  /\ UNCHANGED <<telemetry, cursor, marks, page, fresh>>

\* Every mark is a write of its own.
Mark(p) ==
  /\ pc = "mark"
  /\ p \in fresh \ marks
  /\ marks' = marks \cup {p}
  /\ UNCHANGED <<telemetry, cursor, landed, pc, page, fresh, faults>>

Marked ==
  /\ pc = "mark"
  /\ fresh \subseteq marks
  /\ pc' = "advance"
  /\ UNCHANGED <<telemetry, cursor, marks, landed, page, fresh, faults>>

Advance ==
  /\ pc = "advance"
  /\ cursor' = Advanced(page)
  /\ pc' = "idle"
  /\ UNCHANGED <<telemetry, marks, landed, page, fresh, faults>>

Crash ==
  /\ pc # "idle"
  /\ Fault
  /\ pc' = "idle"
  /\ UNCHANGED <<telemetry, cursor, marks, landed, page, fresh>>

Next ==
  \/ \E a \in Addresses : Appear(a)
  \/ \E a \in Addresses : AgeOut(a)
  \/ \E p \in Pairs : Observe(p[1], p[2])
  \/ \E usable \in SUBSET Labels : Begin(usable)
  \/ PublishClean
  \/ \E part \in SUBSET fresh : PublishErrors(part)
  \/ \E p \in fresh : Mark(p)
  \/ Marked
  \/ Advance
  \/ Crash

Spec == Init /\ [][Next]_vars

-----------------------------------------------------------------------------
(* Safety.                                                                 *)

\* "Mark only on confirmed publish": a mark suppresses a label for ever, so no
\* crash or failed publish may leave one for a label that is not in OpenCTI.
MarkedOnlyLanded == marks \subseteq landed

\* The cursor passes an address only when every label the cycle had for it is
\* in OpenCTI: a page whose publish failed is not skipped (SweepCursor.hold).
PassesOnlyLanded ==
  [][cursor' # cursor => fresh \subseteq landed]_cursor

-----------------------------------------------------------------------------
(* Liveness.  The main loop runs a cycle per interval; MaxFaults bounds the *)
(* failures and the cycles with a stale list.                              *)

Fairness ==
  /\ WF_vars(Begin(Labels))
  /\ WF_vars(PublishClean)
  /\ WF_vars(\E p \in fresh : Mark(p))
  /\ WF_vars(Marked)
  /\ WF_vars(Advance)

FairSpec == Spec /\ Fairness

\* "Coverage is a cursor sweep, not a top-N": however other addresses come and
\* go, and wherever the pages happen to end, an address that stays active gets
\* every label there is evidence for.
EveryLabelLands ==
  \A a \in Addresses \ Malformed, l \in Labels :
    <>[](a \in active /\ l \in evidence[a]) => <>(<<a, l>> \in landed)
=============================================================================
