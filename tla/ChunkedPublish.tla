--------------------------- MODULE ChunkedPublish ---------------------------
(***************************************************************************)
(* How a window's objects get into OpenCTI.  publisher.publish sends three *)
(* passes, each cut into chunks that go through the queue as messages of   *)
(* one work; a ledger in state.db (publish_chunk) holds a row per chunk.   *)
(* OpenCTI's workers take the messages in any order, refuse an object they *)
(* cannot resolve or will never accept, and report the refusals on a work  *)
(* that still reads "complete".  A pass that keeps failing in the same way *)
(* is quarantined, so that one poisoned object cannot stop the pipeline,   *)
(* and the cursor moves when no pass returned an error.                    *)
(*                                                                         *)
(* An object is a model value; its content, and the sighting counts of     *)
(* module SightingLedger, do not matter here.                              *)
(***************************************************************************)
EXTENDS Integers, FiniteSets, Sequences

CONSTANTS
  Objs,            \* STIX objects
  Contents,        \* Contents[w]: the objects of the w-th window
  PassOf,          \* the pass of each object, 1..3
  Refs,            \* the objects an object refers to
  Rejected,        \* the objects OpenCTI will never accept
  Immutable,       \* the edges of IMMUTABLE_RELATIONSHIP_TYPES
  Chunks,          \* DEFAULT_CHUNKS
  MinChunk,        \* MIN_CHUNK_OBJECTS
  QuarantineAfter, \* POISON_QUARANTINE_AFTER
  Failures,        \* what may fail: see the actions that cite it
  MaxFaults        \* bound on failures

PassNames == <<"foundation", "entities", "relationships">>
Passes == DOMAIN PassNames
Relationships == 3

ASSUME ObjectAssumption ==
  /\ IsFiniteSet(Objs)
  /\ Contents \in Seq(SUBSET Objs)
  /\ PassOf \in [Objs -> Passes]
  /\ Refs \in [Objs -> SUBSET Objs]
  /\ Rejected \subseteq Objs
  /\ Immutable \subseteq {o \in Objs : PassOf[o] = Relationships}

ASSUME PolicyAssumption ==
  /\ Chunks \in Nat \ {0}
  /\ MinChunk \in Nat \ {0}
  /\ QuarantineAfter \in Nat \ {0}
  /\ Failures \subseteq {"work", "send", "chunk", "toProcessed", "lookup", "refuse", "wait", "crash"}
  /\ MaxFaults \in Nat

VARIABLES
  cursor,    \* the window last_run points at
  pc,        \* where the current cycle is
  bundle,    \* the objects this cycle publishes
  pass,      \* the pass it is in
  rows,      \* publish_chunk of this cycle: a sequence of chunks per pass
  next,      \* the chunk to send next
  closed,    \* was to_processed received for the current work?
  pending,   \* objects of the current work no worker has taken yet
  refused,   \* the errors of the current work
  stale,     \* objects of earlier works still in the queue
  landed,    \* the objects OpenCTI holds
  refusals,  \* how often a work of its own cycle refused an object
  poison,    \* poison_tracker: signature and streak per pass
  emitted,   \* immutable_emitted
  failed,    \* has this publish an error?
  faults

broker == <<closed, pending, refused>>
platform == <<stale, landed, refusals>>
durable == <<cursor, poison, emitted>>
vars == <<durable, pc, bundle, pass, rows, next, broker, platform, failed, faults>>

Statuses == {"planned", "enqueued", "complete", "timeout", "send_failed", "quarantined"}
Row == [objs : SUBSET Objs, status : Statuses, errors : Nat]
Streak == [sig : SUBSET Objs, n : Nat]
NoStreak == [sig |-> {}, n |-> 0]

TypeOK ==
  /\ cursor \in 1..(Len(Contents) + 1)
  /\ pc \in {"idle", "pass", "send", "wait", "advance"}
  /\ bundle \subseteq Objs
  /\ pass \in 1..(Len(PassNames) + 1)
  /\ rows \in [Passes -> Seq(Row)]
  /\ next \in Nat
  /\ closed \in BOOLEAN
  /\ pending \subseteq Objs
  /\ refused \subseteq Objs
  /\ stale \subseteq Objs
  /\ landed \subseteq Objs
  /\ refusals \in [Objs -> 0..QuarantineAfter]
  /\ poison \in [Passes -> Streak]
  /\ emitted \subseteq Objs
  /\ failed \in BOOLEAN
  /\ faults \in Nat

-----------------------------------------------------------------------------
(* The bundle of a cycle and its passes.                                   *)

\* _strip_unresolvable_references: an object goes when one of its references
\* is neither in the bundle nor in OpenCTI; a failed lookup keeps it.
Resolvable(B, answered) ==
  {o \in B : answered => Refs[o] \subseteq B \cup landed}

\* _suppress_already_emitted
Suppressed(B) == B \ (Immutable \cap emitted)

PassObjects(p) == {o \in bundle : PassOf[o] = p}

\* split: chunks of one size, the last of at most that size.
SmallerSwapped(a, b) == IF a <= b THEN b ELSE a                  \* mutant
Smaller(a, b) == IF a <= b THEN a ELSE b
Usable(n) == LET fit == Smaller(Chunks, n \div MinChunk) IN IF fit = 0 THEN 1 ELSE fit
CeilDiv(a, b) == (a + b - 1) \div b
Split(S) ==
  LET n == Cardinality(S)
      size == CeilDiv(n, Usable(n))
      k == CeilDiv(n, size)
  IN {parts \in [1..k -> SUBSET S] :
        /\ UNION {parts[i] : i \in 1..k} = S
        /\ \A i \in 1..(k - 1) : Cardinality(parts[i]) = size
        /\ \A i, j \in 1..k : i # j => parts[i] \cap parts[j] = {}}

-----------------------------------------------------------------------------
Init ==
  /\ cursor = 1
  /\ pc = "idle"
  /\ bundle = {}
  /\ pass = 1
  /\ rows = [p \in Passes |-> <<>>]
  /\ next = 1
  /\ closed = FALSE
  /\ pending = {}
  /\ refused = {}
  /\ stale = {}
  /\ landed = {}
  /\ refusals = [o \in Objs |-> 0]
  /\ poison = [p \in Passes |-> NoStreak]
  /\ emitted = {}
  /\ failed = FALSE
  /\ faults = 0

Fail(what) ==
  /\ what \in Failures
  /\ faults < MaxFaults
  /\ faults' = faults + 1

Begin(answered) ==
  /\ pc = "idle"
  /\ cursor <= Len(Contents)
  /\ bundle' = Suppressed(Resolvable(Contents[cursor], answered))
  /\ pc' = "pass"
  /\ pass' = 1
  /\ rows' = [p \in Passes |-> <<>>]
  /\ failed' = FALSE
  /\ IF answered THEN UNCHANGED faults ELSE Fail("lookup")
  /\ UNCHANGED <<durable, next, broker, platform>>

\* What is left of a work goes on without this process.
NextPass ==
  /\ pc' = "pass"
  /\ pass' = pass + 1
  /\ pending' = {}
  /\ refused' = {}
  /\ closed' = FALSE
  /\ stale' = stale \cup pending

SkipEmpty ==
  /\ pc = "pass"
  /\ pass \in Passes
  /\ PassObjects(pass) = {}
  /\ NextPass
  /\ UNCHANGED <<durable, bundle, rows, next, landed, refusals, failed, faults>>

\* initiate_work or sealing the plan raised: the pass is an error, the next
\* pass is tried.
PassFails ==
  /\ pc = "pass"
  /\ pass \in Passes
  /\ PassObjects(pass) # {}
  /\ Fail("work")
  /\ failed' = TRUE
  /\ NextPass
  /\ UNCHANGED <<durable, bundle, rows, next, landed, refusals>>

\* seal_publish_plan: every row is there before anything is sent.
Seal ==
  /\ pc = "pass"
  /\ pass \in Passes
  /\ PassObjects(pass) # {}
  /\ \E parts \in Split(PassObjects(pass)) :
       rows' = [rows EXCEPT ![pass] =
                  [i \in DOMAIN parts |-> [objs |-> parts[i], status |-> "planned", errors |-> 0]]]
  /\ next' = 1
  /\ pc' = "send"
  /\ UNCHANGED <<durable, bundle, pass, broker, platform, failed, faults>>

Send ==
  /\ pc = "send"
  /\ next <= Len(rows[pass])
  /\ rows' = [rows EXCEPT ![pass][next].status = "enqueued"]
  /\ pending' = pending \cup rows[pass][next].objs
  /\ next' = next + 1
  /\ UNCHANGED <<durable, pc, bundle, pass, closed, refused, platform, failed, faults>>

\* send_stix2_bundle raised, or marking the row did after the message left: for
\* the only chunk of a pass ("send"), or for one of several ("chunk").
SendFails(delivered) ==
  /\ pc = "send"
  /\ next <= Len(rows[pass])
  /\ Fail(IF Len(rows[pass]) = 1 THEN "send" ELSE "chunk")
  /\ rows' = [rows EXCEPT ![pass][next].status = "send_failed"]
  /\ pending' = IF delivered THEN pending \cup rows[pass][next].objs ELSE pending
  /\ next' = next + 1
  /\ UNCHANGED <<durable, pc, bundle, pass, closed, refused, platform, failed>>

Enqueued(p) == Cardinality({i \in DOMAIN rows[p] : rows[p][i].status = "enqueued"})

NothingEnqueued ==
  /\ pc = "send"
  /\ next > Len(rows[pass])
  /\ Enqueued(pass) = 0
  /\ failed' = TRUE
  /\ NextPass
  /\ UNCHANGED <<durable, bundle, rows, next, landed, refusals, faults>>

\* to_processed, whose failure only costs the wait its end.
CloseWork(received) ==
  /\ pc = "send"
  /\ next > Len(rows[pass])
  /\ Enqueued(pass) > 0
  /\ closed' = received
  /\ pc' = "wait"
  /\ IF received THEN UNCHANGED faults ELSE Fail("toProcessed")
  /\ UNCHANGED <<durable, bundle, pass, rows, next, pending, refused, platform, failed>>

-----------------------------------------------------------------------------
(* OpenCTI's workers.                                                      *)

Acceptable(o) == o \notin Rejected /\ Refs[o] \subseteq landed

\* One worker takes a chunk, and within it what an object refers to first.
Ready(o) ==
  \A i \in DOMAIN rows[pass] :
    o \in rows[pass][i].objs => Refs[o] \cap rows[pass][i].objs \cap pending = {}

Import(o) ==
  /\ o \in pending
  /\ Ready(o)
  /\ Acceptable(o)
  /\ landed' = landed \cup {o}
  /\ pending' = pending \ {o}
  /\ UNCHANGED <<durable, pc, bundle, pass, rows, next, closed, refused, stale, refusals,
                 failed, faults>>

\* Refused for good, for a missing reference, or this once.
Refuse(o) ==
  /\ o \in pending
  /\ Ready(o)
  /\ IF Acceptable(o) THEN Fail("refuse") ELSE UNCHANGED faults
  /\ refused' = refused \cup {o}
  /\ refusals' = [refusals EXCEPT ![o] = Smaller(@ + 1, QuarantineAfter)]
  /\ pending' = pending \ {o}
  /\ UNCHANGED <<durable, pc, bundle, pass, rows, next, closed, stale, landed, failed>>

ImportStale(o) ==
  /\ o \in stale
  /\ landed' = IF Acceptable(o) THEN landed \cup {o} ELSE landed
  /\ stale' = stale \ {o}
  /\ UNCHANGED <<durable, pc, bundle, pass, rows, next, broker, refusals, failed, faults>>

-----------------------------------------------------------------------------
(* The outcome of a work.                                                  *)

\* note_publish_failure
NotedSame(p, sig) == [sig |-> sig, n |-> poison[p].n + 1]        \* mutant
NotedAfresh(p, sig) == [sig |-> sig, n |-> 1]                    \* mutant
Noted(p, sig) ==
  IF poison[p].n > 0 /\ poison[p].sig = sig THEN [sig |-> sig, n |-> poison[p].n + 1]
                                            ELSE [sig |-> sig, n |-> 1]

\* "complete" goes to as many rows as were enqueued, counted from the first.
SettledRows(status, errors) ==
  [i \in DOMAIN rows[pass] |->
     [objs |-> rows[pass][i].objs,
      status |-> IF status # "complete" THEN status
                 ELSE IF i <= Enqueued(pass) THEN "complete" ELSE "send_failed",
      errors |-> errors]]

QuarantinedRows(errors) ==
  [i \in DOMAIN rows[pass] |->
     [objs |-> rows[pass][i].objs, status |-> "quarantined", errors |-> errors]]

PermanentAnyEnd(status, errors) == TRUE                          \* mutant
Permanent(status, errors) == status = "complete" /\ errors # {}

\* mark_chunk_terminal for every row, then clear_publish_failure, or
\* note_publish_failure and perhaps quarantine_chunk for every row.
Settle(status, errors, agree) ==
  LET clean == status = "complete" /\ errors = {} /\ agree
      streak == Noted(pass, errors)
      quarantine == ~clean /\ Permanent(status, errors) /\ streak.n >= QuarantineAfter
  IN /\ rows' = [rows EXCEPT ![pass] = IF quarantine THEN QuarantinedRows(Cardinality(errors))
                                       ELSE SettledRows(status, Cardinality(errors))]
     /\ poison' = [poison EXCEPT ![pass] = IF clean THEN NoStreak ELSE streak]
     /\ failed' = (failed \/ (~clean /\ ~quarantine))
     /\ NextPass
     /\ UNCHANGED <<cursor, bundle, next, landed, refusals, emitted>>

\* The work is complete once the connector closed it and every message was
\* taken.  Its counters may still disagree.
CompleteEarly == pc = "wait" /\ closed                           \* mutant
Complete == pc = "wait" /\ closed /\ pending = {}

WorkComplete(agree) ==
  /\ Complete
  /\ IF agree THEN UNCHANGED faults ELSE Fail("wait")
  /\ Settle("complete", refused, agree)

\* Stalled or at the ceiling; the errors are those of the last poll that
\* answered.  A work that was never closed can only end here.
WaitTimesOut(errors) ==
  /\ pc = "wait"
  /\ IF closed THEN Fail("wait") ELSE UNCHANGED faults
  /\ Settle("timeout", errors, FALSE)

-----------------------------------------------------------------------------
(* The end of the publish, and of the cycle in main.                       *)

\* mark_immutable_emitted for a publish without errors, before the cursor moves.
NewlyEmittedAlways == bundle \cap Immutable                      \* mutant
NewlyEmitted == IF failed THEN {} ELSE bundle \cap Immutable

EndPublish ==
  /\ pc = "pass"
  /\ pass \notin Passes
  /\ emitted' = emitted \cup NewlyEmitted
  /\ pc' = IF failed THEN "idle" ELSE "advance"
  /\ UNCHANGED <<cursor, poison, bundle, pass, rows, next, broker, platform, failed, faults>>

Advance ==
  /\ pc = "advance"
  /\ cursor' = cursor + 1
  /\ pc' = "idle"
  /\ UNCHANGED <<poison, emitted, bundle, pass, rows, next, broker, platform, failed, faults>>

Crash ==
  /\ pc # "idle"
  /\ Fail("crash")
  /\ pc' = "idle"
  /\ stale' = stale \cup pending
  /\ pending' = {}
  /\ refused' = {}
  /\ closed' = FALSE
  /\ UNCHANGED <<durable, bundle, pass, rows, next, landed, refusals, failed>>

Next ==
  \/ \E answered \in BOOLEAN : Begin(answered)
  \/ SkipEmpty
  \/ PassFails
  \/ Seal
  \/ Send
  \/ \E delivered \in BOOLEAN : SendFails(delivered)
  \/ NothingEnqueued
  \/ \E received \in BOOLEAN : CloseWork(received)
  \/ \E o \in pending : Import(o)
  \/ \E o \in pending : Refuse(o)
  \/ \E o \in stale : ImportStale(o)
  \/ \E agree \in BOOLEAN : WorkComplete(agree)
  \/ \E errors \in {{}, refused} : WaitTimesOut(errors)
  \/ EndPublish
  \/ Advance
  \/ Crash

Spec == Init /\ [][Next]_vars

-----------------------------------------------------------------------------
(* Safety.                                                                 *)

Published == UNION {Contents[w] : w \in 1..(cursor - 1)}

\* The cursor leaves an object behind only if OpenCTI has it, if OpenCTI
\* refused it in QuarantineAfter works (POISON_QUARANTINE_AFTER), or if
\* something it refers to was left behind: never because a chunk was not sent,
\* a wait ended early or a crash forgot it (publish_pass_chunked).
GivenUpOnlyProven ==
  \A o \in Published :
    o \in landed \/ refusals[o] = QuarantineAfter \/ ~(Refs[o] \subseteq landed)

\* An object OpenCTI would accept, with all it refers to, each of which the
\* pass barrier puts before it.  (A note is in the pass of its address, and may
\* be refused for the order of chunks alone.)
Sound(o) ==
  \E G \in SUBSET Objs :
    /\ o \in G
    /\ \A g \in G : g \notin Rejected
    /\ \A g \in G : \A r \in Refs[g] : r \in G /\ PassOf[r] < PassOf[g]

\* A poisoned object costs itself and the edges that need it.  Nothing else is
\* lost with it, although its passes, and the streak they share with it, fail
\* again and again, as long as fewer than QuarantineAfter calls fail as well
\* (note_publish_failure).
PoisonCostsOnlyItself ==
  faults < QuarantineAfter => \A o \in Published : Sound(o) => o \in landed

\* publish_is_clean: may the cursor advance for this cycle?
PublishIsClean ==
  /\ \E p \in Passes : rows[p] # <<>>
  /\ \A p \in Passes : \A i \in DOMAIN rows[p] :
       \/ rows[p][i].status = "complete" /\ rows[p][i].errors = 0
       \/ rows[p][i].status = "quarantined" /\ rows[p][i].errors > 0

\* Nothing calls publish_is_clean: main decides by the absence of errors.  When
\* it lets the cursor move, the ledger agrees.
CursorAgreesWithLedger == pc = "advance" => PublishIsClean

\* emit-once never suppresses an edge that OpenCTI does not hold: only those of
\* a publish that landed are recorded (mark_immutable_emitted).  Fewer failures
\* than QuarantineAfter quarantine nothing that could land.
EmitOnceLanded == faults < QuarantineAfter => emitted \subseteq landed

\* The pass barrier suffices: until a call fails OpenCTI refuses an object for
\* what it is, or for what it refers to, and never because its workers took the
\* chunks in an unlucky order.
RefusedForCause == faults = 0 => \A o \in refused : ~Sound(o)

-----------------------------------------------------------------------------
(* Liveness.  The main loop starts the next cycle, publish goes through its *)
(* passes, and OpenCTI's workers empty the queue; MaxFaults bounds the rest. *)

Fairness ==
  /\ WF_vars(Begin(TRUE))
  /\ WF_vars(SkipEmpty)
  /\ WF_vars(Seal)
  /\ WF_vars(Send)
  /\ WF_vars(NothingEnqueued)
  /\ WF_vars(CloseWork(TRUE))
  /\ WF_vars(\E o \in pending : Import(o))
  /\ WF_vars(\E o \in pending : ~Acceptable(o) /\ Refuse(o))
  /\ WF_vars(WorkComplete(TRUE))
  /\ WF_vars(~closed /\ \E errors \in {{}, refused} : WaitTimesOut(errors))
  /\ WF_vars(EndPublish)
  /\ WF_vars(Advance)

FairSpec == Spec /\ Fairness

\* One object OpenCTI will never take does not stop the pipeline: the cursor
\* passes every window (quarantine_chunk).
NoWedge == <>(cursor > Len(Contents))
=============================================================================
