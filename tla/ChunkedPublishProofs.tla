------------------------- MODULE ChunkedPublishProofs -------------------------
(***************************************************************************)
(* What the cursor may leave behind, for any windows, objects, references  *)
(* and chunks: what OpenCTI refused often enough, and with it only what    *)
(* needs it.                                                               *)
(***************************************************************************)
EXTENDS ChunkedPublish, FiniteSetTheorems, TLAPS

LEMMA PassesAre == Passes = {1, 2, 3} /\ Len(PassNames) = 3
BY DEF Passes, PassNames

\* Chunks are cut in natural sizes, so a plan is a sequence (split).
LEMMA Quotient ==
  ASSUME NEW a \in Nat, NEW b \in Nat \ {0}
  PROVE  /\ a \div b \in Nat
         /\ a >= b => a \div b >= 1
OBVIOUS

LEMMA PlanIsSequence ==
  ASSUME NEW S \in SUBSET Objs, S # {}, NEW parts \in Split(S)
  PROVE  parts \in Seq(SUBSET S) /\ UNION {parts[i] : i \in DOMAIN parts} = S
<1> DEFINE n == Cardinality(S)
           u == Usable(n)
           size == CeilDiv(n, u)
           k == CeilDiv(n, size)
<1>1. n \in Nat \ {0}
  BY ObjectAssumption, FS_Subset, FS_CardinalityType, FS_EmptySet
<1>2. u \in Nat \ {0}
  <2>1. MinChunk \in Nat \ {0} /\ Chunks \in Nat \ {0}
    BY PolicyAssumption
  <2>2. n \div MinChunk \in Nat
    BY <1>1, <2>1, Quotient
  <2> QED
    BY <2>1, <2>2 DEF Usable, Smaller
<1>3. size \in Nat \ {0}
  <2> HIDE DEF n, u
  <2>1. n + u - 1 \in Nat /\ n + u - 1 >= u
    BY <1>1, <1>2
  <2> QED
    BY <1>2, <2>1, Quotient DEF CeilDiv
<1>4. k \in Nat
  <2> HIDE DEF n, size
  <2>1. n + size - 1 \in Nat
    BY <1>1, <1>3
  <2> QED
    BY <1>3, <2>1, Quotient DEF CeilDiv
<1>5. parts \in [1..k -> SUBSET S] /\ UNION {parts[i] : i \in 1..k} = S
  BY DEF Split
<1> HIDE DEF k
<1> QED
  BY <1>4, <1>5

-----------------------------------------------------------------------------
(* Types.                                                                  *)
LEMMA TypeInit == Init => TypeOK
<1> SUFFICES ASSUME Init PROVE TypeOK
  OBVIOUS
<1>1. Len(Contents) \in Nat
  BY ObjectAssumption
<1>2. QuarantineAfter \in Nat
  BY PolicyAssumption
<1>3. rows \in [Passes -> Seq(Row)]
  BY DEF Init
<1>4. poison \in [Passes -> Streak] /\ refusals \in [Objs -> 0..QuarantineAfter]
  BY <1>2 DEF Init, Streak, NoStreak
<1>5. /\ cursor \in 1..(Len(Contents) + 1)
      /\ pass \in 1..(Len(PassNames) + 1)
      /\ next \in Nat
      /\ faults \in Nat
  BY <1>1, PassesAre DEF Init
<1>6. closed \in BOOLEAN /\ failed \in BOOLEAN
  BY DEF Init
<1>7. pc \in {"idle", "pass", "send", "wait", "advance"}
  BY DEF Init
<1>8. /\ bundle \subseteq Objs /\ pending \subseteq Objs /\ refused \subseteq Objs
      /\ stale \subseteq Objs /\ landed \subseteq Objs /\ emitted \subseteq Objs
  BY DEF Init
<1> QED
  BY <1>3, <1>4, <1>5, <1>6, <1>7, <1>8 DEF TypeOK

LEMMA FailCounts ==
  ASSUME NEW what, faults \in Nat, Fail(what)
  PROVE  faults' = faults + 1 /\ faults' \in Nat /\ what \in Failures
BY DEF Fail

\* A row changes its status and keeps its objects.
LEMMA RowMarked ==
  ASSUME TypeOK, pass \in Passes, NEW i \in 1..Len(rows[pass]), NEW status \in Statuses,
         rows' = [rows EXCEPT ![pass][i].status = status]
  PROVE  /\ rows' \in [Passes -> Seq(Row)]
         /\ Len(rows'[pass]) = Len(rows[pass])
         /\ \A j \in 1..Len(rows[pass]) :
              /\ rows'[pass][j].objs = rows[pass][j].objs
              /\ rows'[pass][j].status = IF j = i THEN status ELSE rows[pass][j].status
<1>1. rows[pass] \in Seq(Row) /\ rows[pass][i] \in Row
  BY DEF TypeOK
<1> DEFINE r == [rows[pass][i] EXCEPT !.status = status]
           s == [rows[pass] EXCEPT ![i] = r]
<1>2. rows' = [rows EXCEPT ![pass] = s]
  BY DEF TypeOK
<1>3. r \in Row /\ r.objs = rows[pass][i].objs /\ r.status = status
  BY <1>1 DEF Row
<1> HIDE DEF r
<1>4. s \in Seq(Row) /\ Len(s) = Len(rows[pass])
      /\ \A j \in 1..Len(rows[pass]) : s[j] = IF j = i THEN r ELSE rows[pass][j]
  BY <1>1, <1>3
<1> HIDE DEF s
<1>5. rows'[pass] = s /\ rows' \in [Passes -> Seq(Row)]
  BY <1>2, <1>4 DEF TypeOK
<1> QED
  BY <1>3, <1>4, <1>5

LEMMA StreaksTyped ==
  ASSUME TypeOK, NEW p \in Passes, NEW sig \in SUBSET Objs
  PROVE  Noted(p, sig) \in Streak /\ NoStreak \in Streak
<1>1. poison[p] \in Streak
  BY DEF TypeOK
<1>2. poison[p].n \in Nat
  BY <1>1 DEF Streak
<1> QED
  BY <1>2 DEF Noted, Streak, NoStreak

LEMMA RowsTyped ==
  ASSUME TypeOK, pass \in Passes, NEW status \in {"complete", "timeout"}, NEW n \in Nat
  PROVE  SettledRows(status, n) \in Seq(Row) /\ QuarantinedRows(n) \in Seq(Row)
<1>1. rows[pass] \in Seq(Row)
  BY DEF TypeOK
<1>2. DOMAIN rows[pass] = 1..Len(rows[pass]) /\ Len(rows[pass]) \in Nat
  BY <1>1
<1>3. ASSUME NEW i \in 1..Len(rows[pass])
      PROVE  rows[pass][i].objs \in SUBSET Objs
  <2>1. rows[pass][i] \in Row
    BY <1>1, <1>3
  <2> QED
    BY <2>1 DEF Row
<1>4. SettledRows(status, n) \in [1..Len(rows[pass]) -> Row]
  BY <1>2, <1>3 DEF SettledRows, Row, Statuses
<1>5. QuarantinedRows(n) \in [1..Len(rows[pass]) -> Row]
  BY <1>2, <1>3 DEF QuarantinedRows, Row, Statuses
<1> QED
  BY <1>2, <1>4, <1>5

LEMMA PlannedTyped ==
  ASSUME NEW parts \in Seq(SUBSET Objs)
  PROVE  [i \in DOMAIN parts |-> [objs |-> parts[i], status |-> "planned", errors |-> 0]] \in Seq(Row)
<1>1. DOMAIN parts = 1..Len(parts) /\ Len(parts) \in Nat
  OBVIOUS
<1>2. ASSUME NEW i \in 1..Len(parts)
      PROVE  [objs |-> parts[i], status |-> "planned", errors |-> 0] \in Row
  BY DEF Row, Statuses
<1>3. [i \in DOMAIN parts |-> [objs |-> parts[i], status |-> "planned", errors |-> 0]]
        \in [1..Len(parts) -> Row]
  BY <1>1, <1>2
<1> QED
  BY <1>1, <1>3

\* The three outcomes of a work: clean, quarantined, and an error.
LEMMA Outcomes ==
  ASSUME TypeOK, pass \in Passes, NEW status \in {"complete", "timeout"},
         NEW errors \in SUBSET refused, NEW agree \in BOOLEAN,
         Settle(status, errors, agree)
  PROVE  /\ rows' \in [Passes -> Seq(Row)]
         /\ poison' \in [Passes -> Streak]
         /\ failed' \in BOOLEAN
         /\ \A q \in Passes \ {pass} : poison'[q] = poison[q] /\ rows'[q] = rows[q]
         /\ \/ /\ status = "complete" /\ errors = {}
               /\ poison'[pass] = NoStreak
               /\ rows'[pass] = SettledRows("complete", 0)
               /\ failed' = failed
            \/ /\ status = "complete" /\ errors # {}
               /\ Noted(pass, errors).n >= QuarantineAfter
               /\ poison'[pass] = Noted(pass, errors)
               /\ rows'[pass] = QuarantinedRows(Cardinality(errors))
               /\ failed' = failed
            \/ /\ poison'[pass] = Noted(pass, errors)
               /\ failed' = TRUE
<1> DEFINE clean == status = "complete" /\ errors = {} /\ agree
           quarantine == ~clean /\ Permanent(status, errors)
                                /\ Noted(pass, errors).n >= QuarantineAfter
           k == Cardinality(errors)
<1>1. /\ rows' = [rows EXCEPT ![pass] = IF quarantine THEN QuarantinedRows(k)
                                                      ELSE SettledRows(status, k)]
      /\ poison' = [poison EXCEPT ![pass] = IF clean THEN NoStreak ELSE Noted(pass, errors)]
      /\ failed' = (failed \/ (~clean /\ ~quarantine))
  BY DEF Settle
<1>2. errors \in SUBSET Objs /\ k \in Nat /\ (errors = {} => k = 0)
  BY ObjectAssumption, FS_Subset, FS_CardinalityType, FS_EmptySet DEF TypeOK
<1>3. Noted(pass, errors) \in Streak /\ NoStreak \in Streak
  BY <1>2, StreaksTyped
<1>4. SettledRows(status, k) \in Seq(Row) /\ QuarantinedRows(k) \in Seq(Row)
  BY <1>2, RowsTyped
<1>5. quarantine => status = "complete" /\ errors # {}
                    /\ Noted(pass, errors).n >= QuarantineAfter
  BY DEF Permanent
<1>6. failed \in BOOLEAN /\ rows \in [Passes -> Seq(Row)] /\ poison \in [Passes -> Streak]
  BY DEF TypeOK
<1>7. clean => status = "complete" /\ errors = {} /\ ~quarantine
  OBVIOUS
<1>10. clean => SettledRows(status, k) = SettledRows("complete", 0)
  BY <1>2, <1>7
<1> HIDE DEF clean, quarantine, k
<1>8. failed' \in BOOLEAN /\ (failed' = failed \/ failed' = TRUE)
      /\ (clean \/ quarantine => failed' = failed) /\ (~clean /\ ~quarantine => failed' = TRUE)
  BY <1>1, <1>6
<1>9. /\ rows' \in [Passes -> Seq(Row)] /\ poison' \in [Passes -> Streak]
      /\ \A q \in Passes \ {pass} : poison'[q] = poison[q] /\ rows'[q] = rows[q]
      /\ poison'[pass] = IF clean THEN NoStreak ELSE Noted(pass, errors)
      /\ rows'[pass] = IF quarantine THEN QuarantinedRows(k) ELSE SettledRows(status, k)
  BY <1>1, <1>3, <1>4, <1>6
<1>11. CASE clean
  BY <1>7, <1>8, <1>9, <1>10, <1>11
<1>12. CASE quarantine
  <2>1. ~clean
    BY <1>7, <1>12
  <2> QED
    BY <1>5, <1>8, <1>9, <1>12, <2>1 DEF k
<1>13. CASE ~clean /\ ~quarantine
  BY <1>8, <1>9, <1>13
<1> QED
  BY <1>11, <1>12, <1>13

\* A cycle publishes a window there is, a work belongs to one of the three
\* passes, and its chunks count from one.
InAPass ==
  /\ next \in Nat \ {0}
  /\ pc # "idle" => cursor <= Len(Contents)
  /\ pc \in {"send", "wait"} => pass \in Passes

TypeInv == TypeOK /\ InAPass

LEMMA TypeStep == TypeInv /\ [Next]_vars => TypeInv'
<1> SUFFICES ASSUME TypeOK, InAPass, [Next]_vars PROVE TypeOK' /\ InAPass'
  BY DEF TypeInv
<1> USE DEF InAPass
<1>0. Len(Contents) \in Nat /\ Contents \in Seq(SUBSET Objs) /\ QuarantineAfter \in Nat
  BY ObjectAssumption, PolicyAssumption
<1>1. ASSUME NEW answered \in BOOLEAN, Begin(answered) PROVE TypeOK' /\ InAPass'
  <2>1. bundle' \in SUBSET Objs
    BY <1>0, <1>1 DEF Begin, Suppressed, Resolvable, TypeOK
  <2>2. rows' \in [Passes -> Seq(Row)]
    BY <1>1 DEF Begin
  <2>3. faults' \in Nat
    BY <1>1 DEF Begin, Fail, TypeOK
  <2>4. pass' \in 1..(Len(PassNames) + 1) /\ pc' = "pass"
    BY <1>1, PassesAre DEF Begin
  <2>5. failed' \in BOOLEAN
    BY <1>1 DEF Begin
  <2> QED
    BY <1>1, <2>1, <2>2, <2>3, <2>4, <2>5 DEF Begin, durable, broker, platform, TypeOK
<1>2. ASSUME NextPass, pass \in Passes
      PROVE  /\ pc' = "pass"
             /\ pass' \in 1..(Len(PassNames) + 1)
             /\ pending' \subseteq Objs /\ refused' \subseteq Objs /\ stale' \subseteq Objs
             /\ closed' \in BOOLEAN
  <2>1. pass' \in 1..(Len(PassNames) + 1) /\ pc' = "pass"
    BY <1>2, PassesAre DEF NextPass
  <2>2. closed' \in BOOLEAN
    BY <1>2 DEF NextPass
  <2>3. pending' \subseteq Objs /\ refused' \subseteq Objs /\ stale' \subseteq Objs
    BY <1>2 DEF NextPass, TypeOK
  <2> QED
    BY <2>1, <2>2, <2>3
<1>3. CASE SkipEmpty
  BY <1>2, <1>3 DEF SkipEmpty, durable, TypeOK
<1>4. CASE PassFails
  <2>1. failed' \in BOOLEAN /\ faults' \in Nat
    BY <1>4 DEF PassFails, Fail, TypeOK
  <2> QED
    BY <1>2, <1>4, <2>1 DEF PassFails, durable, TypeOK
<1>5. CASE Seal
  <2>1. PICK parts \in Split(PassObjects(pass)) :
          rows' = [rows EXCEPT ![pass] =
                     [i \in DOMAIN parts |-> [objs |-> parts[i], status |-> "planned", errors |-> 0]]]
    BY <1>5 DEF Seal
  <2>2. PassObjects(pass) \in SUBSET Objs
    BY DEF PassObjects, TypeOK
  <2>3. PassObjects(pass) # {}
    BY <1>5 DEF Seal
  <2>4. parts \in Seq(SUBSET Objs)
    <3>1. parts \in Seq(SUBSET PassObjects(pass))
      BY <2>1, <2>2, <2>3, PlanIsSequence
    <3> HIDE DEF PassObjects
    <3> QED
      BY <2>2, <3>1
  <2>5. [i \in DOMAIN parts |-> [objs |-> parts[i], status |-> "planned", errors |-> 0]] \in Seq(Row)
    BY <2>4, PlannedTyped
  <2>6. rows' \in [Passes -> Seq(Row)]
    BY <2>1, <2>5 DEF TypeOK
  <2> QED
    BY <1>5, <2>6 DEF Seal, durable, broker, platform, TypeOK
<1>6. ASSUME pc = "send", next <= Len(rows[pass])
      PROVE  /\ rows[pass][next].objs \in SUBSET Objs
             /\ \A status \in Statuses :
                  rows' = [rows EXCEPT ![pass][next].status = status]
                    => rows' \in [Passes -> Seq(Row)]
  <2>1. rows[pass] \in Seq(Row) /\ pass \in Passes
    BY <1>6 DEF TypeOK
  <2>2. next \in 1..Len(rows[pass])
    BY <1>6, <2>1
  <2>3. rows[pass][next] \in Row
    BY <2>1, <2>2
  <2> QED
    BY <2>1, <2>2, <2>3, RowMarked DEF Row
<1>7. CASE Send
  <2>1. rows' \in [Passes -> Seq(Row)] /\ pending' \subseteq Objs
    BY <1>6, <1>7 DEF Send, Statuses, TypeOK
  <2> QED
    BY <1>7, <2>1 DEF Send, durable, platform, TypeOK
<1>8. ASSUME NEW delivered \in BOOLEAN, SendFails(delivered) PROVE TypeOK' /\ InAPass'
  <2>1. rows' \in [Passes -> Seq(Row)] /\ pending' \subseteq Objs
    BY <1>6, <1>8 DEF SendFails, Statuses, TypeOK
  <2>2. faults' \in Nat
    BY <1>8 DEF SendFails, Fail, TypeOK
  <2> QED
    BY <1>8, <2>1, <2>2 DEF SendFails, durable, platform, TypeOK
<1>9. CASE NothingEnqueued
  BY <1>2, <1>9 DEF NothingEnqueued, durable, TypeOK
<1>10. ASSUME NEW received \in BOOLEAN, CloseWork(received) PROVE TypeOK' /\ InAPass'
  <2>1. faults' \in Nat
    BY <1>10 DEF CloseWork, Fail, TypeOK
  <2> QED
    BY <1>10, <2>1 DEF CloseWork, durable, platform, TypeOK
<1>11. ASSUME NEW o \in pending, Import(o) PROVE TypeOK' /\ InAPass'
  BY <1>11 DEF Import, durable, TypeOK
<1>12. ASSUME NEW o \in pending, Refuse(o) PROVE TypeOK' /\ InAPass'
  <2>1. refusals' \in [Objs -> 0..QuarantineAfter]
    BY <1>0, <1>12 DEF Refuse, Smaller, TypeOK
  <2>2. faults' \in Nat
    BY <1>12 DEF Refuse, Fail, TypeOK
  <2> QED
    BY <1>12, <2>1, <2>2 DEF Refuse, durable, TypeOK
<1>13. ASSUME NEW o \in stale, ImportStale(o) PROVE TypeOK' /\ InAPass'
  BY <1>13 DEF ImportStale, durable, broker, TypeOK
<1>14. ASSUME NEW status \in {"complete", "timeout"}, NEW errors \in SUBSET refused,
              NEW agree \in BOOLEAN, pc = "wait", Settle(status, errors, agree), faults' \in Nat
       PROVE  TypeOK' /\ InAPass'
  <2>1. rows' \in [Passes -> Seq(Row)] /\ poison' \in [Passes -> Streak] /\ failed' \in BOOLEAN
    BY <1>14, Outcomes
  <2>2. NextPass /\ pass \in Passes
    BY <1>14 DEF Settle
  <2> QED
    BY <1>2, <1>14, <2>1, <2>2 DEF Settle, TypeOK
<1>15. ASSUME NEW agree \in BOOLEAN, WorkComplete(agree) PROVE TypeOK' /\ InAPass'
  <2>1. faults' \in Nat /\ pc = "wait" /\ Settle("complete", refused, agree)
    BY <1>15 DEF WorkComplete, Complete, Fail, TypeOK
  <2> QED
    BY <1>14, <2>1
<1>16. ASSUME NEW errors \in {{}, refused}, WaitTimesOut(errors) PROVE TypeOK' /\ InAPass'
  <2>1. pc = "wait" /\ Settle("timeout", errors, FALSE)
    BY <1>16 DEF WaitTimesOut
  <2>2. faults' \in Nat
    BY <1>16 DEF WaitTimesOut, Fail, TypeOK
  <2>3. errors \in SUBSET refused /\ FALSE \in BOOLEAN /\ "timeout" \in {"complete", "timeout"}
    BY <1>16
  <2> QED
    BY <1>14, <2>1, <2>2, <2>3
<1>17. CASE EndPublish
  BY <1>17 DEF EndPublish, NewlyEmitted, broker, platform, TypeOK
<1>18. CASE Advance
  <2>1. cursor \in Nat /\ cursor + 1 \in 1..(Len(Contents) + 1)
    BY <1>0, <1>18 DEF Advance, TypeOK
  <2> QED
    BY <1>18, <2>1 DEF Advance, broker, platform, TypeOK
<1>19. CASE Crash
  <2>1. faults' \in Nat
    BY <1>19 DEF Crash, Fail, TypeOK
  <2>2. closed' \in BOOLEAN
    BY <1>19 DEF Crash
  <2>3. pending' \subseteq Objs /\ refused' \subseteq Objs /\ stale' \subseteq Objs
    BY <1>19 DEF Crash, TypeOK
  <2>4. pc' = "idle" /\ UNCHANGED <<cursor, poison, emitted, bundle, pass, rows, next, landed,
                                   refusals, failed>>
    BY <1>19 DEF Crash, durable
  <2> QED
    BY <2>1, <2>2, <2>3, <2>4 DEF TypeOK
<1>20. CASE UNCHANGED vars
  BY <1>20 DEF vars, durable, broker, platform, TypeOK
<1> QED
  BY <1>1, <1>3, <1>4, <1>5, <1>7, <1>8, <1>9, <1>10, <1>11, <1>12, <1>13, <1>15, <1>16,
     <1>17, <1>18, <1>19, <1>20 DEF Next

\* The state of the publish and of its ledger in state.db stays in its schema,
\* whatever fails: no streak, refusal or row leaves its type.
THEOREM TypeCorrect == Spec => []TypeOK
<1>1. Init => TypeInv
  BY TypeInit DEF Init, TypeInv, InAPass
<1> QED
  BY <1>1, TypeStep, PTL DEF Spec, TypeInv

LEMMA TypeInvariant == Spec => []TypeInv
<1>1. Init => TypeInv
  BY TypeInit DEF Init, TypeInv, InAPass
<1> QED
  BY <1>1, TypeStep, PTL DEF Spec

-----------------------------------------------------------------------------
(* The plan of a pass: what was sent, and to whom.                         *)

Windows == UNION {Contents[w] : w \in DOMAIN Contents}

\* Between two works nothing is pending; a work is about objects of its pass.
Queue ==
  /\ pc \notin {"send", "wait"} => pending = {} /\ refused = {}
  /\ pc \in {"send", "wait"} => pending \subseteq PassObjects(pass)

\* What is on its way, or has arrived, comes from a window.
Held ==
  /\ pc # "idle" => bundle \subseteq Contents[cursor]
  /\ pending \cup stale \cup landed \subseteq Windows
  /\ landed \cap Rejected = {}

\* The chunks of the current pass partition its objects.  One that was sent is
\* with the workers; only a pass of one chunk has one that failed.
Sent ==
  pc \in {"send", "wait"} =>
    LET L == Len(rows[pass]) IN
    /\ L >= 1
    /\ next <= L + 1
    /\ \A i \in 1..L : rows[pass][i].objs \subseteq PassObjects(pass)
    /\ \A o \in PassObjects(pass) : \E i \in 1..L : o \in rows[pass][i].objs
    /\ \A i \in 1..L : i < next =>
         \/ /\ rows[pass][i].status = "enqueued"
            /\ rows[pass][i].objs \subseteq landed \cup refused \cup pending
         \/ L = 1 /\ rows[pass][i].status = "send_failed"
    /\ pc = "wait" => next = L + 1 /\ \A i \in 1..L : rows[pass][i].status = "enqueued"

Closing == pc = "advance" => ~failed /\ pass \notin Passes

PlanInv == Queue /\ Held /\ Sent /\ Closing

LEMMA AllWithWorkers ==
  ASSUME TypeInv, Sent, pc = "wait"
  PROVE  PassObjects(pass) \subseteq landed \cup refused \cup pending
<1> DEFINE L == Len(rows[pass])
<1>1. /\ next = L + 1
      /\ \A o \in PassObjects(pass) : \E i \in 1..L : o \in rows[pass][i].objs
      /\ \A i \in 1..L : i < next =>
           \/ /\ rows[pass][i].status = "enqueued"
              /\ rows[pass][i].objs \subseteq landed \cup refused \cup pending
           \/ L = 1 /\ rows[pass][i].status = "send_failed"
      /\ \A i \in 1..L : rows[pass][i].status = "enqueued"
  BY DEF Sent
<1>2. L \in Nat
  BY DEF TypeInv, TypeOK, InAPass
<1> HIDE DEF L
<1>3. ASSUME NEW i \in 1..L PROVE rows[pass][i].objs \subseteq landed \cup refused \cup pending
  <2>1. i < next
    BY <1>1, <1>2
  <2> QED
    BY <1>1, <1>3, <2>1
<1> QED
  BY <1>1, <1>3

\* A work that has a chunk has them all: a pass of several never loses one.
LEMMA AllEnqueued ==
  ASSUME TypeInv, Sent, pc = "send", next > Len(rows[pass]), Enqueued(pass) > 0
  PROVE  \A i \in 1..Len(rows[pass]) : rows[pass][i].status = "enqueued"
<1> DEFINE L == Len(rows[pass])
           Q == {i \in DOMAIN rows[pass] : rows[pass][i].status = "enqueued"}
<1>1. L \in Nat /\ DOMAIN rows[pass] = 1..L
  BY DEF TypeInv, TypeOK, InAPass
<1>2. \A i \in 1..L : i < next =>
        rows[pass][i].status = "enqueued" \/ (L = 1 /\ rows[pass][i].status = "send_failed")
  BY DEF Sent
<1>3. Cardinality(Q) > 0
  BY DEF Enqueued
<1>4. Q # {}
  <2> HIDE DEF Q
  <2>1. Q = {} => Cardinality(Q) = 0
    BY FS_EmptySet
  <2> QED
    BY <1>3, <2>1
<1>5. PICK j \in 1..L : rows[pass][j].status = "enqueued"
  BY <1>1, <1>4
<1> HIDE DEF L
<1>6. ASSUME NEW i \in 1..L, rows[pass][i].status # "enqueued" PROVE FALSE
  <2>1. i < next
    BY <1>1 DEF L, TypeInv, InAPass
  <2>2. L = 1
    BY <1>2, <1>6, <2>1
  <2> QED
    BY <1>5, <1>6, <2>2
<1> QED
  BY <1>6 DEF L

LEMMA QueueStep == TypeInv /\ Queue /\ Sent /\ [Next]_vars => Queue'
<1> SUFFICES ASSUME TypeInv, Queue, Sent, [Next]_vars PROVE Queue'
  OBVIOUS
<1>1. ASSUME NextPass PROVE Queue'
  BY <1>1 DEF NextPass, Queue
<1>2. ASSUME NEW answered \in BOOLEAN, Begin(answered) PROVE Queue'
  BY <1>2 DEF Begin, broker, Queue
<1>3. CASE SkipEmpty \/ PassFails \/ NothingEnqueued
  BY <1>1, <1>3 DEF SkipEmpty, PassFails, NothingEnqueued
<1>4. CASE Seal
  BY <1>4 DEF Seal, broker, Queue
<1>5. ASSUME pc = "send", next <= Len(rows[pass])
      PROVE  rows[pass][next].objs \subseteq PassObjects(pass)
  <2>1. next \in 1..Len(rows[pass])
    BY <1>5 DEF TypeInv, TypeOK, InAPass
  <2> QED
    BY <1>5, <2>1 DEF Sent
<1>6. CASE Send
  BY <1>5, <1>6 DEF Send, Queue, PassObjects
<1>7. ASSUME NEW delivered \in BOOLEAN, SendFails(delivered) PROVE Queue'
  BY <1>5, <1>7 DEF SendFails, Queue, PassObjects
<1>8. ASSUME NEW received \in BOOLEAN, CloseWork(received) PROVE Queue'
  BY <1>8 DEF CloseWork, Queue, PassObjects
<1>9. ASSUME NEW o \in pending, Import(o) PROVE Queue'
  BY <1>9 DEF Import, Queue, PassObjects
<1>10. ASSUME NEW o \in pending, Refuse(o) PROVE Queue'
  BY <1>10 DEF Refuse, Queue, PassObjects
<1>11. ASSUME NEW o \in stale, ImportStale(o) PROVE Queue'
  BY <1>11 DEF ImportStale, broker, Queue, PassObjects
<1>12. ASSUME NEW agree \in BOOLEAN, WorkComplete(agree) PROVE Queue'
  BY <1>1, <1>12 DEF WorkComplete, Settle
<1>13. ASSUME NEW errors \in {{}, refused}, WaitTimesOut(errors) PROVE Queue'
  BY <1>1, <1>13 DEF WaitTimesOut, Settle
<1>14. CASE EndPublish
  BY <1>14 DEF EndPublish, broker, Queue
<1>15. CASE Advance
  BY <1>15 DEF Advance, broker, Queue
<1>16. CASE Crash
  BY <1>16 DEF Crash, Queue
<1>17. CASE UNCHANGED vars
  BY <1>17 DEF vars, broker, Queue, PassObjects
<1> QED
  BY <1>2, <1>3, <1>4, <1>6, <1>7, <1>8, <1>9, <1>10, <1>11, <1>12, <1>13, <1>14, <1>15, <1>16,
     <1>17 DEF Next

LEMMA SentStep ==
  ASSUME "chunk" \notin Failures, TypeInv, Queue, Sent, [Next]_vars
  PROVE  Sent'
<1>0. pc' \notin {"send", "wait"} => Sent'
  BY DEF Sent
<1>1. \/ \E answered \in BOOLEAN : Begin(answered)
      \/ SkipEmpty \/ PassFails \/ NothingEnqueued \/ EndPublish \/ Advance \/ Crash
      \/ \E agree \in BOOLEAN : WorkComplete(agree)
      \/ \E errors \in {{}, refused} : WaitTimesOut(errors)
      => pc' \notin {"send", "wait"}
  BY DEF Begin, SkipEmpty, PassFails, NothingEnqueued, EndPublish, Advance, Crash,
         WorkComplete, WaitTimesOut, Settle, NextPass
<1>2. CASE Seal
  <2>1. PICK parts \in Split(PassObjects(pass)) :
          rows' = [rows EXCEPT ![pass] =
                     [i \in DOMAIN parts |-> [objs |-> parts[i], status |-> "planned", errors |-> 0]]]
    BY <1>2 DEF Seal
  <2>2. PassObjects(pass) \in SUBSET Objs /\ PassObjects(pass) # {}
    BY <1>2 DEF Seal, PassObjects, TypeInv, TypeOK
  <2>3. parts \in Seq(SUBSET PassObjects(pass)) /\ UNION {parts[i] : i \in DOMAIN parts} = PassObjects(pass)
    BY <2>1, <2>2, PlanIsSequence
  <2>4. next' = 1 /\ pc' = "send" /\ pass' = pass /\ PassObjects(pass)' = PassObjects(pass)
    BY <1>2 DEF Seal, PassObjects
  <2> DEFINE S == PassObjects(pass)
             L == Len(parts)
  <2>5. L \in Nat /\ DOMAIN parts = 1..L
    BY <2>3
  <2>6. /\ Len(rows'[pass]) = L
        /\ \A i \in 1..L : rows'[pass][i].objs = parts[i]
    <3>1. pass \in Passes /\ rows \in [Passes -> Seq(Row)]
      BY <1>2 DEF Seal, TypeInv, TypeOK
    <3>2. rows'[pass] = [i \in 1..L |-> [objs |-> parts[i], status |-> "planned", errors |-> 0]]
      BY <2>1, <2>5, <3>1
    <3> HIDE DEF L
    <3> QED
      BY <2>5, <3>2
  <2>7. L >= 1
    BY <2>2, <2>3, <2>5
  <2>8. \A i \in 1..L : parts[i] \subseteq S
    BY <2>3, <2>5
  <2>9. \A o \in S : \E i \in 1..L : o \in parts[i]
    BY <2>3, <2>5
  <2> HIDE DEF S, L
  <2>10. S' = S
    BY <2>4 DEF S
  <2>11. \A i \in 1..L : ~(i < 1)
    BY <2>5
  <2> QED
    BY <2>4, <2>5, <2>6, <2>7, <2>8, <2>9, <2>11 DEF Sent, S
<1>3. ASSUME pc = "send", next <= Len(rows[pass]), NEW status \in {"enqueued", "send_failed"},
             rows' = [rows EXCEPT ![pass][next].status = status],
             next' = next + 1, pc' = pc, pass' = pass, bundle' = bundle,
             landed' = landed, refused' = refused, pending \subseteq pending',
             \/ status = "enqueued" /\ rows[pass][next].objs \subseteq pending'
             \/ status = "send_failed" /\ Len(rows[pass]) = 1
      PROVE  Sent'
  <2> DEFINE L == Len(rows[pass])
             S == PassObjects(pass)
  <2>1. pass \in Passes /\ L \in Nat /\ next \in 1..L
    BY <1>3 DEF TypeInv, TypeOK, InAPass
  <2>2. /\ Len(rows'[pass]) = L
        /\ \A j \in 1..L : /\ rows'[pass][j].objs = rows[pass][j].objs
                           /\ rows'[pass][j].status = IF j = next THEN status ELSE rows[pass][j].status
    <3>1. TypeOK /\ next \in 1..Len(rows[pass]) /\ status \in Statuses
      BY <1>3, <2>1 DEF TypeInv, Statuses
    <3>2. rows' = [rows EXCEPT ![pass][next].status = status]
      BY <1>3
    <3> QED
      BY <2>1, <3>1, <3>2, RowMarked
  <2>3. PassObjects(pass)' = S
    BY <1>3 DEF PassObjects
  <2>4. /\ \A i \in 1..L : rows[pass][i].objs \subseteq S
        /\ \A o \in S : \E i \in 1..L : o \in rows[pass][i].objs
        /\ \A i \in 1..L : i < next =>
             \/ /\ rows[pass][i].status = "enqueued"
                /\ rows[pass][i].objs \subseteq landed \cup refused \cup pending
             \/ L = 1 /\ rows[pass][i].status = "send_failed"
    BY <1>3 DEF Sent
  <2> HIDE DEF L, S
  <2>5. ASSUME NEW i \in 1..L, i < next'
        PROVE  \/ /\ rows'[pass][i].status = "enqueued"
                  /\ rows'[pass][i].objs \subseteq landed' \cup refused' \cup pending'
               \/ L = 1 /\ rows'[pass][i].status = "send_failed"
    <3>1. CASE i = next
      BY <1>3, <2>2, <3>1 DEF L
    <3>2. CASE i # next
      <4>1. i < next
        BY <1>3, <2>1, <2>5, <3>2
      <4> QED
        BY <1>3, <2>2, <2>4, <3>2, <4>1
    <3> QED
      BY <3>1, <3>2
  <2>6. L >= 1 /\ next' <= L + 1 /\ pc' # "wait" /\ pass' = pass
    BY <1>3, <2>1
  <2>7. /\ \A i \in 1..L : rows'[pass][i].objs \subseteq S
        /\ \A o \in S : \E i \in 1..L : o \in rows'[pass][i].objs
    BY <2>2, <2>4
  <2> QED
    BY <2>2, <2>3, <2>5, <2>6, <2>7 DEF Sent
<1>4. CASE Send
  <2>1. rows[pass][next].objs \subseteq pending' /\ pending \subseteq pending'
    BY <1>4 DEF Send
  <2> QED
    BY <1>3, <1>4, <2>1 DEF Send, platform
<1>5. ASSUME NEW delivered \in BOOLEAN, SendFails(delivered) PROVE Sent'
  <2>1. Len(rows[pass]) = 1
    BY <1>5 DEF SendFails, Fail
  <2>2. pending \subseteq pending'
    BY <1>5 DEF SendFails
  <2> QED
    BY <1>3, <1>5, <2>1, <2>2 DEF SendFails, platform
<1>6. ASSUME NEW received \in BOOLEAN, CloseWork(received) PROVE Sent'
  <2>1. \A i \in 1..Len(rows[pass]) : rows[pass][i].status = "enqueued"
    BY <1>6, AllEnqueued DEF CloseWork
  <2>2. /\ rows' = rows /\ next' = next /\ pass' = pass /\ bundle' = bundle /\ landed' = landed
        /\ refused' = refused /\ pending' = pending /\ pc' = "wait" /\ pc = "send"
    BY <1>6 DEF CloseWork, platform
  <2>3. PassObjects(pass)' = PassObjects(pass)
    BY <2>2 DEF PassObjects
  <2>4. next = Len(rows[pass]) + 1
    BY <1>6 DEF CloseWork, Sent, TypeInv, TypeOK, InAPass
  <2> QED
    BY <2>1, <2>2, <2>3, <2>4 DEF Sent
<1>7. ASSUME pc' = pc, rows' = rows, next' = next, pass' = pass, bundle' = bundle,
             landed \cup refused \cup pending \subseteq landed' \cup refused' \cup pending'
      PROVE  Sent'
  <2>1. PassObjects(pass)' = PassObjects(pass)
    BY <1>7 DEF PassObjects
  <2> QED
    BY <1>7, <2>1 DEF Sent
<1>8. ASSUME NEW o \in pending, Import(o) \/ Refuse(o) PROVE Sent'
  BY <1>7, <1>8 DEF Import, Refuse
<1>9. ASSUME NEW o \in stale, ImportStale(o) PROVE Sent'
  BY <1>7, <1>9 DEF ImportStale, broker
<1>10. CASE UNCHANGED vars
  BY <1>7, <1>10 DEF vars, broker, platform
<1> QED
  BY <1>0, <1>1, <1>2, <1>4, <1>5, <1>6, <1>8, <1>9, <1>10 DEF Next

LEMMA HeldStep == TypeInv /\ Queue /\ Sent /\ Held /\ [Next]_vars => Held'
<1> SUFFICES ASSUME TypeInv, Queue, Sent, Held, [Next]_vars PROVE Held'
  OBVIOUS
<1>1. ASSUME NextPass, UNCHANGED <<cursor, bundle, landed>>, pc # "idle" PROVE Held'
  BY <1>1 DEF NextPass, Held
<1>2. ASSUME NEW answered \in BOOLEAN, Begin(answered) PROVE Held'
  <2>1. bundle' \subseteq Contents[cursor]'
    BY <1>2 DEF Begin, Suppressed, Resolvable, durable
  <2> QED
    BY <1>2, <2>1 DEF Begin, Held, broker, platform
<1>3. CASE SkipEmpty \/ PassFails \/ NothingEnqueued
  BY <1>1, <1>3 DEF SkipEmpty, PassFails, NothingEnqueued, durable
<1>4. CASE Seal
  BY <1>4 DEF Seal, broker, platform, durable, Held
<1>5. ASSUME pc = "send", next <= Len(rows[pass])
      PROVE  rows[pass][next].objs \subseteq Windows
  <2>1. next \in 1..Len(rows[pass])
    BY <1>5 DEF TypeInv, TypeOK, InAPass
  <2>2. cursor \in DOMAIN Contents
    BY <1>5, ObjectAssumption DEF TypeInv, TypeOK, InAPass
  <2>3. rows[pass][next].objs \subseteq PassObjects(pass)
    BY <1>5, <2>1 DEF Sent
  <2>4. bundle \subseteq Contents[cursor]
    BY <1>5 DEF Held
  <2> QED
    BY <2>2, <2>3, <2>4 DEF PassObjects, Windows
<1>6. CASE Send
  BY <1>5, <1>6 DEF Send, Held, durable, platform
<1>7. ASSUME NEW delivered \in BOOLEAN, SendFails(delivered) PROVE Held'
  BY <1>5, <1>7 DEF SendFails, Held, durable, platform
<1>8. ASSUME NEW received \in BOOLEAN, CloseWork(received) PROVE Held'
  BY <1>8 DEF CloseWork, Held, durable, platform
<1>9. ASSUME NEW o \in pending, Import(o) PROVE Held'
  BY <1>9 DEF Import, Acceptable, Held, durable
<1>10. ASSUME NEW o \in pending, Refuse(o) PROVE Held'
  BY <1>10 DEF Refuse, Held, durable
<1>11. ASSUME NEW o \in stale, ImportStale(o) PROVE Held'
  BY <1>11 DEF ImportStale, Acceptable, broker, durable, Held
<1>12. ASSUME NEW agree \in BOOLEAN, WorkComplete(agree) PROVE Held'
  BY <1>1, <1>12 DEF WorkComplete, Complete, Settle
<1>13. ASSUME NEW errors \in {{}, refused}, WaitTimesOut(errors) PROVE Held'
  BY <1>1, <1>13 DEF WaitTimesOut, Settle
<1>14. CASE EndPublish
  BY <1>14 DEF EndPublish, broker, platform, Held
<1>15. CASE Advance
  BY <1>15 DEF Advance, broker, platform, Held
<1>16. CASE Crash
  BY <1>16 DEF Crash, durable, Held
<1>17. CASE UNCHANGED vars
  BY <1>17 DEF vars, broker, platform, durable, Held
<1> QED
  BY <1>2, <1>3, <1>4, <1>6, <1>7, <1>8, <1>9, <1>10, <1>11, <1>12, <1>13, <1>14, <1>15, <1>16,
     <1>17 DEF Next

LEMMA ClosingStep == Closing /\ [Next]_vars => Closing'
<1> SUFFICES ASSUME Closing, [Next]_vars PROVE Closing'
  OBVIOUS
<1>1. CASE EndPublish
  BY <1>1 DEF EndPublish, Closing
<1>2. \/ \E answered \in BOOLEAN : Begin(answered)
      \/ SkipEmpty \/ PassFails \/ Seal \/ Send \/ NothingEnqueued \/ Advance \/ Crash
      \/ \E delivered \in BOOLEAN : SendFails(delivered)
      \/ \E received \in BOOLEAN : CloseWork(received)
      \/ \E agree \in BOOLEAN : WorkComplete(agree)
      \/ \E errors \in {{}, refused} : WaitTimesOut(errors)
      => pc' # "advance"
  BY DEF Begin, SkipEmpty, PassFails, Seal, Send, SendFails, NothingEnqueued, CloseWork, Advance,
         Crash, WorkComplete, WaitTimesOut, Settle, NextPass
<1>3. \/ \E o \in pending : Import(o) \/ Refuse(o)
      \/ \E o \in stale : ImportStale(o)
      \/ UNCHANGED vars
      => UNCHANGED <<pc, failed, pass>>
  BY DEF Import, Refuse, ImportStale, vars
<1> QED
  BY <1>1, <1>2, <1>3 DEF Next, Closing

LEMMA PlanInit == Init => TypeInv /\ PlanInv
<1> SUFFICES ASSUME Init PROVE TypeInv /\ PlanInv
  OBVIOUS
<1>1. TypeInv
  BY TypeInit DEF Init, TypeInv, InAPass
<1>2. Queue /\ Held /\ Sent /\ Closing
  BY DEF Init, Queue, Held, Sent, Closing
<1> QED
  BY <1>1, <1>2 DEF PlanInv

LEMMA PlanInvariant ==
  ASSUME "chunk" \notin Failures
  PROVE  Spec => [](TypeInv /\ PlanInv)
<1>1. TypeInv /\ PlanInv /\ [Next]_vars => TypeInv' /\ PlanInv'
  BY TypeStep, QueueStep, HeldStep, SentStep, ClosingStep DEF PlanInv
<1> QED
  BY <1>1, PlanInit, PTL DEF Spec

-----------------------------------------------------------------------------
(* What the cursor leaves behind.  The streak of a pass counts refusals: an *)
(* object of its signature was refused in as many works.                   *)

\* An object that no window brings, or that OpenCTI never accepts.
Never(o) == o \in Rejected \/ o \notin Windows

\* An edge is in the same window as its endpoints, unless one of them never
\* arrives at all.
RefsTogether ==
  \A w \in DOMAIN Contents : \A o \in Contents[w] : \A r \in Refs[o] :
    r \in Contents[w] \/ Never(r)

Proven(o) ==
  \/ o \in landed
  \/ refusals[o] = QuarantineAfter
  \/ \E r \in Refs[o] : Never(r)

StreakCounts ==
  /\ \A p \in Passes : \A o \in poison[p].sig :
       refusals[o] >= Smaller(poison[p].n, QuarantineAfter)
  /\ \A o \in refused :
       refusals[o] >= Smaller(1 + (IF o \in poison[pass].sig THEN poison[pass].n ELSE 0),
                              QuarantineAfter)

LeftInv ==
  /\ \A o \in Published \cup emitted : Proven(o)
  /\ pc # "idle" => \A o \in Contents[cursor] : o \in bundle \/ Proven(o)
  /\ pc # "idle" /\ ~failed => \A o \in bundle : PassOf[o] < pass => Proven(o)

LEMMA Grows ==
  ASSUME TypeInv, [Next]_vars
  PROVE  landed \subseteq landed' /\ \A o \in Objs : refusals[o] <= refusals'[o]
<1>1. \A o \in Objs : refusals[o] \in 0..QuarantineAfter
  BY DEF TypeInv, TypeOK
<1>2. QuarantineAfter \in Nat
  BY PolicyAssumption
<1>3. CASE landed \subseteq landed' /\ refusals' = refusals
  BY <1>1, <1>2, <1>3
<1>4. ASSUME NEW o \in pending, Refuse(o)
      PROVE  landed \subseteq landed' /\ \A x \in Objs : refusals[x] <= refusals'[x]
  BY <1>1, <1>2, <1>4 DEF Refuse, Smaller, TypeInv, TypeOK
<1>5. \/ \E answered \in BOOLEAN : Begin(answered)
      \/ SkipEmpty \/ PassFails \/ Seal \/ Send \/ NothingEnqueued \/ Advance \/ Crash
      \/ EndPublish
      \/ \E delivered \in BOOLEAN : SendFails(delivered)
      \/ \E received \in BOOLEAN : CloseWork(received)
      \/ \E agree \in BOOLEAN : WorkComplete(agree)
      \/ \E errors \in {{}, refused} : WaitTimesOut(errors)
      \/ UNCHANGED vars
      => landed' = landed /\ refusals' = refusals
  BY DEF Begin, SkipEmpty, PassFails, Seal, Send, SendFails, NothingEnqueued, CloseWork, Advance,
         Crash, WorkComplete, WaitTimesOut, Settle, EndPublish, platform, vars
<1>6. \/ \E o \in pending : Import(o)
      \/ \E o \in stale : ImportStale(o)
      => landed \subseteq landed' /\ refusals' = refusals
  BY DEF Import, ImportStale
<1> QED
  BY <1>3, <1>4, <1>5, <1>6 DEF Next

LEMMA ProvenStays ==
  ASSUME TypeInv, [Next]_vars, NEW o \in Objs, Proven(o)
  PROVE  Proven(o)'
<1>1. refusals[o] \in 0..QuarantineAfter /\ refusals'[o] \in 0..QuarantineAfter
  BY TypeStep DEF TypeInv, TypeOK
<1>2. QuarantineAfter \in Nat
  BY PolicyAssumption
<1>3. landed \subseteq landed' /\ refusals[o] <= refusals'[o]
  BY Grows
<1>4. CASE refusals[o] = QuarantineAfter
  <2>1. refusals'[o] = QuarantineAfter
    BY <1>1, <1>2, <1>3, <1>4
  <2> QED
    BY <2>1 DEF Proven
<1>5. CASE o \in landed
  BY <1>3, <1>5 DEF Proven
<1>6. CASE \E r \in Refs[o] : Never(r)
  BY <1>6 DEF Proven, Never
<1> QED
  BY <1>4, <1>5, <1>6 DEF Proven

\* A row of the streak is one refusal more: the streak goes on, or begins.
LEMMA NotedCounts ==
  ASSUME TypeInv, StreakCounts, pass \in Passes, NEW errors \in {{}, refused}, NEW o \in errors
  PROVE  /\ o \in Objs
         /\ refusals[o] >= Smaller(Noted(pass, errors).n, QuarantineAfter)
<1>1. o \in refused /\ errors = refused /\ o \in Objs
  BY DEF TypeInv, TypeOK
<1>2. poison[pass].n \in Nat /\ QuarantineAfter \in Nat \ {0} /\ refusals[o] \in Nat
  BY <1>1, PolicyAssumption DEF TypeInv, TypeOK, Streak
<1>3. refusals[o] >= Smaller(1 + (IF o \in poison[pass].sig THEN poison[pass].n ELSE 0),
                             QuarantineAfter)
  BY <1>1 DEF StreakCounts
<1>4. CASE poison[pass].n > 0 /\ poison[pass].sig = errors
  <2>1. Noted(pass, errors).n = poison[pass].n + 1 /\ o \in poison[pass].sig
    BY <1>4 DEF Noted
  <2>2. refusals[o] >= Smaller(1 + poison[pass].n, QuarantineAfter)
    BY <1>3, <2>1
  <2> QED
    BY <1>1, <1>2, <2>1, <2>2 DEF Smaller
<1>5. CASE ~(poison[pass].n > 0 /\ poison[pass].sig = errors)
  <2>1. Noted(pass, errors).n = 1
    BY <1>5 DEF Noted
  <2>2. refusals[o] >= 1
    BY <1>2, <1>3 DEF Smaller
  <2> QED
    BY <1>1, <1>2, <2>1, <2>2 DEF Smaller
<1> QED
  BY <1>4, <1>5

LEMMA StreakStep == TypeInv /\ Queue /\ StreakCounts /\ [Next]_vars => StreakCounts'
<1> SUFFICES ASSUME TypeInv, Queue, StreakCounts, [Next]_vars PROVE StreakCounts'
  OBVIOUS
<1>0. QuarantineAfter \in Nat \ {0}
  BY PolicyAssumption
<1>1. /\ \A o \in Objs : refusals[o] \in 0..QuarantineAfter /\ refusals'[o] \in 0..QuarantineAfter
                         /\ refusals[o] <= refusals'[o]
      /\ \A p \in Passes : poison[p].sig \subseteq Objs /\ poison[p].n \in Nat
      /\ refused \subseteq Objs
  BY TypeStep, Grows DEF TypeInv, TypeOK, Streak
<1>2. ASSUME poison' = poison, refused' = {} \/ (refused' = refused /\ pass' = pass /\ pass \in Passes)
      PROVE  StreakCounts'
  <2>1. ASSUME NEW p \in Passes, NEW o \in poison[p].sig
        PROVE  refusals'[o] >= Smaller(poison[p].n, QuarantineAfter)
    <3>1. o \in Objs /\ poison[p].n \in Nat /\ refusals[o] >= Smaller(poison[p].n, QuarantineAfter)
      BY <1>1, <2>1 DEF StreakCounts
    <3> QED
      BY <1>0, <1>1, <3>1 DEF Smaller
  <2>2. ASSUME NEW o \in refused, pass \in Passes
        PROVE  refusals'[o] >= Smaller(1 + (IF o \in poison[pass].sig THEN poison[pass].n ELSE 0),
                                       QuarantineAfter)
    <3> DEFINE k == IF o \in poison[pass].sig THEN poison[pass].n ELSE 0
    <3>1. o \in Objs /\ k \in Nat /\ refusals[o] >= Smaller(1 + k, QuarantineAfter)
      BY <1>1, <2>2 DEF StreakCounts
    <3> HIDE DEF k
    <3>2. refusals'[o] >= Smaller(1 + k, QuarantineAfter)
      BY <1>0, <1>1, <3>1 DEF Smaller
    <3> QED
      BY <3>2 DEF k
  <2> QED
    BY <1>2, <2>1, <2>2 DEF StreakCounts
<1>3. ASSUME NEW answered \in BOOLEAN, Begin(answered) PROVE StreakCounts'
  BY <1>2, <1>3 DEF Begin, broker, durable, Queue
<1>4. CASE SkipEmpty \/ PassFails \/ NothingEnqueued
  BY <1>2, <1>4 DEF SkipEmpty, PassFails, NothingEnqueued, NextPass, durable
<1>5. CASE Seal
  BY <1>2, <1>5 DEF Seal, broker, durable
<1>6. CASE Send
  BY <1>2, <1>6 DEF Send, durable, TypeInv, InAPass
<1>7. ASSUME NEW delivered \in BOOLEAN, SendFails(delivered) PROVE StreakCounts'
  BY <1>2, <1>7 DEF SendFails, durable, TypeInv, InAPass
<1>8. ASSUME NEW received \in BOOLEAN, CloseWork(received) PROVE StreakCounts'
  BY <1>2, <1>8 DEF CloseWork, durable, TypeInv, InAPass
<1>9. ASSUME NEW o \in pending, Import(o) PROVE StreakCounts'
  BY <1>2, <1>9 DEF Import, durable, Queue, TypeInv, InAPass
<1>10. ASSUME NEW x \in pending, Refuse(x) PROVE StreakCounts'
  <2>1. poison' = poison /\ pass' = pass /\ pass \in Passes /\ refused' = refused \cup {x} /\ x \in Objs
    BY <1>10 DEF Refuse, durable, Queue, TypeInv, TypeOK, InAPass
  <2>2. ASSUME NEW p \in Passes, NEW o \in poison[p].sig
        PROVE  refusals'[o] >= Smaller(poison[p].n, QuarantineAfter)
    <3>1. o \in Objs /\ poison[p].n \in Nat /\ refusals[o] >= Smaller(poison[p].n, QuarantineAfter)
      BY <1>1, <2>2 DEF StreakCounts
    <3> QED
      BY <1>0, <1>1, <3>1 DEF Smaller
  <2>3. ASSUME NEW o \in refused \cup {x}
        PROVE  refusals'[o] >= Smaller(1 + (IF o \in poison[pass].sig THEN poison[pass].n ELSE 0),
                                       QuarantineAfter)
    <3> DEFINE k == IF o \in poison[pass].sig THEN poison[pass].n ELSE 0
    <3>1. o \in Objs /\ k \in Nat
      BY <1>1, <2>1, <2>3
    <3>2. CASE o = x
      <4>1. refusals[o] >= Smaller(k, QuarantineAfter)
        BY <1>0, <1>1, <2>1, <3>1 DEF StreakCounts, Smaller
      <4>2. refusals'[o] = Smaller(refusals[o] + 1, QuarantineAfter)
        BY <1>10, <2>1, <3>2 DEF Refuse, TypeInv, TypeOK
      <4> HIDE DEF k
      <4>3. refusals'[o] >= Smaller(1 + k, QuarantineAfter)
        BY <1>0, <1>1, <3>1, <4>1, <4>2 DEF Smaller
      <4> QED
        BY <4>3 DEF k
    <3>3. CASE o # x
      <4>1. refusals[o] >= Smaller(1 + k, QuarantineAfter)
        BY <2>3, <3>3 DEF StreakCounts
      <4> HIDE DEF k
      <4>2. refusals'[o] >= Smaller(1 + k, QuarantineAfter)
        BY <1>0, <1>1, <3>1, <4>1 DEF Smaller
      <4> QED
        BY <4>2 DEF k
    <3> QED
      BY <3>2, <3>3
  <2> QED
    BY <2>1, <2>2, <2>3 DEF StreakCounts
<1>11. ASSUME NEW o \in stale, ImportStale(o) PROVE StreakCounts'
  BY <1>2, <1>11 DEF ImportStale, broker, durable, Queue, TypeInv, InAPass
<1>12. ASSUME NEW status \in {"complete", "timeout"}, NEW errors \in {{}, refused},
              NEW agree \in BOOLEAN, pc = "wait", Settle(status, errors, agree)
       PROVE  StreakCounts'
  <2>1. pass \in Passes /\ errors \in SUBSET refused
    BY <1>12 DEF Settle, NextPass, TypeInv, InAPass
  <2>2. /\ \A q \in Passes \ {pass} : poison'[q] = poison[q]
        /\ poison'[pass] \in {NoStreak, Noted(pass, errors)}
    BY <1>12, <2>1, Outcomes DEF TypeInv
  <2>3. refused' = {} /\ refusals' = refusals
    BY <1>12 DEF Settle, NextPass
  <2>4. ASSUME NEW p \in Passes, NEW o \in poison'[p].sig
        PROVE  refusals[o] >= Smaller(poison'[p].n, QuarantineAfter)
    <3>1. CASE p # pass
      BY <2>2, <2>4, <3>1 DEF StreakCounts
    <3>2. CASE p = pass
      <4>1. poison'[p] = Noted(pass, errors) /\ Noted(pass, errors).sig = errors
        BY <2>2, <2>4, <3>2 DEF NoStreak, Noted
      <4> QED
        BY <1>12, <2>1, <2>4, <3>2, <4>1, NotedCounts
    <3> QED
      BY <3>1, <3>2
  <2> QED
    BY <2>3, <2>4 DEF StreakCounts
<1>13. ASSUME NEW agree \in BOOLEAN, WorkComplete(agree) PROVE StreakCounts'
  <2>1. pc = "wait" /\ Settle("complete", refused, agree)
    BY <1>13 DEF WorkComplete, Complete
  <2> QED
    BY <1>12, <2>1
<1>14. ASSUME NEW errors \in {{}, refused}, WaitTimesOut(errors) PROVE StreakCounts'
  <2>1. pc = "wait" /\ Settle("timeout", errors, FALSE)
    BY <1>14 DEF WaitTimesOut
  <2>2. FALSE \in BOOLEAN /\ "timeout" \in {"complete", "timeout"}
    OBVIOUS
  <2> QED
    BY <1>12, <2>1, <2>2
<1>15. CASE EndPublish
  BY <1>2, <1>15 DEF EndPublish, broker, Queue
<1>16. CASE Advance
  BY <1>2, <1>16 DEF Advance, broker, Queue
<1>17. CASE Crash
  BY <1>2, <1>17 DEF Crash, durable
<1>18. CASE UNCHANGED vars
  <2>1. refused' = refused /\ pass' = pass /\ poison' = poison
    BY <1>18 DEF vars, broker, durable
  <2> QED
    BY <1>2, <2>1 DEF Queue, TypeInv, InAPass
<1> QED
  BY <1>3, <1>4, <1>5, <1>6, <1>7, <1>8, <1>9, <1>10, <1>11, <1>13, <1>14, <1>15, <1>16, <1>17,
     <1>18 DEF Next

\* When a work makes no error of its pass, every object of the pass is proven.
LEMMA SettledProven ==
  ASSUME TypeInv, Sent, StreakCounts, pc = "wait", NEW agree \in BOOLEAN,
         NEW status \in {"complete", "timeout"}, NEW errors \in {{}, refused},
         status = "complete" => Complete /\ errors = refused,
         Settle(status, errors, agree), ~failed'
  PROVE  ~failed /\ \A o \in PassObjects(pass) : Proven(o)
<1>0. pass \in Passes /\ errors \in SUBSET refused
  BY DEF TypeInv, InAPass
<1>1. /\ status = "complete"
      /\ failed' = failed
      /\ errors = {} \/ Noted(pass, errors).n >= QuarantineAfter
  BY <1>0, Outcomes DEF TypeInv
<1>2. ~failed /\ PassObjects(pass) \subseteq landed \cup errors
  BY <1>1, AllWithWorkers DEF Complete
<1>3. ASSUME NEW o \in errors PROVE refusals[o] = QuarantineAfter
  <2>1. Noted(pass, errors).n >= QuarantineAfter
    BY <1>1, <1>3
  <2>2. o \in Objs /\ refusals[o] >= Smaller(Noted(pass, errors).n, QuarantineAfter)
    BY <1>0, <1>3, NotedCounts
  <2>3. Noted(pass, errors).n \in Nat
    BY <1>0, StreaksTyped DEF TypeInv, TypeOK, Streak
  <2>4. refusals[o] \in 0..QuarantineAfter /\ QuarantineAfter \in Nat
    BY <2>2, PolicyAssumption DEF TypeInv, TypeOK
  <2> QED
    BY <2>1, <2>2, <2>3, <2>4 DEF Smaller
<1> QED
  BY <1>2, <1>3 DEF Proven

\* An object that is stripped needs one that never arrives.
LEMMA StrippedProven ==
  ASSUME TypeInv, LeftInv, RefsTogether, NEW answered \in BOOLEAN, Begin(answered),
         NEW o \in Contents[cursor]
  PROVE  o \in bundle' \/ Proven(o)
<1>1. cursor \in DOMAIN Contents
  BY ObjectAssumption DEF Begin, TypeInv, TypeOK
<1>2. CASE o \notin Resolvable(Contents[cursor], answered)
  <2>1. PICK r \in Refs[o] : r \notin Contents[cursor] \cup landed
    BY <1>2 DEF Resolvable
  <2>2. Never(r)
    BY <1>1, <2>1 DEF RefsTogether
  <2> QED
    BY <2>1, <2>2 DEF Proven
<1>3. CASE o \in emitted
  BY <1>3 DEF LeftInv
<1> QED
  BY <1>2, <1>3 DEF Begin, Suppressed

LEMMA LeftStep ==
  ASSUME RefsTogether, TypeInv, PlanInv, StreakCounts, LeftInv, [Next]_vars
  PROVE  LeftInv'
<1>0. /\ \A o \in Objs : Proven(o) => Proven(o)'
      /\ \A o \in Objs : PassOf[o] \in {1, 2, 3}
      /\ pass \in 1..4 /\ bundle \subseteq Objs /\ emitted \subseteq Objs
      /\ cursor \in Nat \ {0}
  BY ProvenStays, ObjectAssumption, PassesAre DEF TypeInv, TypeOK
<1>1. \A w \in DOMAIN Contents : Contents[w] \subseteq Objs
  BY ObjectAssumption
<1>2. Published \subseteq Objs /\ (pc # "idle" => Contents[cursor] \subseteq Objs)
  <2>1. Len(Contents) \in Nat /\ DOMAIN Contents = 1..Len(Contents)
    BY ObjectAssumption
  <2>2. \A w \in 1..(cursor - 1) : w \in DOMAIN Contents
    BY <2>1 DEF TypeInv, TypeOK
  <2>3. pc # "idle" => cursor \in DOMAIN Contents
    BY <2>1 DEF TypeInv, TypeOK, InAPass
  <2> QED
    BY <1>1, <2>2, <2>3 DEF Published
<1>3. ASSUME cursor' = cursor PROVE Published' = Published
  BY <1>3 DEF Published
\* A step within a cycle: nothing given up is taken back.
<1>4. ASSUME UNCHANGED <<cursor, emitted, bundle, pass>>, pc' = "idle" \/ pc # "idle",
             failed \/ ~failed => failed' = failed
      PROVE  LeftInv'
  BY <1>0, <1>2, <1>3, <1>4 DEF LeftInv
<1>5. CASE Seal
  BY <1>4, <1>5 DEF Seal, durable
<1>6. CASE Send
  BY <1>4, <1>6 DEF Send, durable
<1>7. ASSUME NEW delivered \in BOOLEAN, SendFails(delivered) PROVE LeftInv'
  BY <1>4, <1>7 DEF SendFails, durable
<1>8. ASSUME NEW received \in BOOLEAN, CloseWork(received) PROVE LeftInv'
  BY <1>4, <1>8 DEF CloseWork, durable
<1>9. ASSUME NEW o \in pending, Import(o) \/ Refuse(o) PROVE LeftInv'
  BY <1>4, <1>9 DEF Import, Refuse, durable, PlanInv, Queue
<1>10. ASSUME NEW o \in stale, ImportStale(o) PROVE LeftInv'
  <2>1. UNCHANGED <<cursor, emitted, bundle, pass, pc, failed>>
    BY <1>10 DEF ImportStale, durable
  <2> QED
    BY <1>0, <1>2, <1>3, <2>1 DEF LeftInv
<1>11. CASE Crash
  BY <1>4, <1>11 DEF Crash, durable
<1>12. CASE UNCHANGED vars
  <2>1. UNCHANGED <<cursor, emitted, bundle, pass, pc, failed>>
    BY <1>12 DEF vars, durable
  <2> QED
    BY <1>0, <1>2, <1>3, <2>1 DEF LeftInv
\* The end of a pass: it is an error, or its objects are proven.
<1>13. ASSUME UNCHANGED <<cursor, emitted, bundle>>, pass' = pass + 1, pc # "idle",
              ~failed' => ~failed /\ \A o \in PassObjects(pass) : Proven(o)
       PROVE  LeftInv'
  <2>1. ASSUME ~failed', NEW o \in bundle, PassOf[o] < pass' PROVE Proven(o)'
    <3>1. PassOf[o] < pass \/ PassOf[o] = pass
      BY <1>0, <1>13, <2>1
    <3>2. Proven(o)
      BY <1>13, <2>1, <3>1 DEF LeftInv, PassObjects
    <3> QED
      BY <1>0, <3>2
  <2> QED
    BY <1>0, <1>2, <1>3, <1>13, <2>1 DEF LeftInv
<1>14. CASE SkipEmpty
  BY <1>13, <1>14 DEF SkipEmpty, NextPass, durable
<1>15. CASE PassFails \/ NothingEnqueued
  BY <1>13, <1>15 DEF PassFails, NothingEnqueued, NextPass, durable
<1>16. ASSUME NEW agree \in BOOLEAN, WorkComplete(agree) PROVE LeftInv'
  <2>1. pc = "wait" /\ Complete /\ Settle("complete", refused, agree)
    BY <1>16 DEF WorkComplete, Complete
  <2>2. ~failed' => ~failed /\ \A o \in PassObjects(pass) : Proven(o)
    BY <2>1, SettledProven DEF PlanInv
  <2> QED
    BY <1>13, <2>1, <2>2 DEF Settle, NextPass
<1>17. ASSUME NEW errors \in {{}, refused}, WaitTimesOut(errors) PROVE LeftInv'
  <2>1. pc = "wait" /\ Settle("timeout", errors, FALSE)
    BY <1>17 DEF WaitTimesOut
  <2>2. FALSE \in BOOLEAN /\ "timeout" \in {"complete", "timeout"} /\ "timeout" # "complete"
    OBVIOUS
  <2>3. ~failed' => ~failed /\ \A o \in PassObjects(pass) : Proven(o)
    BY <2>1, <2>2, SettledProven DEF PlanInv
  <2> QED
    BY <1>13, <2>1, <2>3 DEF Settle, NextPass
<1>18. ASSUME NEW answered \in BOOLEAN, Begin(answered) PROVE LeftInv'
  <2>1. cursor' = cursor /\ emitted' = emitted /\ pass' = 1
    BY <1>18 DEF Begin, durable
  <2>2. cursor \in DOMAIN Contents
    BY <1>18, ObjectAssumption DEF Begin, TypeInv, TypeOK
  <2>3. \A o \in Contents[cursor] : o \in bundle' \/ Proven(o)'
    BY <1>0, <1>1, <1>18, <2>2, StrippedProven
  <2>4. bundle' \subseteq Objs
    BY TypeStep DEF TypeInv, TypeOK
  <2>5. \A o \in bundle' : ~(PassOf[o] < pass')
    BY <1>0, <2>1, <2>4
  <2> QED
    BY <1>0, <1>2, <1>3, <2>1, <2>3, <2>5 DEF LeftInv
<1>19. ASSUME ~failed, pc # "idle", pass \notin Passes PROVE \A o \in Contents[cursor] : Proven(o)
  <2>1. pass = 4
    BY <1>0, <1>19, PassesAre
  <2>2. \A o \in bundle : PassOf[o] < pass
    BY <1>0, <2>1
  <2> QED
    BY <1>19, <2>2 DEF LeftInv
<1>20. CASE EndPublish
  <2>1. \A o \in emitted' : Proven(o)
    <3>1. emitted' = emitted \cup NewlyEmitted
      BY <1>20 DEF EndPublish
    <3>2. ~failed => \A o \in bundle : Proven(o)
      BY <1>19, <1>20 DEF EndPublish, PlanInv, Held
    <3> QED
      BY <3>1, <3>2 DEF NewlyEmitted, LeftInv
  <2>2. emitted' \subseteq Objs
    BY TypeStep DEF TypeInv, TypeOK
  <2>3. UNCHANGED <<cursor, bundle, pass, failed>> /\ pc # "idle"
    BY <1>20 DEF EndPublish
  <2> QED
    BY <1>0, <1>2, <1>3, <2>1, <2>2, <2>3 DEF LeftInv
<1>21. CASE Advance
  <2>1. cursor' = cursor + 1 /\ pc' = "idle" /\ emitted' = emitted
    BY <1>21 DEF Advance
  <2>2. \A o \in Contents[cursor] : Proven(o)
    BY <1>19, <1>21 DEF Advance, PlanInv, Closing
  <2>3. Published' = Published \cup Contents[cursor]
    <3>1. 1..(cursor' - 1) = 1..(cursor - 1) \cup {cursor}
      BY <1>0, <2>1
    <3> QED
      BY <3>1 DEF Published
  <2>4. pc # "idle"
    BY <1>21 DEF Advance
  <2> QED
    BY <1>0, <1>2, <2>1, <2>2, <2>3, <2>4 DEF LeftInv
<1> QED
  BY <1>5, <1>6, <1>7, <1>8, <1>9, <1>10, <1>11, <1>12, <1>14, <1>15, <1>16, <1>17, <1>18,
     <1>20, <1>21 DEF Next

LEMMA ProvenGivesUp ==
  ASSUME Held, NEW o, Proven(o)
  PROVE  o \in landed \/ refusals[o] = QuarantineAfter \/ ~(Refs[o] \subseteq landed)
BY DEF Held, Never, Proven

LEMMA LeftInit == Init => StreakCounts /\ LeftInv
<1> SUFFICES ASSUME Init PROVE StreakCounts /\ LeftInv
  OBVIOUS
<1>1. Published = {}
  BY DEF Init, Published
<1>2. \A p \in Passes : poison[p].sig = {}
  BY DEF Init, NoStreak
<1> QED
  BY <1>1, <1>2 DEF Init, StreakCounts, LeftInv

\* Whatever fails apart from single chunks, and whatever OpenCTI refuses, the
\* cursor leaves an object behind only when OpenCTI has it, refused it in
\* QuarantineAfter works, or lacks something it refers to.  The edges of a
\* window refer to objects of the same window, or to what never arrives.
THEOREM CursorLeavesProven ==
  ASSUME "chunk" \notin Failures, RefsTogether
  PROVE  Spec => []GivenUpOnlyProven
<1> DEFINE Inv == TypeInv /\ PlanInv /\ StreakCounts /\ LeftInv
<1>1. Init => Inv
  BY PlanInit, LeftInit
<1>2. Inv /\ [Next]_vars => Inv'
  <2> SUFFICES ASSUME Inv, [Next]_vars PROVE Inv'
    OBVIOUS
  <2>1. TypeInv' /\ PlanInv'
    BY TypeStep, QueueStep, HeldStep, SentStep, ClosingStep DEF PlanInv
  <2>2. StreakCounts' /\ LeftInv'
    BY StreakStep, LeftStep DEF PlanInv
  <2> QED
    BY <2>1, <2>2
<1>3. Inv => GivenUpOnlyProven
  BY ProvenGivesUp DEF GivenUpOnlyProven, LeftInv, PlanInv
<1> QED
  BY <1>1, <1>2, <1>3, PTL DEF Spec

-----------------------------------------------------------------------------
(* What a poisoned object costs.  A cycle in which nothing failed spares    *)
(* every sound object; one in which something did may charge their streaks, *)
(* once each.  So a streak with a sound object is no longer than the number *)
(* of failures, and fewer than QuarantineAfter never quarantine it.         *)

\* What an object refers to comes with it or came before, if OpenCTI takes it.
RefsCome ==
  \A w \in DOMAIN Contents : \A o \in Contents[w] : \A r \in Refs[o] :
    r \in Rejected \/ \E v \in 1..w : r \in Contents[v]

EarlierLanded == \A o \in bundle : Sound(o) /\ PassOf[o] < pass => o \in landed

KeptInv ==
  /\ \A o \in Published \cup emitted : Sound(o) => o \in landed
  /\ pc # "idle" => \A o \in Contents[cursor] : Sound(o) => o \in bundle \cup landed
  /\ pc # "idle" /\ ~failed => EarlierLanded

Inflicted == \A q \in Passes : \A o \in poison[q].sig : Sound(o) => poison[q].n <= faults

Charged ==
  /\ faults >= 1
  /\ \A q \in Passes : q >= pass =>
       \A o \in poison[q].sig : Sound(o) => poison[q].n + 1 <= faults

Spared ==
  /\ EarlierLanded
  /\ \A o \in refused : ~Sound(o)
  /\ pc = "send" =>
       \A i \in 1..Len(rows[pass]) : i < next => rows[pass][i].status = "enqueued"
  /\ pc = "wait" => closed

ModeInv == Inflicted /\ (pc # "idle" => Spared \/ Charged)

SoundInv == faults < QuarantineAfter => KeptInv /\ ModeInv

LEMMA SoundIsClosed ==
  ASSUME NEW o, Sound(o)
  PROVE  /\ o \in Objs /\ o \notin Rejected
         /\ \A r \in Refs[o] : Sound(r) /\ PassOf[r] < PassOf[o]
BY DEF Sound

LEMMA FaultsCount ==
  ASSUME TypeInv, [Next]_vars
  PROVE  faults' = faults \/ faults' = faults + 1
<1>1. \/ SkipEmpty \/ Seal \/ Send \/ NothingEnqueued \/ Advance \/ EndPublish
      \/ \E o \in pending : Import(o)
      \/ \E o \in stale : ImportStale(o)
      \/ UNCHANGED vars
      => faults' = faults
  BY DEF SkipEmpty, Seal, Send, NothingEnqueued, Advance, EndPublish, Import, ImportStale, vars
<1>2. \/ PassFails \/ Crash
      \/ \E delivered \in BOOLEAN : SendFails(delivered)
      => faults' = faults + 1
  BY DEF PassFails, Crash, SendFails, Fail
<1>3. \/ \E answered \in BOOLEAN : Begin(answered)
      \/ \E received \in BOOLEAN : CloseWork(received)
      \/ \E o \in pending : Refuse(o)
      \/ \E agree \in BOOLEAN : WorkComplete(agree)
      \/ \E errors \in {{}, refused} : WaitTimesOut(errors)
      => faults' = faults \/ faults' = faults + 1
  BY DEF Begin, CloseWork, Refuse, WorkComplete, WaitTimesOut, Fail
<1> QED
  BY <1>1, <1>2, <1>3 DEF Next

\* The pass barrier: in a cycle nothing failed in, OpenCTI has what a sound
\* object of the current pass refers to.
LEMMA BarrierHolds ==
  ASSUME RefsCome, TypeInv, Held, KeptInv, EarlierLanded, pc # "idle",
         NEW o \in PassObjects(pass), Sound(o)
  PROVE  Acceptable(o)
<1>1. cursor \in DOMAIN Contents /\ cursor \in Nat
  BY ObjectAssumption DEF TypeInv, TypeOK, InAPass
<1>2. o \in bundle /\ o \in Contents[cursor] /\ PassOf[o] = pass
  BY DEF PassObjects, Held
<1>3. ASSUME NEW r \in Refs[o] PROVE r \in landed
  <2>1. Sound(r) /\ PassOf[r] < pass /\ r \notin Rejected
    BY <1>2, <1>3, SoundIsClosed
  <2>2. PICK v \in 1..cursor : r \in Contents[v]
    BY <1>1, <1>2, <1>3, <2>1 DEF RefsCome
  <2>3. CASE v = cursor
    BY <2>1, <2>2, <2>3 DEF KeptInv, EarlierLanded
  <2>4. CASE v # cursor
    <3>1. v \in 1..(cursor - 1)
      BY <1>1, <2>4
    <3> QED
      BY <2>1, <2>2, <3>1 DEF KeptInv, Published
  <2> QED
    BY <2>3, <2>4
<1> QED
  BY <1>3, SoundIsClosed DEF Acceptable

\* A sound object among the errors of a work was charged.
LEMMA NotedCharged ==
  ASSUME TypeInv, ModeInv, pc = "wait", NEW errors \in SUBSET refused,
         NEW o \in errors, Sound(o)
  PROVE  Charged /\ Noted(pass, errors).n <= faults
<1>1. Charged
  BY DEF ModeInv, Spared
<1>2. pass \in Passes /\ poison[pass].n \in Nat /\ faults \in Nat /\ pass >= pass
  BY PassesAre DEF TypeInv, TypeOK, InAPass, Streak
<1>3. CASE poison[pass].n > 0 /\ poison[pass].sig = errors
  <2>1. poison[pass].n + 1 <= faults
    BY <1>1, <1>2, <1>3 DEF Charged
  <2> QED
    BY <1>1, <1>3, <2>1 DEF Noted
<1>4. CASE ~(poison[pass].n > 0 /\ poison[pass].sig = errors)
  BY <1>1, <1>4 DEF Noted, Charged
<1> QED
  BY <1>3, <1>4

LEMMA SettledSound ==
  ASSUME TypeInv, Sent, ModeInv, faults < QuarantineAfter, pc = "wait", NEW agree \in BOOLEAN,
         NEW status \in {"complete", "timeout"}, NEW errors \in {{}, refused},
         status = "complete" => Complete /\ errors = refused,
         Settle(status, errors, agree), ~failed'
  PROVE  ~failed /\ \A o \in PassObjects(pass) : Sound(o) => o \in landed
<1>0. pass \in Passes /\ errors \in SUBSET refused
  BY DEF TypeInv, InAPass
<1>1. /\ status = "complete"
      /\ failed' = failed
      /\ errors = {} \/ Noted(pass, errors).n >= QuarantineAfter
  BY <1>0, Outcomes DEF TypeInv
<1>2. ~failed /\ PassObjects(pass) \subseteq landed \cup errors
  BY <1>1, AllWithWorkers DEF Complete
<1>3. ASSUME NEW o \in errors, Sound(o) PROVE FALSE
  <2>1. Noted(pass, errors).n <= faults
    BY <1>0, <1>3, NotedCharged
  <2>2. Noted(pass, errors).n \in Nat /\ faults \in Nat /\ QuarantineAfter \in Nat
    BY <1>0, StreaksTyped, PolicyAssumption DEF TypeInv, TypeOK, Streak
  <2> QED
    BY <1>1, <1>3, <2>1, <2>2
<1> QED
  BY <1>2, <1>3

\* Nothing a sound object needs is missing, so none is stripped.
LEMMA SoundStays ==
  ASSUME RefsCome, TypeInv, KeptInv, NEW answered \in BOOLEAN, Begin(answered),
         NEW o \in Contents[cursor], Sound(o)
  PROVE  o \in bundle' \cup landed
<1>1. cursor \in DOMAIN Contents /\ cursor \in Nat
  BY ObjectAssumption DEF Begin, TypeInv, TypeOK
<1>2. ASSUME NEW r \in Refs[o] PROVE r \in Contents[cursor] \cup landed
  <2>1. Sound(r) /\ r \notin Rejected
    BY <1>2, SoundIsClosed
  <2>2. PICK v \in 1..cursor : r \in Contents[v]
    BY <1>1, <1>2, <2>1 DEF RefsCome
  <2>3. CASE v # cursor
    <3>1. v \in 1..(cursor - 1)
      BY <1>1, <2>3
    <3> QED
      BY <2>1, <2>2, <3>1 DEF KeptInv, Published
  <2> QED
    BY <2>2, <2>3
<1>3. o \in emitted => o \in landed
  BY DEF KeptInv
<1> QED
  BY <1>2, <1>3 DEF Begin, Suppressed, Resolvable

LEMMA KeptStep ==
  ASSUME RefsCome, TypeInv, PlanInv, KeptInv, ModeInv, faults < QuarantineAfter, [Next]_vars
  PROVE  KeptInv'
<1>0. /\ landed \subseteq landed'
      /\ \A o \in Objs : PassOf[o] \in {1, 2, 3}
      /\ pass \in 1..4 /\ bundle \subseteq Objs
      /\ cursor \in Nat \ {0}
  BY Grows, ObjectAssumption, PassesAre DEF TypeInv, TypeOK
<1>3. ASSUME cursor' = cursor PROVE Published' = Published
  BY <1>3 DEF Published
\* A step within a cycle: what landed stays.
<1>4. ASSUME UNCHANGED <<cursor, emitted, bundle, pass>>, pc' = "idle" \/ pc # "idle",
             failed \/ ~failed => failed' = failed
      PROVE  KeptInv'
  BY <1>0, <1>3, <1>4 DEF KeptInv, EarlierLanded
<1>5. CASE Seal
  BY <1>4, <1>5 DEF Seal, durable
<1>6. CASE Send
  BY <1>4, <1>6 DEF Send, durable
<1>7. ASSUME NEW delivered \in BOOLEAN, SendFails(delivered) PROVE KeptInv'
  BY <1>4, <1>7 DEF SendFails, durable
<1>8. ASSUME NEW received \in BOOLEAN, CloseWork(received) PROVE KeptInv'
  BY <1>4, <1>8 DEF CloseWork, durable
<1>9. ASSUME NEW o \in pending, Import(o) \/ Refuse(o) PROVE KeptInv'
  BY <1>4, <1>9 DEF Import, Refuse, durable, PlanInv, Queue
<1>10. ASSUME NEW o \in stale, ImportStale(o) PROVE KeptInv'
  <2>1. UNCHANGED <<cursor, emitted, bundle, pass, pc, failed>>
    BY <1>10 DEF ImportStale, durable
  <2> QED
    BY <1>0, <1>3, <2>1 DEF KeptInv, EarlierLanded
<1>11. CASE Crash
  BY <1>4, <1>11 DEF Crash, durable
<1>12. CASE UNCHANGED vars
  <2>1. UNCHANGED <<cursor, emitted, bundle, pass, pc, failed>>
    BY <1>12 DEF vars, durable
  <2> QED
    BY <1>0, <1>3, <2>1 DEF KeptInv, EarlierLanded
\* The end of a pass: it is an error, or its sound objects landed.
<1>13. ASSUME UNCHANGED <<cursor, emitted, bundle>>, pass' = pass + 1, pc # "idle",
              ~failed' => ~failed /\ \A o \in PassObjects(pass) : Sound(o) => o \in landed
       PROVE  KeptInv'
  <2>1. ASSUME ~failed', NEW o \in bundle, PassOf[o] < pass', Sound(o) PROVE o \in landed
    <3>1. PassOf[o] < pass \/ PassOf[o] = pass
      BY <1>0, <1>13, <2>1
    <3> QED
      BY <1>13, <2>1, <3>1 DEF KeptInv, EarlierLanded, PassObjects
  <2> QED
    BY <1>0, <1>3, <1>13, <2>1 DEF KeptInv, EarlierLanded
<1>14. CASE SkipEmpty
  BY <1>13, <1>14 DEF SkipEmpty, NextPass, durable
<1>15. CASE PassFails \/ NothingEnqueued
  BY <1>13, <1>15 DEF PassFails, NothingEnqueued, NextPass, durable
<1>16. ASSUME NEW agree \in BOOLEAN, WorkComplete(agree) PROVE KeptInv'
  <2>1. pc = "wait" /\ Complete /\ Settle("complete", refused, agree)
    BY <1>16 DEF WorkComplete, Complete
  <2>2. ~failed' => ~failed /\ \A o \in PassObjects(pass) : Sound(o) => o \in landed
    BY <2>1, SettledSound DEF PlanInv
  <2> QED
    BY <1>13, <2>1, <2>2 DEF Settle, NextPass
<1>17. ASSUME NEW errors \in {{}, refused}, WaitTimesOut(errors) PROVE KeptInv'
  <2>1. pc = "wait" /\ Settle("timeout", errors, FALSE)
    BY <1>17 DEF WaitTimesOut
  <2>2. FALSE \in BOOLEAN /\ "timeout" \in {"complete", "timeout"} /\ "timeout" # "complete"
    OBVIOUS
  <2>3. ~failed' => ~failed /\ \A o \in PassObjects(pass) : Sound(o) => o \in landed
    BY <2>1, <2>2, SettledSound DEF PlanInv
  <2> QED
    BY <1>13, <2>1, <2>3 DEF Settle, NextPass
<1>18. ASSUME NEW answered \in BOOLEAN, Begin(answered) PROVE KeptInv'
  <2>1. cursor' = cursor /\ emitted' = emitted /\ pass' = 1
    BY <1>18 DEF Begin, durable
  <2>2. \A o \in Contents[cursor] : Sound(o) => o \in bundle' \cup landed
    BY <1>18, SoundStays
  <2>3. bundle' \subseteq Objs
    BY TypeStep DEF TypeInv, TypeOK
  <2>4. \A o \in bundle' : ~(PassOf[o] < pass')
    BY <1>0, <2>1, <2>3
  <2> QED
    BY <1>0, <1>3, <2>1, <2>2, <2>4 DEF KeptInv, EarlierLanded
<1>19. ASSUME ~failed, pc # "idle", pass \notin Passes
       PROVE  \A o \in Contents[cursor] : Sound(o) => o \in landed
  <2>1. pass = 4
    BY <1>0, <1>19, PassesAre
  <2>2. \A o \in bundle : PassOf[o] < pass
    BY <1>0, <2>1
  <2> QED
    BY <1>19, <2>2 DEF KeptInv, EarlierLanded
<1>20. CASE EndPublish
  <2>1. \A o \in emitted' : Sound(o) => o \in landed
    <3>1. emitted' = emitted \cup NewlyEmitted
      BY <1>20 DEF EndPublish
    <3>2. ~failed => \A o \in bundle : Sound(o) => o \in landed
      BY <1>19, <1>20 DEF EndPublish, PlanInv, Held
    <3> QED
      BY <3>1, <3>2 DEF NewlyEmitted, KeptInv
  <2>2. UNCHANGED <<cursor, bundle, pass, failed>> /\ pc # "idle"
    BY <1>20 DEF EndPublish
  <2> QED
    BY <1>0, <1>3, <2>1, <2>2 DEF KeptInv, EarlierLanded
<1>21. CASE Advance
  <2>1. cursor' = cursor + 1 /\ pc' = "idle" /\ emitted' = emitted
    BY <1>21 DEF Advance
  <2>2. \A o \in Contents[cursor] : Sound(o) => o \in landed
    BY <1>19, <1>21 DEF Advance, PlanInv, Closing
  <2>3. Published' = Published \cup Contents[cursor]
    <3>1. 1..(cursor' - 1) = 1..(cursor - 1) \cup {cursor}
      BY <1>0, <2>1
    <3> QED
      BY <3>1 DEF Published
  <2> QED
    BY <1>0, <2>1, <2>2, <2>3 DEF KeptInv
<1> QED
  BY <1>5, <1>6, <1>7, <1>8, <1>9, <1>10, <1>11, <1>12, <1>14, <1>15, <1>16, <1>17, <1>18,
     <1>20, <1>21 DEF Next

LEMMA ModeStep ==
  ASSUME "chunk" \notin Failures, RefsCome, TypeInv, PlanInv, KeptInv, ModeInv, [Next]_vars
  PROVE  ModeInv'
<1>0. /\ faults \in Nat /\ faults' \in Nat /\ pass \in 1..4
      /\ Passes = {1, 2, 3}
      /\ \A q \in Passes : poison[q].n \in Nat
      /\ faults' = faults \/ faults' = faults + 1
  BY TypeStep, FaultsCount, PassesAre DEF TypeInv, TypeOK, Streak
<1>23. /\ \A o \in Objs : PassOf[o] \in Passes
       /\ bundle \subseteq Objs /\ bundle' \subseteq Objs
  BY TypeStep, ObjectAssumption DEF TypeInv, TypeOK
\* A failure charges every streak, whatever else the step does.
<1>1. ASSUME faults' = faults + 1, poison' = poison PROVE ModeInv'
  <2>1. ASSUME NEW q \in Passes, NEW o \in poison[q].sig, Sound(o)
        PROVE  poison[q].n <= faults' /\ poison[q].n + 1 <= faults'
    BY <1>0, <1>1, <2>1 DEF ModeInv, Inflicted
  <2>2. faults' >= 1
    BY <1>0, <1>1
  <2> QED
    BY <1>1, <2>1, <2>2 DEF ModeInv, Inflicted, Charged
\* Without one, a cycle that was charged stays charged.
<1>2. ASSUME faults' = faults, poison' = poison, pc # "idle", pass' \in Nat, pass' >= pass,
             Spared => Spared'
      PROVE  ModeInv'
  <2>1. Inflicted'
    BY <1>2 DEF ModeInv, Inflicted
  <2>2. Charged => Charged'
    BY <1>0, <1>2 DEF Charged
  <2> QED
    BY <1>2, <2>1, <2>2 DEF ModeInv
<1>3. ASSUME poison' = poison, pc' = "idle" PROVE ModeInv'
  BY <1>0, <1>1, <1>3 DEF ModeInv, Inflicted
<1>4. ASSUME NEW answered \in BOOLEAN, Begin(answered) PROVE ModeInv'
  <2>1. poison' = poison /\ pass' = 1 /\ refused' = {} /\ pc' = "pass"
    BY <1>4 DEF Begin, durable, broker, PlanInv, Queue
  <2>2. CASE faults' = faults + 1
    BY <1>1, <2>1, <2>2
  <2>3. CASE faults' = faults
    <3>1. \A o \in bundle' : ~(PassOf[o] < 1)
      BY <1>0, <1>23
    <3>2. Spared'
      BY <2>1, <3>1 DEF Spared, EarlierLanded
    <3> QED
      BY <2>1, <2>3, <3>2 DEF ModeInv, Inflicted
  <2> QED
    BY <1>0, <2>2, <2>3
\* The end of a pass that had no failure.
<1>5. ASSUME NextPass, landed' = landed, bundle' = bundle, Spared,
             \A o \in PassObjects(pass) : Sound(o) => o \in landed
      PROVE  Spared'
  <2>1. \A o \in bundle : PassOf[o] < pass' => PassOf[o] < pass \/ PassOf[o] = pass
    BY <1>0, <1>23, <1>5 DEF NextPass
  <2> QED
    BY <1>5, <2>1 DEF NextPass, Spared, EarlierLanded, PassObjects
<1>6. CASE SkipEmpty
  <2>1. Spared => Spared'
    BY <1>5, <1>6 DEF SkipEmpty
  <2> QED
    BY <1>0, <1>2, <1>6, <2>1 DEF SkipEmpty, NextPass, durable
<1>7. CASE PassFails
  BY <1>1, <1>7 DEF PassFails, Fail, durable
<1>8. CASE Seal
  <2>1. refused' = refused /\ bundle' = bundle /\ pass' = pass /\ landed' = landed /\ next' = 1
        /\ pc' = "send"
    BY <1>8 DEF Seal, broker, platform
  <2>2. \A i \in 1..Len(rows'[pass']) : ~(i < 1)
    OBVIOUS
  <2>3. Spared => Spared'
    BY <2>1, <2>2 DEF Spared, EarlierLanded
  <2> QED
    BY <1>0, <1>2, <1>8, <2>1, <2>3 DEF Seal, durable
<1>9. CASE Send
  <2>1. pass \in Passes /\ next \in 1..Len(rows[pass]) /\ "enqueued" \in Statuses
    BY <1>9 DEF Send, Statuses, TypeInv, TypeOK, InAPass
  <2>2. rows' = [rows EXCEPT ![pass][next].status = "enqueued"]
    BY <1>9 DEF Send
  <2>3. /\ Len(rows'[pass]) = Len(rows[pass])
        /\ \A j \in 1..Len(rows[pass]) :
             rows'[pass][j].status = IF j = next THEN "enqueued" ELSE rows[pass][j].status
    <3>1. TypeOK
      BY DEF TypeInv
    <3>2. \A j \in 1..Len(rows[pass]) :
            /\ rows'[pass][j].objs = rows[pass][j].objs
            /\ rows'[pass][j].status = IF j = next THEN "enqueued" ELSE rows[pass][j].status
      BY <2>1, <2>2, <3>1, RowMarked
    <3>3. Len(rows'[pass]) = Len(rows[pass])
      BY <2>1, <2>2, <3>1, RowMarked
    <3> QED
      BY <3>2, <3>3
  <2>4. refused' = refused /\ bundle' = bundle /\ pass' = pass /\ landed' = landed
        /\ next' = next + 1 /\ pc = "send" /\ pc' = "send"
    BY <1>9 DEF Send, platform
  <2>5. ASSUME Spared, NEW i \in 1..Len(rows[pass]), i < next'
        PROVE  rows'[pass][i].status = "enqueued"
    <3>1. i = next \/ i < next
      BY <2>1, <2>4, <2>5
    <3> QED
      BY <2>3, <2>4, <2>5, <3>1 DEF Spared
  <2>6. Spared => Spared'
    BY <2>3, <2>4, <2>5 DEF Spared, EarlierLanded
  <2> QED
    BY <1>0, <1>2, <1>9, <2>4, <2>6 DEF Send, durable
<1>10. ASSUME NEW delivered \in BOOLEAN, SendFails(delivered) PROVE ModeInv'
  BY <1>1, <1>10 DEF SendFails, Fail, durable
<1>11. CASE NothingEnqueued
  <2>1. ASSUME Spared PROVE FALSE
    <3> DEFINE Q == {i \in DOMAIN rows[pass] : rows[pass][i].status = "enqueued"}
    <3>1. Cardinality(Q) = 0 /\ pc = "send" /\ next > Len(rows[pass])
      BY <1>11 DEF NothingEnqueued, Enqueued
    <3>2. Len(rows[pass]) \in Nat /\ Len(rows[pass]) >= 1 /\ DOMAIN rows[pass] = 1..Len(rows[pass])
      BY <3>1 DEF PlanInv, Sent, TypeInv, TypeOK, InAPass
    <3>3. 1 \in Q
      <4>1. 1 \in 1..Len(rows[pass]) /\ 1 < next
        BY <3>1, <3>2 DEF TypeInv, InAPass
      <4> QED
        BY <2>1, <3>1, <3>2, <4>1 DEF Spared
    <3>4. IsFiniteSet(Q)
      <4>1. Q \subseteq 1..Len(rows[pass]) /\ IsFiniteSet(1..Len(rows[pass]))
        BY <3>2, FS_Interval
      <4> HIDE DEF Q
      <4> QED
        BY <4>1, FS_Subset
    <3> HIDE DEF Q
    <3> QED
      BY <3>1, <3>3, <3>4, FS_EmptySet
  <2> QED
    BY <1>0, <1>2, <1>11, <2>1 DEF NothingEnqueued, NextPass, durable
<1>12. ASSUME NEW received \in BOOLEAN, CloseWork(received) PROVE ModeInv'
  <2>1. poison' = poison /\ pass' = pass /\ refused' = refused /\ bundle' = bundle
        /\ landed' = landed /\ pc = "send" /\ pc' = "wait" /\ closed' = received
    BY <1>12 DEF CloseWork, durable, platform
  <2>2. CASE received
    <3>1. faults' = faults
      BY <1>12, <2>2 DEF CloseWork
    <3>2. Spared => Spared'
      BY <2>1, <2>2 DEF Spared, EarlierLanded
    <3> QED
      BY <1>0, <1>2, <2>1, <3>1, <3>2
  <2>3. CASE ~received
    BY <1>1, <1>12, <2>1, <2>3 DEF CloseWork, Fail
  <2> QED
    BY <2>2, <2>3
<1>13. ASSUME NEW o \in pending, Import(o) PROVE ModeInv'
  <2>1. poison' = poison /\ faults' = faults /\ pc' = pc /\ landed \subseteq landed'
        /\ UNCHANGED <<pass, refused, bundle, rows, next, closed>>
    BY <1>13 DEF Import, durable
  <2>2. pc # "idle"
    BY <1>13 DEF PlanInv, Queue
  <2>3. Spared => Spared'
    BY <2>1 DEF Spared, EarlierLanded
  <2> QED
    BY <1>0, <1>2, <2>1, <2>2, <2>3
<1>14. ASSUME NEW o \in pending, Refuse(o) PROVE ModeInv'
  <2>1. poison' = poison /\ pc' = pc /\ refused' = refused \cup {o}
        /\ UNCHANGED <<pass, landed, bundle, rows, next, closed>>
    BY <1>14 DEF Refuse, durable
  <2>2. pc \in {"send", "wait"} /\ o \in PassObjects(pass)
    BY <1>14 DEF PlanInv, Queue
  <2>3. CASE Acceptable(o)
    BY <1>1, <1>14, <2>1, <2>3 DEF Refuse, Fail
  <2>4. CASE ~Acceptable(o)
    <3>1. faults' = faults
      BY <1>14, <2>4 DEF Refuse
    <3>2. Spared => ~Sound(o)
      BY <2>2, <2>4, BarrierHolds DEF PlanInv, Spared
    <3>3. Spared => Spared'
      BY <2>1, <3>2 DEF Spared, EarlierLanded
    <3> QED
      BY <1>0, <1>2, <2>1, <2>2, <3>1, <3>3
  <2> QED
    BY <2>3, <2>4
<1>15. ASSUME NEW o \in stale, ImportStale(o) PROVE ModeInv'
  <2>1. poison' = poison /\ faults' = faults /\ pc' = pc /\ landed \subseteq landed'
        /\ UNCHANGED <<pass, refused, bundle, rows, next, closed>>
    BY <1>15 DEF ImportStale, durable, broker
  <2>2. CASE pc = "idle"
    BY <1>3, <2>1, <2>2
  <2>3. CASE pc # "idle"
    <3>1. Spared => Spared'
      BY <2>1 DEF Spared, EarlierLanded
    <3> QED
      BY <1>0, <1>2, <2>1, <2>3, <3>1
  <2> QED
    BY <2>2, <2>3
\* A work settles: a sound object among its errors was charged, once.
<1>16. ASSUME NEW status \in {"complete", "timeout"}, NEW errors \in {{}, refused},
              NEW agree \in BOOLEAN, pc = "wait", Settle(status, errors, agree),
              Spared /\ faults' = faults => status = "complete" /\ Complete
       PROVE  ModeInv'
  <2>1. pass \in Passes /\ errors \in SUBSET refused
    BY <1>16 DEF TypeInv, InAPass
  <2>2. /\ \A q \in Passes \ {pass} : poison'[q] = poison[q]
        /\ poison'[pass] \in {NoStreak, Noted(pass, errors)}
    BY <1>16, <2>1, Outcomes DEF TypeInv
  <2>3. NextPass /\ pass' = pass + 1 /\ landed' = landed /\ bundle' = bundle /\ pc' = "pass"
    BY <1>16 DEF Settle, NextPass
  <2>4. Inflicted'
    <3>1. ASSUME NEW q \in Passes, NEW o \in poison'[q].sig, Sound(o)
          PROVE  poison'[q].n <= faults'
      <4>1. CASE q # pass
        BY <1>0, <2>2, <3>1, <4>1 DEF ModeInv, Inflicted
      <4>2. CASE q = pass
        <5>1. poison'[q] = Noted(pass, errors) /\ o \in errors
          BY <2>2, <3>1, <4>2 DEF NoStreak, Noted
        <5>2. Noted(pass, errors).n <= faults
          BY <1>16, <2>1, <3>1, <5>1, NotedCharged
        <5>3. Noted(pass, errors).n \in Nat
          BY <2>1, StreaksTyped DEF TypeInv, TypeOK, Streak
        <5> QED
          BY <1>0, <5>1, <5>2, <5>3
      <4> QED
        BY <4>1, <4>2
    <3> QED
      BY <3>1 DEF Inflicted
  <2>5. CASE Charged
    <3>1. ASSUME NEW q \in Passes, q >= pass' PROVE q >= pass /\ poison'[q] = poison[q]
      BY <1>0, <2>2, <2>3, <3>1
    <3>2. Charged'
      BY <1>0, <2>5, <3>1 DEF Charged
    <3> QED
      BY <2>4, <3>2 DEF ModeInv
  <2>6. CASE Spared /\ faults' = faults
    <3>1. status = "complete" /\ Complete
      BY <1>16, <2>6
    <3>2. \A o \in PassObjects(pass) : Sound(o) => o \in landed
      BY <2>6, <3>1, AllWithWorkers DEF Complete, Spared, PlanInv
    <3>3. Spared'
      BY <1>5, <2>3, <2>6, <3>2
    <3> QED
      BY <2>4, <3>3 DEF ModeInv
  <2>7. CASE faults' = faults + 1
    <3>1. ASSUME NEW q \in Passes, q >= pass' PROVE poison'[q] = poison[q]
      BY <1>0, <2>2, <2>3, <3>1
    <3>2. ASSUME NEW q \in Passes, q >= pass', NEW o \in poison'[q].sig, Sound(o)
          PROVE  poison'[q].n + 1 <= faults'
      <4>1. poison[q].n <= faults /\ poison'[q].n = poison[q].n
        BY <3>1, <3>2 DEF ModeInv, Inflicted
      <4> QED
        BY <1>0, <2>7, <4>1
    <3>3. faults' >= 1
      BY <1>0, <2>7
    <3>4. Charged'
      BY <3>2, <3>3 DEF Charged
    <3> QED
      BY <2>4, <3>4 DEF ModeInv
  <2> QED
    BY <1>0, <1>16, <2>5, <2>6, <2>7 DEF ModeInv
<1>17. ASSUME NEW agree \in BOOLEAN, WorkComplete(agree) PROVE ModeInv'
  <2>1. pc = "wait" /\ Complete /\ Settle("complete", refused, agree)
    BY <1>17 DEF WorkComplete, Complete
  <2>2. "complete" \in {"complete", "timeout"} /\ refused \in {{}, refused}
    OBVIOUS
  <2> QED
    BY <1>16, <2>1, <2>2
<1>18. ASSUME NEW errors \in {{}, refused}, WaitTimesOut(errors) PROVE ModeInv'
  <2>1. pc = "wait" /\ Settle("timeout", errors, FALSE)
    BY <1>18 DEF WaitTimesOut
  <2>2. FALSE \in BOOLEAN /\ "timeout" \in {"complete", "timeout"}
    OBVIOUS
  <2>3. ~(Spared /\ faults' = faults)
    <3>1. closed => faults' = faults + 1
      BY <1>18 DEF WaitTimesOut, Fail
    <3>2. Spared => closed
      BY <2>1 DEF Spared
    <3> QED
      BY <1>0, <3>1, <3>2
  <2> QED
    BY <1>16, <2>1, <2>2, <2>3
<1>19. CASE EndPublish
  <2>1. poison' = poison /\ faults' = faults /\ pc = "pass" /\ pc' \in {"idle", "advance"}
        /\ UNCHANGED <<pass, refused, landed, bundle, rows, next, closed>>
    BY <1>19 DEF EndPublish, broker, platform
  <2>2. Spared => Spared'
    BY <2>1 DEF Spared, EarlierLanded
  <2> QED
    BY <1>0, <1>2, <2>1, <2>2
<1>20. CASE Advance
  BY <1>3, <1>20 DEF Advance
<1>21. CASE Crash
  BY <1>3, <1>21 DEF Crash, durable
<1>22. CASE UNCHANGED vars
  <2>1. poison' = poison /\ faults' = faults /\ pc' = pc
        /\ UNCHANGED <<pass, refused, landed, bundle, rows, next, closed>>
    BY <1>22 DEF vars, durable, broker, platform
  <2>2. CASE pc = "idle"
    BY <1>3, <2>1, <2>2
  <2>3. CASE pc # "idle"
    <3>1. Spared => Spared'
      BY <2>1 DEF Spared, EarlierLanded
    <3> QED
      BY <1>0, <1>2, <2>1, <2>3, <3>1
  <2> QED
    BY <2>2, <2>3
<1> QED
  BY <1>4, <1>6, <1>7, <1>8, <1>9, <1>10, <1>11, <1>12, <1>13, <1>14, <1>15, <1>17, <1>18, <1>19,
     <1>20, <1>21, <1>22 DEF Next

FullInv == TypeInv /\ PlanInv /\ SoundInv /\ emitted \subseteq Immutable

LEMMA SoundInvariant ==
  ASSUME "chunk" \notin Failures, RefsCome
  PROVE  Spec => []FullInv
<1>1. Init => FullInv
  <2> SUFFICES ASSUME Init PROVE FullInv
    OBVIOUS
  <2>1. Published = {}
    BY DEF Init, Published
  <2>2. \A q \in Passes : poison[q].sig = {}
    BY DEF Init, NoStreak
  <2>3. KeptInv /\ ModeInv
    BY <2>1, <2>2 DEF Init, KeptInv, ModeInv, Inflicted
  <2> QED
    BY <2>3, PlanInit DEF Init, FullInv, SoundInv
<1>2. FullInv /\ [Next]_vars => FullInv'
  <2> SUFFICES ASSUME FullInv, [Next]_vars PROVE FullInv'
    OBVIOUS
  <2>1. TypeInv' /\ PlanInv'
    BY TypeStep, QueueStep, HeldStep, SentStep, ClosingStep DEF FullInv, PlanInv
  <2>2. SoundInv'
    <3> SUFFICES ASSUME faults' < QuarantineAfter PROVE KeptInv' /\ ModeInv'
      BY DEF SoundInv
    <3>1. faults < QuarantineAfter
      BY FaultsCount, PolicyAssumption DEF FullInv, TypeInv, TypeOK
    <3>2. KeptInv /\ ModeInv
      BY <3>1 DEF FullInv, SoundInv
    <3> QED
      BY <3>1, <3>2, KeptStep, ModeStep DEF FullInv
  <2>3. emitted' \subseteq Immutable
    <3>1. CASE EndPublish
      BY <3>1 DEF EndPublish, NewlyEmitted, FullInv
    <3>2. ~EndPublish => emitted' = emitted
      BY DEF Next, Begin, SkipEmpty, PassFails, Seal, Send, SendFails, NothingEnqueued, CloseWork,
             Import, Refuse, ImportStale, WorkComplete, WaitTimesOut, Settle, Advance, Crash,
             durable, vars
    <3> QED
      BY <3>1, <3>2 DEF FullInv
  <2> QED
    BY <2>1, <2>2, <2>3 DEF FullInv
<1> QED
  BY <1>1, <1>2, PTL DEF Spec

\* A poisoned object costs itself and what needs it: while fewer calls failed
\* than the quarantine takes works, every sound object of a window the cursor
\* left is in OpenCTI, although the passes it shared with the poison failed.
THEOREM PoisonStaysAlone ==
  ASSUME "chunk" \notin Failures, RefsCome
  PROVE  Spec => []PoisonCostsOnlyItself
<1>1. FullInv => PoisonCostsOnlyItself
  BY DEF FullInv, SoundInv, KeptInv, PoisonCostsOnlyItself
<1> QED
  BY <1>1, SoundInvariant, PTL

\* The pass barrier suffices for any chunks and any order of the workers: until
\* a call fails, OpenCTI refuses no object that is sound.
THEOREM BarrierRefusesForCause ==
  ASSUME "chunk" \notin Failures, RefsCome
  PROVE  Spec => []RefusedForCause
<1>1. FullInv => RefusedForCause
  <2> SUFFICES ASSUME FullInv, faults = 0, NEW o \in refused PROVE ~Sound(o)
    BY DEF RefusedForCause
  <2>1. KeptInv /\ ModeInv /\ ~Charged
    BY PolicyAssumption DEF FullInv, SoundInv, Charged
  <2>2. pc # "idle"
    BY DEF FullInv, PlanInv, Queue
  <2> QED
    BY <2>1, <2>2 DEF ModeInv, Spared
<1> QED
  BY <1>1, SoundInvariant, PTL

\* With edges OpenCTI would accept, and fewer failures than quarantine an edge,
\* emit-once suppresses only what OpenCTI holds (mark_immutable_emitted).
THEOREM EmittedOnceLanded ==
  ASSUME "chunk" \notin Failures, RefsCome, \A e \in Immutable : Sound(e)
  PROVE  Spec => []EmitOnceLanded
<1>1. FullInv => EmitOnceLanded
  BY DEF FullInv, SoundInv, KeptInv, EmitOnceLanded
<1> QED
  BY <1>1, SoundInvariant, PTL

-----------------------------------------------------------------------------
(* The ledger and the cursor, which do not ask each other, agree.          *)

\* Every window has an object that is not an edge and refers to nothing.
Anchored == \A w \in DOMAIN Contents : \E o \in Contents[w] : Refs[o] = {} /\ o \notin Immutable

CleanRows(s) ==
  \A i \in DOMAIN s :
    \/ s[i].status = "complete" /\ s[i].errors = 0
    \/ s[i].status = "quarantined" /\ s[i].errors > 0

\* The passes that are over are clean, those to come have no rows yet.
LedgerInv ==
  pc # "idle" =>
    /\ bundle # {}
    /\ \A p \in Passes :
         /\ p < pass /\ ~failed => CleanRows(rows[p]) /\ (PassObjects(p) # {} => rows[p] # <<>>)
         /\ p > pass \/ (p = pass /\ pc = "pass") => rows[p] = <<>>

\* All chunks of the pass were enqueued, so all of them are marked complete.
LEMMA CleanRowsSettled ==
  ASSUME TypeInv, Sent, pc = "wait", NEW agree \in BOOLEAN,
         NEW status \in {"complete", "timeout"}, NEW errors \in SUBSET refused,
         Settle(status, errors, agree), ~failed'
  PROVE  ~failed /\ CleanRows(rows'[pass]) /\ rows'[pass] # <<>>
<1> DEFINE L == Len(rows[pass])
           k == Cardinality(errors)
           Q == {i \in DOMAIN rows[pass] : rows[pass][i].status = "enqueued"}
<1>1. pass \in Passes /\ pass' = pass + 1 /\ L \in Nat /\ L >= 1 /\ DOMAIN rows[pass] = 1..L
      /\ \A i \in 1..L : rows[pass][i].status = "enqueued"
  BY DEF TypeInv, TypeOK, InAPass, Sent, Settle, NextPass
<1>2. Enqueued(pass) = L
  <2>1. Q = 1..L
    BY <1>1
  <2>2. Cardinality(1..L) = L
    BY <1>1, FS_Interval
  <2> QED
    BY <2>1, <2>2 DEF Enqueued
<1> HIDE DEF L, k, Q
<1>3. \/ errors = {} /\ rows'[pass] = SettledRows("complete", 0) /\ failed' = failed
      \/ errors # {} /\ rows'[pass] = QuarantinedRows(k) /\ failed' = failed
  BY <1>1, Outcomes DEF TypeInv, k
<1>4. errors # {} => k \in Nat /\ k > 0
  <2>1. IsFiniteSet(errors)
    BY ObjectAssumption, FS_Subset DEF TypeInv, TypeOK
  <2>2. k \in Nat /\ (k = 0 <=> errors = {})
    BY <2>1, FS_CardinalityType, FS_EmptySet DEF k
  <2> QED
    BY <2>2
<1>5. CASE errors = {} /\ rows'[pass] = SettledRows("complete", 0)
  <2>1. /\ DOMAIN rows'[pass] = 1..L
        /\ \A i \in 1..L : rows'[pass][i].status = "complete" /\ rows'[pass][i].errors = 0
    BY <1>1, <1>2, <1>5 DEF SettledRows
  <2> QED
    BY <1>1, <1>3, <2>1 DEF CleanRows
<1>6. CASE errors # {} /\ rows'[pass] = QuarantinedRows(k)
  <2>1. /\ DOMAIN rows'[pass] = 1..L
        /\ \A i \in 1..L : rows'[pass][i].status = "quarantined" /\ rows'[pass][i].errors > 0
    BY <1>1, <1>4, <1>6 DEF QuarantinedRows
  <2> QED
    BY <1>1, <1>3, <2>1 DEF CleanRows
<1> QED
  BY <1>3, <1>5, <1>6

LEMMA LedgerStep ==
  ASSUME "chunk" \notin Failures, Anchored, TypeInv, PlanInv, emitted \subseteq Objs, LedgerInv, [Next]_vars
  PROVE  LedgerInv'
<1>0. pass \in 1..4 /\ Passes = {1, 2, 3} /\ rows \in [Passes -> Seq(Row)]
  BY PassesAre DEF TypeInv, TypeOK
<1>1. ASSUME pc' = "idle" PROVE LedgerInv'
  BY <1>1 DEF LedgerInv
<1>2. ASSUME UNCHANGED <<bundle, pass, rows, failed>>, pc # "idle", pc' = pc \/ pc' # "pass"
      PROVE  LedgerInv'
  BY <1>2 DEF LedgerInv, CleanRows, PassObjects
<1>3. ASSUME NEW answered \in BOOLEAN, Begin(answered) PROVE LedgerInv'
  <2>1. PICK o \in Contents[cursor] : Refs[o] = {} /\ o \notin Immutable
    <3>1. cursor \in DOMAIN Contents
      BY <1>3, ObjectAssumption DEF Begin, TypeInv, TypeOK
    <3> QED
      BY <3>1 DEF Anchored
  <2>2. o \in bundle'
    BY <1>3, <2>1 DEF Begin, Suppressed, Resolvable
  <2>3. pass' = 1 /\ rows' = [p \in Passes |-> <<>>]
    BY <1>3 DEF Begin
  <2>4. \A p \in Passes : ~(p < pass') /\ rows'[p] = <<>>
    BY <1>0, <2>3
  <2> QED
    BY <2>2, <2>4 DEF LedgerInv
\* The end of a pass.
<1>4. ASSUME bundle' = bundle, pass' = pass + 1, pass \in Passes, pc # "idle", pc' = "pass",
             \A p \in Passes \ {pass} : rows'[p] = rows[p],
             ~failed' => ~failed /\ CleanRows(rows'[pass]) /\ (PassObjects(pass) # {} => rows'[pass] # <<>>)
      PROVE  LedgerInv'
  <2>1. ASSUME NEW p \in Passes, p < pass', ~failed'
        PROVE  CleanRows(rows'[p]) /\ (PassObjects(p)' # {} => rows'[p] # <<>>)
    <3>1. CASE p = pass
      BY <1>4, <2>1, <3>1 DEF CleanRows, PassObjects
    <3>2. CASE p # pass
      <4>1. p < pass
        BY <1>0, <1>4, <2>1, <3>2
      <4>2. ~failed /\ rows'[p] = rows[p]
        BY <1>4, <2>1, <3>2
      <4>3. CleanRows(rows[p]) /\ (PassObjects(p) # {} => rows[p] # <<>>)
        BY <1>4, <4>1, <4>2 DEF LedgerInv
      <4> QED
        BY <1>4, <4>2, <4>3 DEF CleanRows, PassObjects
    <3> QED
      BY <3>1, <3>2
  <2>2. ASSUME NEW p \in Passes, p >= pass' PROVE rows'[p] = <<>>
    <3>1. p > pass /\ p # pass
      BY <1>0, <1>4, <2>2
    <3> QED
      BY <1>4, <3>1 DEF LedgerInv
  <2>3. \A p \in Passes : p > pass' \/ p = pass' => p >= pass'
    BY <1>0, <1>4
  <2> QED
    BY <1>4, <2>1, <2>2, <2>3 DEF LedgerInv
<1>5. CASE SkipEmpty
  <2>1. rows[pass] = <<>>
    BY <1>5 DEF SkipEmpty, LedgerInv
  <2>2. rows' = rows /\ failed' = failed /\ PassObjects(pass) = {} /\ NextPass /\ bundle' = bundle
        /\ pc = "pass" /\ pass \in Passes
    BY <1>5 DEF SkipEmpty
  <2>3. CleanRows(rows'[pass])
    <3>1. rows'[pass] = <<>> /\ DOMAIN <<>> = {}
      BY <2>1, <2>2
    <3> QED
      BY <3>1 DEF CleanRows
  <2> QED
    BY <1>4, <2>2, <2>3 DEF NextPass
<1>6. CASE PassFails \/ NothingEnqueued
  <2>1. pass \in Passes
    BY <1>6 DEF PassFails, NothingEnqueued, TypeInv, InAPass
  <2> QED
    BY <1>4, <1>6, <2>1 DEF PassFails, NothingEnqueued, NextPass
\* A step within a pass touches its rows only.
<1>7. ASSUME UNCHANGED <<bundle, pass, failed>>, pass \in Passes, pc # "idle", pc' = "send",
             \A p \in Passes \ {pass} : rows'[p] = rows[p]
      PROVE  LedgerInv'
  <2>1. ASSUME NEW p \in Passes, p < pass \/ p > pass PROVE rows'[p] = rows[p]
    BY <1>0, <1>7, <2>1
  <2> QED
    BY <1>7, <2>1 DEF LedgerInv, CleanRows, PassObjects
<1>8. CASE Seal
  <2>1. \A p \in Passes \ {pass} : rows'[p] = rows[p]
    BY <1>0, <1>8 DEF Seal
  <2> QED
    BY <1>7, <1>8, <2>1 DEF Seal
<1>9. CASE Send
  <2>1. \A p \in Passes \ {pass} : rows'[p] = rows[p]
    BY <1>0, <1>9 DEF Send
  <2>2. pass \in Passes
    BY <1>9 DEF Send, TypeInv, InAPass
  <2> QED
    BY <1>7, <1>9, <2>1, <2>2 DEF Send
<1>10. ASSUME NEW delivered \in BOOLEAN, SendFails(delivered) PROVE LedgerInv'
  <2>1. \A p \in Passes \ {pass} : rows'[p] = rows[p]
    BY <1>0, <1>10 DEF SendFails
  <2>2. pass \in Passes
    BY <1>10 DEF SendFails, TypeInv, InAPass
  <2> QED
    BY <1>7, <1>10, <2>1, <2>2 DEF SendFails
<1>11. ASSUME NEW received \in BOOLEAN, CloseWork(received) PROVE LedgerInv'
  BY <1>2, <1>11 DEF CloseWork
<1>12. ASSUME NEW o \in pending, Import(o) \/ Refuse(o) PROVE LedgerInv'
  BY <1>2, <1>12 DEF Import, Refuse, PlanInv, Queue
<1>13. ASSUME UNCHANGED <<bundle, pass, rows, failed, pc>> PROVE LedgerInv'
  BY <1>13 DEF LedgerInv, CleanRows, PassObjects
<1>14. ASSUME NEW o \in stale, ImportStale(o) PROVE LedgerInv'
  BY <1>13, <1>14 DEF ImportStale
<1>15. ASSUME NEW status \in {"complete", "timeout"}, NEW errors \in SUBSET refused,
              NEW agree \in BOOLEAN, pc = "wait", Settle(status, errors, agree)
       PROVE  LedgerInv'
  <2>1. pass \in Passes /\ pass' = pass + 1 /\ pc' = "pass" /\ bundle' = bundle
    BY <1>15 DEF Settle, NextPass, TypeInv, InAPass
  <2>2. \A p \in Passes \ {pass} : rows'[p] = rows[p]
    BY <1>15, <2>1, Outcomes DEF TypeInv
  <2>3. ~failed' => ~failed /\ CleanRows(rows'[pass]) /\ rows'[pass] # <<>>
    BY <1>15, CleanRowsSettled DEF PlanInv
  <2> QED
    BY <1>4, <1>15, <2>1, <2>2, <2>3
<1>16. ASSUME NEW agree \in BOOLEAN, WorkComplete(agree) PROVE LedgerInv'
  <2>1. pc = "wait" /\ Settle("complete", refused, agree)
    BY <1>16 DEF WorkComplete, Complete
  <2> QED
    BY <1>15, <2>1
<1>17. ASSUME NEW errors \in {{}, refused}, WaitTimesOut(errors) PROVE LedgerInv'
  <2>1. pc = "wait" /\ Settle("timeout", errors, FALSE)
    BY <1>17 DEF WaitTimesOut
  <2>2. FALSE \in BOOLEAN /\ "timeout" \in {"complete", "timeout"} /\ errors \in SUBSET refused
    BY <1>17
  <2> QED
    BY <1>15, <2>1, <2>2
<1>18. CASE EndPublish
  <2>1. pc' = "idle" \/ pc' = "advance"
    BY <1>18 DEF EndPublish
  <2> QED
    BY <1>1, <1>2, <1>18, <2>1 DEF EndPublish
<1>19. CASE Advance \/ Crash
  BY <1>1, <1>19 DEF Advance, Crash
<1>20. CASE UNCHANGED vars
  BY <1>13, <1>20 DEF vars
<1> QED
  BY <1>3, <1>5, <1>6, <1>8, <1>9, <1>10, <1>11, <1>12, <1>14, <1>16, <1>17, <1>18, <1>19,
     <1>20 DEF Next

\* Nothing calls publish_is_clean, yet whenever main lets the cursor move, the
\* rows of the cycle say so: each of them is complete without errors or
\* quarantined with them, and there is one.
THEOREM LedgerAgreesWithCursor ==
  ASSUME "chunk" \notin Failures, Anchored
  PROVE  Spec => []CursorAgreesWithLedger
<1> DEFINE Inv == TypeInv /\ PlanInv /\ LedgerInv
<1>1. Init => Inv
  BY PlanInit DEF Init, LedgerInv
<1>2. Inv /\ [Next]_vars => Inv'
  <2> SUFFICES ASSUME Inv, [Next]_vars PROVE Inv'
    OBVIOUS
  <2>1. TypeInv' /\ PlanInv'
    BY TypeStep, QueueStep, HeldStep, SentStep, ClosingStep DEF PlanInv
  <2>2. LedgerInv'
    BY LedgerStep DEF TypeInv, TypeOK
  <2> QED
    BY <2>1, <2>2
<1>3. Inv => CursorAgreesWithLedger
  <2> SUFFICES ASSUME Inv, pc = "advance" PROVE PublishIsClean
    BY DEF CursorAgreesWithLedger
  <2>1. ~failed /\ pass \notin Passes
    BY DEF PlanInv, Closing
  <2>2. pass = 4
    BY <2>1, PassesAre DEF TypeInv, TypeOK
  <2>3. \A p \in Passes : p < pass
    BY <2>2, PassesAre
  <2>4. PICK o \in bundle : TRUE
    BY DEF LedgerInv
  <2>5. PassOf[o] \in Passes /\ o \in PassObjects(PassOf[o])
    BY <2>4, ObjectAssumption DEF PassObjects, TypeInv, TypeOK
  <2>6. rows[PassOf[o]] # <<>>
    BY <2>1, <2>3, <2>5 DEF LedgerInv
  <2>7. \A p \in Passes : CleanRows(rows[p])
    BY <2>1, <2>3 DEF LedgerInv
  <2> QED
    BY <2>5, <2>6, <2>7 DEF PublishIsClean, CleanRows
<1> QED
  BY <1>1, <1>2, <1>3, PTL DEF Spec
=============================================================================
