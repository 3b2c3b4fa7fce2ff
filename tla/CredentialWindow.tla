--------------------------- MODULE CredentialWindow ----------------------------
(* tpot2cti-credentials: a process of its own that folds credential documents *)
(* into counters, one window and one transaction per cycle.  Its cursor is    *)
(* the end of the last recorded cycle, while the window of that cycle ended   *)
(* when it began, and the query cuts both ends to whole seconds.              *)
EXTENDS Integers, FiniteSets

CONSTANTS
  Documents,    \* documents of the credential types
  CredentialOf, \* the (username, password, sensor) of each, or Unparsed
  SourceOf,     \* and its address
  Unparsed,     \* what extract_credential returns for a document without a field
  PerSecond,    \* instants per second
  Pause,        \* the sleep between cycles, and the first look back
  ZeroAlert,    \* _ZERO_EVENT_ALERT_CYCLES
  LastInstant,  \* bound: the clock stops
  MaxBreaks     \* bound: failed cycles and restarts

ASSUME CredentialAssumption ==
  /\ IsFiniteSet(Documents)
  /\ PerSecond \in Nat \ {0} /\ Pause \in Nat \ {0}
  /\ {ZeroAlert, LastInstant, MaxBreaks} \subseteq Nat
  /\ Unparsed \notin {SourceOf[d] : d \in Documents}

VARIABLES
  instant,      \* the clock
  logged,       \* the @timestamp of each document, once there
  tables,       \* credentials and credential_sources, as committed
  lastRun,      \* MAX(cycle_ended_at)
  window,       \* the window of the cycle under way, or NoWindow
  unread,       \* documents of it still to be folded
  work,         \* the tables as the open transaction sees them
  events,       \* events_processed
  asleepUntil,
  alarm,        \* consecutive_zero, seen_nonzero, whether the last cycle touched
  blind,        \* what really happened: instants that no window covers,
  breaks

credentialVars == <<instant, logged, tables, lastRun, window, unread, work, events,
                    asleepUntil, alarm, blind, breaks>>

--------------------------------------------------------------------------------
Unlogged == -1
NeverRan == -1
NoWindow == [from |-> 0, to |-> 0]
Credentials == {CredentialOf[d] : d \in Documents} \ {Unparsed}

(* build_credential_query: strftime("...%S.000Z") *)
WholeSecond(t) == t - (t % PerSecond)
Within(from, to) == {t \in 0..LastInstant : WholeSecond(from) <= t /\ t < WholeSecond(to)}
Matching(w) == {d \in Documents : logged[d] \in Within(w.from, w.to)}

(* upsert_credential *)
Upsert(t, d) ==
  LET c == CredentialOf[d]
      pair == <<c, SourceOf[d]>>
  IN [attempts |-> [t.attempts EXCEPT ![c] = @ + 1],
      unique   |-> [t.unique EXCEPT ![c] = IF pair \in t.sources THEN @ ELSE @ + 1],
      sources  |-> t.sources \cup {pair}]
Folded(t, d) == IF CredentialOf[d] = Unparsed THEN t ELSE Upsert(t, d)

LogDocument(d) ==
  /\ logged[d] = Unlogged
  /\ logged' = [logged EXCEPT ![d] = instant]
  /\ UNCHANGED <<instant, tables, lastRun, window, unread, work, events, asleepUntil,
                 alarm, blind, breaks>>

ClockTicks ==
  /\ instant < LastInstant
  /\ instant' = instant + 1
  /\ UNCHANGED <<logged, tables, lastRun, window, unread, work, events, asleepUntil,
                 alarm, blind, breaks>>

(* run_cycle up to the stream.  A cursor that is not in the past has no       *)
(* window: the loop sleeps longer than that.                                  *)
OpenWindow ==
  /\ window = NoWindow /\ asleepUntil <= instant
  /\ LET from == IF lastRun = NeverRan THEN instant - Pause ELSE lastRun IN
       /\ from < instant
       /\ window' = [from |-> from, to |-> instant]
  /\ unread' = Matching(window') /\ work' = tables /\ events' = 0
  /\ UNCHANGED <<instant, logged, tables, lastRun, asleepUntil, alarm, blind, breaks>>

ReadDocument(d) ==
  /\ window # NoWindow /\ d \in unread
  /\ \A e \in unread : logged[d] <= logged[e]
  /\ unread' = unread \ {d}
  /\ work' = Folded(work, d)
  /\ events' = events + 1
  /\ UNCHANGED <<instant, logged, tables, lastRun, window, asleepUntil, alarm, blind, breaks>>

(* run_forever: what a completed cycle does to the health file *)
Alarmed(n) ==
  LET zeros == IF n > 0 THEN 0 ELSE alarm.zeros + 1
      armed == alarm.armed \/ n > 0
  IN [zeros |-> IF zeros < ZeroAlert THEN zeros ELSE ZeroAlert, armed |-> armed,
      touched |-> n > 0 \/ ~(armed /\ zeros >= ZeroAlert)]

Commit ==
  /\ window # NoWindow /\ unread = {}
  /\ tables' = work
  /\ lastRun' = instant
  /\ blind' = blind \cup Within(window.to, instant)
                    \cup IF lastRun = NeverRan THEN Within(0, window.from) ELSE {}
  /\ alarm' = Alarmed(events)
  /\ window' = NoWindow /\ asleepUntil' = instant + Pause /\ events' = 0
  /\ UNCHANGED <<instant, logged, unread, work, breaks>>

(* An exception in the transaction: ROLLBACK, and the loop only logs it.      *)
RolledBackKept == work                                               \* mutant
RolledBack == tables
CycleFails ==
  /\ window # NoWindow /\ breaks < MaxBreaks
  /\ breaks' = breaks + 1
  /\ tables' = RolledBack /\ work' = RolledBack
  /\ window' = NoWindow /\ unread' = {} /\ asleepUntil' = instant + Pause /\ events' = 0
  /\ alarm' = [alarm EXCEPT !.touched = FALSE]
  /\ UNCHANGED <<instant, logged, lastRun, blind>>

(* The process ends, at any point, and starts again: the alarm is disarmed.   *)
SidecarRestarts ==
  /\ breaks < MaxBreaks
  /\ breaks' = breaks + 1
  /\ window' = NoWindow /\ unread' = {} /\ asleepUntil' = instant
  /\ work' = tables /\ events' = 0
  /\ alarm' = [alarm EXCEPT !.zeros = 0, !.armed = FALSE]
  /\ UNCHANGED <<instant, logged, tables, lastRun, blind>>

NoRows == [attempts |-> [c \in Credentials |-> 0], unique |-> [c \in Credentials |-> 0],
           sources |-> {}]
CredentialInit ==
  /\ instant = 0
  /\ logged = [d \in Documents |-> Unlogged]
  /\ tables = NoRows /\ lastRun = NeverRan
  /\ window = NoWindow /\ unread = {} /\ work = NoRows /\ events = 0
  /\ asleepUntil = 0
  /\ alarm = [zeros |-> 0, armed |-> FALSE, touched |-> FALSE]
  /\ blind = {} /\ breaks = 0

CredentialNext ==
  \/ \E d \in Documents : LogDocument(d) \/ ReadDocument(d)
  \/ ClockTicks
  \/ OpenWindow
  \/ Commit
  \/ CycleFails
  \/ SidecarRestarts

CredentialSpec == CredentialInit /\ [][CredentialNext]_credentialVars

--------------------------------------------------------------------------------
(* Over failed cycles, retries and restarts the counters hold every document  *)
(* below the cursor once, and every source once, except the documents of the  *)
(* instants no window covers: from the second in which a cycle began to the   *)
(* second in which it ended, and before the first look back.                  *)
Counted(c) ==
  {d \in Documents : /\ CredentialOf[d] = c
                     /\ logged[d] \in Within(0, IF lastRun = NeverRan THEN 0 ELSE lastRun) \ blind}
CountedOnce ==
  \A c \in Credentials :
    /\ tables.attempts[c] = Cardinality(Counted(c))
    /\ tables.unique[c] = Cardinality({SourceOf[d] : d \in Counted(c)})
================================================================================
