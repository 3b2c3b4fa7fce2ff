--------------------------------- MODULE Health --------------------------------
(* /health (health.HealthStatus) against what the process really did: cycles  *)
(* that succeed, fail, raise or never end, a heartbeat written by threads     *)
(* that live as long as the step they watch, and restarts.  The endpoint      *)
(* knows the ten latest rows of cycle_log, the heartbeat and its own uptime.  *)
EXTENDS Integers, Sequences

CONSTANTS
  Interval,     \* TPOT2CTI_INTERVAL, in ticks of 30 s
  Breath,       \* _MIN_INTER_CYCLE_BREATHING_S
  Recent,       \* rows that recent_cycles returns: 10
  MaxBuild,     \* bound: ticks from the end of the stream to the first pass
  MaxUnended,   \* bound: cycles in a row whose end is never recorded
  Horizon       \* bound: the clock stops

ASSUME HealthAssumption ==
  /\ Interval \in Nat \ {0} /\ Breath \in 0..Interval
  /\ Recent \in Nat \ {0, 1} /\ {MaxBuild, MaxUnended, Horizon} \subseteq Nat

VARIABLES
  clock,
  step,         \* "down", "asleep", "stream", "build", "publish"
  since,        \* when the build began
  began,        \* when the cycle under way began
  wake,         \* when the sleep ends
  started,      \* _started_at
  rows,         \* what recent_cycles finds in cycle_log, newest first
  heartbeat,    \* last_heartbeat_ts
  success,      \* what really happened: the end of the latest successful cycle,
  longest,      \* the longest cycle that ended,
  unended       \* and the cycles since that left no end

process    == <<step, since, began, wake, started>>
truth      == <<success, longest, unended>>
healthVars == <<clock, process, rows, heartbeat, truth>>

--------------------------------------------------------------------------------
None == -1
Larger(a, b) == IF a > b THEN a ELSE b
Ended(row) == row.ended # None

(* recent_cycles *)
Newest(log) == SubSeq(log, 1, IF Len(log) < Recent THEN Len(log) ELSE Recent)

(* _cycle_summary: the latest success among the recent rows, or else the      *)
(* topmost of them                                                            *)
Good == {i \in DOMAIN rows : rows[i].ok /\ Ended(rows[i])}
Summary ==
  CASE Good # {} -> rows[CHOOSE i \in Good : \A j \in Good : i <= j]
    [] Good = {} /\ rows # <<>> -> [rows[1] EXCEPT !.ok = FALSE]
    [] OTHER -> [ended |-> None, took |-> 0, ok |-> FALSE]
AnyCompleted == \E i \in DOMAIN rows : Ended(rows[i])

(* compute_status *)
StaleAfter == 2 * Interval
CeilingByInterval == 3 * Interval                                   \* mutant
Ceiling == Larger(3 * Interval, 2 * Summary.took)
NoSuccessAge ==
  CASE Summary.ok -> clock - Summary.ended
    [] ~Summary.ok /\ ~AnyCompleted -> 0
    [] OTHER -> clock - started
HeartbeatFresh == heartbeat # None /\ clock - heartbeat <= StaleAfter
CycleFresh == Summary.ok /\ clock - Summary.ended <= StaleAfter
GreenByHeartbeat == CycleFresh \/ HeartbeatFresh                    \* mutant
Green == CycleFresh \/ (HeartbeatFresh /\ NoSuccessAge <= Ceiling)

--------------------------------------------------------------------------------
(* The threads of the stream and of a pass beat whether or not there is       *)
(* progress; nothing beats during the build or the sleep.                     *)
Elapse ==
  /\ clock < Horizon
  /\ step = "asleep" => clock < wake
  /\ step = "build" => clock - since < MaxBuild
  /\ clock' = clock + 1
  /\ heartbeat' = IF step \in {"stream", "publish"} THEN clock' ELSE heartbeat
  /\ UNCHANGED <<process, rows, truth>>

Enter(s, start, end) ==
  /\ step' = s /\ began' = start /\ wake' = end
  /\ since' = IF s = "build" THEN clock ELSE 0

StartProcess ==
  /\ step = "down"
  /\ Enter("asleep", 0, clock) /\ started' = clock
  /\ UNCHANGED <<clock, rows, heartbeat, truth>>

(* start_cycle, state.heartbeat *)
StartCycle ==
  /\ step = "asleep" /\ clock = wake
  /\ Enter("stream", clock, 0)
  /\ rows' = Newest(<<[ended |-> None, took |-> 0, ok |-> FALSE]>> \o rows)
  /\ heartbeat' = clock
  /\ UNCHANGED <<clock, started, truth>>

(* the main loop sleeps until the next boundary, or for a breath *)
Sleep ==
  /\ Enter("asleep", 0, clock + Larger(Breath, Interval - (clock - began)))
  /\ started' = started

(* record_cycle, record_cycle_failure *)
Record(ok) ==
  LET took == clock - began IN
  /\ rows' = [rows EXCEPT ![1] = [ended |-> clock, took |-> took, ok |-> ok]]
  /\ success' = IF ok THEN clock ELSE success
  /\ longest' = Larger(longest, took)
  /\ unended' = 0

StreamFails ==
  /\ step = "stream"
  /\ Record(FALSE) /\ Sleep
  /\ UNCHANGED <<clock, heartbeat>>

StreamEnds ==
  /\ step = "stream"
  /\ Enter("build", began, 0) /\ heartbeat' = clock
  /\ UNCHANGED <<clock, started, rows, truth>>

Built ==
  /\ step = "build"
  /\ Enter("publish", began, 0)
  /\ UNCHANGED <<clock, started, rows, heartbeat, truth>>

(* the last pass beats once more; an unclean publish is recorded as a failure *)
Published(ok) ==
  /\ step = "publish"
  /\ heartbeat' = clock
  /\ Record(ok) /\ Sleep
  /\ UNCHANGED clock

(* An exception outside the stream and the publish leaves the loop running    *)
(* and the row without an end; so does the death of the process.              *)
Raise ==
  /\ step = "build" /\ unended < MaxUnended
  /\ unended' = unended + 1
  /\ Sleep
  /\ UNCHANGED <<clock, rows, heartbeat, success, longest>>

Dies ==
  /\ \/ step = "asleep" /\ unended' = unended
     \/ /\ step \in {"stream", "build", "publish"} /\ unended < MaxUnended
        /\ unended' = unended + 1
  /\ Enter("down", 0, 0) /\ started' = 0
  /\ UNCHANGED <<clock, rows, heartbeat, success, longest>>

HealthInit ==
  /\ clock = 0 /\ step = "down" /\ since = 0 /\ began = 0 /\ wake = 0 /\ started = 0
  /\ rows = <<>> /\ heartbeat = None
  /\ success = None /\ longest = None /\ unended = 0

HealthNext ==
  \/ Elapse \/ StartProcess \/ StartCycle
  \/ StreamFails \/ StreamEnds \/ Built \/ \E ok \in BOOLEAN : Published(ok)
  \/ Raise \/ Dies

HealthSpec == HealthInit /\ [][HealthNext]_healthVars

--------------------------------------------------------------------------------
(* A process that keeps cycling without success turns red: once a cycle has   *)
(* ended, no success and no restart for longer than three intervals, and than *)
(* twice the longest cycle, is never green, whatever the heartbeat says.      *)
Stalled ==
  LET allowed == Larger(3 * Interval, 2 * longest) IN
  /\ longest # None
  /\ clock - success > allowed
  /\ step # "down" /\ clock - started > allowed
StallTurnsRed == Stalled => ~Green

(* A process at work stays green: from one success on, while the next cycle   *)
(* takes at most two intervals or not quite twice as long as the last did,    *)
(* and no step is silent for longer than two intervals.                       *)
AtWork ==
  /\ step # "down" /\ success # None /\ started <= success
  /\ \/ rows[1].ok
     \/ Len(rows) > 1 /\ ~Ended(rows[1]) /\ rows[2].ok /\ step # "asleep"
WorkStaysGreen ==
  AtWork =>
    LET last == IF rows[1].ok THEN rows[1].took ELSE rows[2].took
    IN step = "asleep" \/ clock - began <= Larger(2 * Interval, 2 * last - Breath) => Green

================================================================================
