---------------------------- MODULE BlocklistRefresh ---------------------------
(* The loop of tpot2cti.enrich.blocklists around its cycles: which lists are  *)
(* fetched when, what a failed fetch leaves behind, and which copies are too  *)
(* old for a cycle to use.  Their times are kept in the state database, the   *)
(* copies only in the process.  What a cycle does with the lists it may use   *)
(* is module LabelLanes.                                                      *)
EXTENDS Naturals

CONSTANTS
  Sources,      \* the configured lists
  Broken,       \* those that never answer
  RefreshEvery, \* ENRICH_BLOCKLIST_REFRESH, in intervals
  RetryAfter,   \* and how soon a failure is tried again
  MaxAge,       \* MAX_LIST_AGE_HOURS
  MaxSlips      \* bound: failed attempts of the other lists, and restarts

ASSUME RefreshAssumption ==
  /\ Broken \subseteq Sources /\ Sources # {}
  /\ {RefreshEvery, RetryAfter, MaxAge} \subseteq Nat \ {0} /\ MaxSlips \in Nat
  /\ RetryAfter <= RefreshEvery

VARIABLES
  age,          \* since bl_fetched_at of each list, Unknown without one
  held,         \* lists the process has a copy of
  pending,      \* what the next attempt covers
  wait,         \* until the next attempt
  loop,         \* "refresh", "cycle", "sleep"
  used,         \* the lists the latest cycle matched against
  refused,      \* whether it had none, and failed
  slips

blocklistVars == <<age, held, pending, wait, loop, used, refused, slips>>

--------------------------------------------------------------------------------
\* Ages are told apart up to one beyond the bound.
TooOld == MaxAge + 1
Unknown == TooOld + 1
Older(a) == IF a < TooOld THEN a + 1 ELSE a

(* sources_due, right after an attempt: an age of exactly nothing reads as    *)
(* unknown, so a list just fetched may be due again.                          *)
DueFailed(failed, instant) == IF failed = {} THEN Sources ELSE failed   \* mutant
Due(failed, instant) ==
  LET due == failed \cup {s \in Sources : age'[s] >= RefreshEvery} \cup instant
  IN IF due = {} THEN Sources ELSE due

(* refresh_lists: a source that fails keeps its copy and its age *)
Refresh(answering, instant) ==
  /\ loop = "refresh" /\ wait = 0
  /\ LET failed == pending \ answering IN
       /\ slips' = slips + (IF failed \subseteq Broken THEN 0 ELSE 1)
       /\ slips' <= MaxSlips
       /\ age' = [s \in Sources |-> IF s \in answering THEN 0 ELSE age[s]]
       /\ held' = held \cup answering
       /\ instant \subseteq answering
       /\ pending' = Due(failed, instant)
       /\ wait' = IF failed = {} THEN RefreshEvery ELSE RetryAfter
  /\ loop' = "cycle"
  /\ UNCHANGED <<used, refused>>

NotYet ==
  /\ loop = "refresh" /\ wait > 0
  /\ loop' = "cycle"
  /\ UNCHANGED <<age, held, pending, wait, used, refused, slips>>

(* run_cycle up to the sweep *)
Usable == {s \in held : age[s] <= MaxAge}
Match ==
  /\ loop = "cycle"
  /\ used' = Usable
  /\ refused' = (Usable = {})
  /\ loop' = "sleep"
  /\ UNCHANGED <<age, held, pending, wait, slips>>

Sleep ==
  /\ loop = "sleep"
  /\ age' = [s \in Sources |-> IF age[s] = Unknown THEN Unknown ELSE Older(age[s])]
  /\ wait' = IF wait > 0 THEN wait - 1 ELSE 0
  /\ loop' = "refresh"
  /\ UNCHANGED <<held, pending, used, refused, slips>>

RefreshRestarts ==
  /\ slips < MaxSlips /\ slips' = slips + 1
  /\ held' = {} /\ pending' = Sources /\ wait' = 0 /\ loop' = "refresh"
  /\ UNCHANGED <<age, used, refused>>

BlocklistInit ==
  /\ age = [s \in Sources |-> Unknown]
  /\ held = {} /\ pending = Sources /\ wait = 0 /\ loop = "refresh"
  /\ used = {} /\ refused = FALSE /\ slips = 0

BlocklistNext ==
  \/ \E answering \in SUBSET (pending \ Broken), instant \in SUBSET Sources :
       Refresh(answering, instant)
  \/ NotYet
  \/ Match
  \/ Sleep
  \/ RefreshRestarts

BlocklistSpec == BlocklistInit /\ [][BlocklistNext]_blocklistVars

--------------------------------------------------------------------------------
(* "One dead URL silently taking out the whole lane 72h later": a list the    *)
(* process has a copy of is usable in every cycle as long as its provider     *)
(* answers but for MaxSlips attempts, however long another never does.        *)
AnsweringListsUsable ==
  loop = "sleep" => held \ Broken \subseteq used
================================================================================
