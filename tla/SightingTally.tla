---------------------------- MODULE SightingTally ----------------------------
(***************************************************************************)
(* What a reader of OpenCTI may rely on: the count of a Sighting only      *)
(* grows, and never past the number of its events in the periods that were *)
(* published or are being published.  How tpot2cti gets there (windows,    *)
(* attempts, retries, the ledger) does not show.                           *)
(***************************************************************************)
EXTENDS Integers, FiniteSets

CONSTANTS
  Ids,     \* the Sightings
  Hits,    \* Hits[i]: when the events of i happened
  Before   \* Before[i]: the count of i before the first import

VARIABLES
  tally,   \* the count shown for each Sighting
  done,    \* the instants whose events are published
  tried    \* the instants some attempt has begun to publish

Init ==
  /\ tally = Before
  /\ done = {}
  /\ tried = {}

\* An attempt begins, or begins again over a longer period.
Try ==
  /\ tried \subseteq tried'
  /\ UNCHANGED <<tally, done>>

\* Events of i are added to its count.
Add(i) ==
  /\ tally'[i] > tally[i]
  /\ tally'[i] <= Before[i] + Cardinality(Hits[i] \cap (done \cup tried))
  /\ \A j \in Ids \ {i} : tally'[j] = tally[j]
  /\ UNCHANGED <<done, tried>>

\* The period tried is published: no count changes.
Finish ==
  /\ done \cup tried \subseteq done'
  /\ tried' = {}
  /\ UNCHANGED tally

Next == Try \/ (\E i \in Ids : Add(i)) \/ Finish

Spec == Init /\ [][Next]_<<tally, done, tried>>
=============================================================================
