-------------------------- MODULE MCSightingLedger --------------------------
(***************************************************************************)
(* Instances of SightingLedger for TLC.  Two Sightings share a clock of a  *)
(* few ticks; events sit on both ticks of a millisecond, on window         *)
(* boundaries and in windows of their own.                                 *)
(***************************************************************************)
EXTENDS SightingLedger

CONSTANTS a, b

MCIds == {a, b}
OneId == {a}

\* a is active throughout; of b one event is of a type no parser reads.
MCHits == [i \in {a, b} |-> IF i = a THEN {1, 2, 3, 4} ELSE {0, 3, 4}]
MCParsed == [i \in {a, b} |-> IF i = a THEN {1, 2, 3, 4} ELSE {0, 4}]
OneHits == [i \in {a} |-> {0, 1, 2, 4, 5}]

NoLegacy == [i \in Ids |-> NoSighting]
SomeLegacy == [i \in Ids |-> [count |-> 3, last |-> 2]]
=============================================================================
