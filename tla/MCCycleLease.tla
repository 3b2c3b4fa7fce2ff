---------------------------- MODULE MCCycleLease ----------------------------
(***************************************************************************)
(* Three runs of the program, of which one may crash and one may stall.    *)
(***************************************************************************)
EXTENDS CycleLease

CONSTANTS p1, p2, p3

MCProcs == {p1, p2, p3}

\* Reading, building and publishing take long; the steps between a check of the
\* lease and the write it guards are single statements.
WhileWorking == {"read", "check", "publish", "recheck"}
=============================================================================
