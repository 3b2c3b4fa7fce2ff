---------------------------- MODULE MCLookupLane ----------------------------
(***************************************************************************)
(* Instances of LookupLane: InternetDB is asked without a limit, CIRCL     *)
(* once a day about two samples.                                           *)
(***************************************************************************)
EXTENDS LookupLane

OneSampleADay == [src \in Sources |-> IF src = "circl" THEN 1 ELSE 0]
=============================================================================
