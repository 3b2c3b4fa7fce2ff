----------------------------- MODULE MCCycleMemory -----------------------------
(* Four windows: an artifact shared across windows, one shared too widely, an *)
(* address refused before it is accepted, one that turns out a scanner after  *)
(* its score was high and comes back strong, one inside a CDN range; a pair   *)
(* that is accepted at the second attempt.  The cycles are so far apart that  *)
(* rows may lapse before an address returns, or just not.                     *)
EXTENDS CycleMemory

Base == [ip |-> "a", parser |-> "Cowrie", first |-> 2, last |-> 3, artifacts |-> {},
         substantive |-> FALSE, score |-> 80, labels |-> {}, permitted |-> TRUE,
         profiled |-> TRUE, tried |-> <<>>, accepted |-> {}]
Spammer == [Base EXCEPT !.artifacts = {"spam"}, !.substantive = TRUE]
Loader  == [Base EXCEPT !.ip = "e", !.artifacts = {"file"}, !.substantive = TRUE]
Early   == [Base EXCEPT !.first = 1, !.last = 2, !.score = 30,
                        !.tried = <<"root", "admin", "root">>]
Refused == [Base EXCEPT !.ip = "b", !.artifacts = {"key"}, !.permitted = FALSE, !.score = 30,
                        !.profiled = FALSE]
Sharer  == [Base EXCEPT !.ip = "c", !.artifacts = {"file", "spam", "key"}, !.first = 4,
                        !.last = 4, !.score = 30, !.profiled = FALSE]
Cdn     == [Base EXCEPT !.ip = "d", !.artifacts = {"spam"}, !.profiled = FALSE]
Census  == [Base EXCEPT !.first = 5, !.last = 6, !.score = 30, !.labels = {"scanner"},
                        !.tried = <<"root">>, !.accepted = {"root"}]
Weaker  == [Loader EXCEPT !.first = 7, !.last = 7, !.score = 30, !.artifacts = {}]
Later   == [Base EXCEPT !.first = 7, !.last = 9, !.tried = <<"root">>]
Accepted == [Refused EXCEPT !.permitted = TRUE, !.first = 7, !.last = 8]

mcWindows == << <<Spammer, Early, Loader, Refused>>, <<Sharer, Cdn, Census>>,
                <<Accepted, Weaker>>, <<Later>> >>
mcInstants == {8, 15}
mcPeriod == [daily |-> [t \in mcInstants |-> IF t = 8 THEN 1 ELSE 2],
             weekly |-> [t \in mcInstants |-> 1]]
mcBounds == [daily |-> << [from |-> 0, to |-> 4], [from |-> 5, to |-> 9] >>,
             weekly |-> << [from |-> 0, to |-> 9] >>]
mcEdge == {"d"}
================================================================================
