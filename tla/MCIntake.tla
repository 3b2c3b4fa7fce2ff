------------------------------- MODULE MCIntake --------------------------------
(* Four instants of documents: a flood at the second instant that exceeds the *)
(* cap, sessions whose events are written out of order or share an id, events *)
(* without one, bursts with and without a pause, types missing from the       *)
(* registry, and sources that each gate refuses.                              *)
EXTENDS Intake

Fact(k, v) == [kind |-> k, value |-> v]
Doc(id, type, ts, pos, src) ==
  [id |-> id, type |-> type, path |-> "none", stamp |-> "@timestamp", at |-> ts, src |-> <<src>>,
   sensor |-> "n1", ids |-> [k \in {} |-> "x"], facts |-> {}, alert |-> TRUE,
   ts |-> ts, pos |-> pos]
With(d, facts) == [d EXCEPT !.facts = facts]
Sid(d, field, id) == [d EXCEPT !.ids = [k \in {field} |-> id]]

(* the first instant: two Cowrie sessions with one id, and what gates refuse *)
Login   == Sid(With(Doc(1, "Cowrie", 1, 1, "a"), {Fact("credential", 1)}), "session", "s")
Named1  == Doc(2, "emptyLLMResponse", 1, 2, "named")
Other   == Sid(With(Doc(3, "Cowrie", 1, 3, "b"), {Fact("command", 1)}), "session", "s")
Lost    == [Doc(4, "NewPot", 1, 4, "a") EXCEPT !.src = <<>>]
Unread  == [Doc(5, "Cowrie", 1, 5, "a") EXCEPT !.stamp = "none"]
Plant   == With(Doc(6, "ConPot", 1, 6, "census"), {Fact("ics", 1)})
Census  == Doc(7, "Wordpot", 1, 7, "census")
Self    == Doc(8, "Tanner", 1, 8, "us")
Quiet   == [Doc(9, "Suricata", 1, 9, "a") EXCEPT !.alert = FALSE]
(* the flood *)
Command == Sid(With(Doc(11, "Cowrie", 2, 1, "a"), {Fact("command", 2)}), "session", "s")
Again   == Sid(With(Doc(12, "Cowrie", 2, 2, "a"), {Fact("credential", 2)}), "session", "s")
Mail1   == Sid(With(Doc(13, "Mailoney", 2, 3, "b"), {Fact("credential", 3)}), "session_id", "m")
Mail2   == With(Doc(14, "Mailoney", 2, 4, "b"), {Fact("request", 1)})
Chained == [With(Doc(15, "H0neytr4p", 2, 5, "b"), {Fact("jndi", 1)}) EXCEPT !.src = <<"b", "a">>]
Broken  == With(Doc(16, "H0neytr4p", 2, 6, "junk"), {Fact("jndi", 2)})
Broken2 == With(Doc(17, "H0neytr4p", 2, 7, "junk"), {Fact("jndi", 2)})
Finger  == With(Doc(18, "Fatt", 2, 8, "a"), {Fact("fingerprint", 1)})
(* the third and the fourth: bursts *)
Burst1  == With(Doc(21, "Honeytrap", 3, 1, "a"), {Fact("payload", 1)})
Early   == [With(Doc(22, "Beelzebub", 3, 2, "b"), {Fact("command", 3)})
              EXCEPT !.stamp = "timestamp", !.at = 1]
Shell1  == With(Doc(23, "Router", 3, 3, "b"), {Fact("command", 4)})
Loose   == With(Doc(24, "Heralding", 3, 4, "a"), {Fact("credential", 4)})
Pump    == With(Doc(25, "Heralding", 3, 5, "a"), {Fact("ics", 2), Fact("request", 3)})
Burst2  == With(Doc(31, "Honeytrap", 4, 1, "a"), {Fact("payload", 2)})
Mail3   == With(Doc(34, "Mailoney", 4, 4, "b"), {Fact("request", 2)})
After   == With(Doc(32, "Beelzebub", 4, 2, "b"), {Fact("command", 5)})
Shell2  == [With(Doc(33, "odd", 4, 3, "b"), {Fact("command", 6)}) EXCEPT !.path = "Router"]

mcDocuments == {Login, Named1, Other, Lost, Unread, Plant, Census, Self, Quiet, Command, Again,
                Mail1, Mail2, Chained, Broken, Broken2, Finger, Burst1, Early, Shell1, Loose,
                Pump, Burst2, After, Shell2, Mail3}
mcLate == {Other, Burst2}
mcAddresses == {"a", "b", "named", "census", "us"}
================================================================================
