-------------------------------- MODULE Parsers --------------------------------
(* From a T-Pot document to the sessions of a cycle: the registry of parsers  *)
(* (parsers/__init__.py), what each parser accepts and reads, and how events  *)
(* are correlated (session/correlator.py).  A document is a record            *)
(*   id; type: its `type`, or what it says instead; path: the parser its file *)
(*   path names; stamp: the field with a readable timestamp; at: that instant;*)
(*   src: the addresses src_ip lists (a forwarded request names several);     *)
(*   sensor; ids: field -> id; facts: {[kind, value]}, the value of a payload *)
(*   its length; alert: has an alert; ts, pos: Elasticsearch's sort key       *)
EXTENDS Integers, Sequences, FiniteSets, Functions, SequencesExt

CONSTANTS
  Addresses,    \* parseable source addresses
  NoSource,     \* no src_ip
  Garbled,      \* a src_ip that is no address
  NoId,         \* no session id
  Gap           \* 300 s, the window of a burst, in the unit of timestamps

(* A parser: the fields it takes the session id from, in order; the kinds of  *)
(* facts it reads; those a session holds one of, with the one it holds; and   *)
(* how it groups events: "one" (an event is a session), "id", "window", "any" *)
(* (by id if an event has one), "all" (by id if every event has one).         *)
NoSlots == [k \in {} |-> "first"]
Reader(ids, reads, slots, groups) ==
  [ids |-> ids, reads |-> reads, slots |-> slots, groups |-> groups]
Single(ids, reads) == Reader(ids, reads, NoSlots, "one")
Named == <<"session", "session_id">>

Adbhoney    == Single(Named, {"command", "file", "device"})
Ciscoasa    == Single(<<"session_id">>, {"payload", "cve"})
Dicompot    == Single(Named, {"request"})
Dionaea     == Single(<<>>, {"file", "url"})
ElasticPot  == Single(<<>>, {"request", "cve"})
Fallback    == Single(<<>>, {})
Galah       == Single(<<"session">>, {"credential", "request", "payload"})
H0neytr4p   == Single(<<>>, {"request", "payload", "jndi", "hint"})
Honeyaml    == Single(<<>>, {"request"})
Ipphoney    == Single(Named, {"request"})
Medpot      == Single(Named, {"request"})
Miniprint   == Single(<<>>, {"request", "payload"})
Nginx       == Single(<<>>, {"request"})
Redis       == Single(<<>>, {"command"})
Sentrypeer  == Single(Named, {"request", "dial"})
Suricata    == Single(<<"flow">>, {"signature", "cve", "technique", "fingerprint", "file"})
Tanner      == Single(<<>>, {"request", "technique"})
Wordpot     == Single(<<>>, {"request"})
Cowrie      == Reader(<<"session">>, {"credential", "accepted", "command", "file", "url", "key",
                                      "fingerprint"},
                      [fingerprint |-> "last", accepted |-> "last"], "id")
Conpot      == Reader(<<"id">> \o Named, {"request", "ics"}, NoSlots, "id")
Heralding   == Reader(<<"session_id">>, {"credential", "request", "ics"}, NoSlots, "id")
RDPHoneypot == Reader(Named \o <<"message">>, {"credential", "ntlm"}, NoSlots, "id")
Beelzebub   == Reader(<<"session">>, {"credential", "command", "fingerprint"},
                      [fingerprint |-> "first"], "window")
Fatt        == Reader(<<>>, {"fingerprint"}, [fingerprint |-> "first"], "window")
Honeytrap   == Reader(<<>>, {"payload", "file", "url"}, [payload |-> "longest"], "window")
Mailoney    == Reader(<<"session_id">>, {"credential", "request"}, NoSlots, "any")
Router      == Reader(Named \o <<"connection_id">>, {"command"}, NoSlots, "all")

(* _auto_register: `type` -> parser; Galah also under its internal types *)
Registry ==
  [Adbhoney |-> Adbhoney, Ciscoasa |-> Ciscoasa, Dicompot |-> Dicompot, Dionaea |-> Dionaea,
   ElasticPot |-> ElasticPot, Galah |-> Galah, emptyLLMResponse |-> Galah,
   H0neytr4p |-> H0neytr4p, Honeyaml |-> Honeyaml, Ipphoney |-> Ipphoney, Medpot |-> Medpot,
   Miniprint |-> Miniprint, NGINX |-> Nginx, Redishoneypot |-> Redis,
   Sentrypeer |-> Sentrypeer, Suricata |-> Suricata, Tanner |-> Tanner, Wordpot |-> Wordpot,
   Cowrie |-> Cowrie, ConPot |-> Conpot, Heralding |-> Heralding,
   RDPHoneypot |-> RDPHoneypot, Beelzebub |-> Beelzebub, Fatt |-> Fatt,
   Honeytrap |-> Honeytrap, Mailoney |-> Mailoney, Router |-> Router]
Parser(t) == IF t \in DOMAIN Registry THEN Registry[t] ELSE Fallback

(* dispatch: a type nobody registered is looked for in the file path *)
TypeOf(d) ==
  LET t == IF d.type \notin DOMAIN Registry /\ d.path \in DOMAIN Registry
           THEN d.path ELSE d.type
  IN IF t = "emptyLLMResponse" THEN "Galah" ELSE t

(* The floor of every parser; Beelzebub and Galah fall back on `timestamp`,   *)
(* Suricata reads alerts only, the fallback does without a source.            *)
Accepted(d) ==
  /\ d.stamp = "@timestamp" \/ (d.stamp = "timestamp" /\ TypeOf(d) \in {"Beelzebub", "Galah"})
  /\ TypeOf(d) = "Suricata" => d.alert
  /\ d.src = <<>> => TypeOf(d) \notin DOMAIN Registry

(* _normalize_src_ip: H0neytr4p reads the first address of a forwarded chain *)
Source(d) ==
  CASE d.src = <<>> -> NoSource
    [] Len(d.src) = 1 \/ TypeOf(d) = "H0neytr4p" -> Head(d.src)
    [] OTHER -> Garbled

SessionId(d) ==
  LET named == SelectSeq(Parser(TypeOf(d)).ids, LAMBDA i : i \in DOMAIN d.ids)
  IN IF named = <<>> THEN NoId ELSE d.ids[Head(named)]

(* where a document stands in the stream *)
Key(d) == <<d.ts, d.pos>>
Before(k, l) == k[1] < l[1] \/ (k[1] = l[1] /\ k[2] < l[2])

Event(d) ==
  [doc |-> d.id, type |-> TypeOf(d), src |-> Source(d), sensor |-> d.sensor, at |-> d.at,
   place |-> Key(d), sid |-> SessionId(d),
   facts |-> {f \in d.facts : f.kind \in Parser(TypeOf(d)).reads}]

--------------------------------------------------------------------------------
(* Correlation.  A group is a set of events; they stand in the order of their *)
(* timestamps, those of one instant in the order of the stream, since the     *)
(* sort is stable.                                                            *)
Actor(e) == <<e.src, e.sensor>>
HasId(e) == e.sid # NoId
Precedes(e, f) == e.at < f.at \/ (e.at = f.at /\ Before(e.place, f.place))
Earliest(events) == CHOOSE e \in events : \A f \in events : ~Precedes(f, e)
Latest(events)   == CHOOSE e \in events : \A f \in events : ~Precedes(e, f)

OnePerEvent(batch) == {{e} : e \in batch}

(* correlate_by_session_id: events without an id are sessions of their own *)
ByAnyone(batch) ==                                                  \* mutant
  LET named == {e \in batch : HasId(e)}
  IN {{f \in named : f.sid = e.sid} : e \in named} \cup OnePerEvent(batch \ named)
BySessionId(batch) ==
  LET named == {e \in batch : HasId(e)}
  IN {{f \in named : f.sid = e.sid /\ Actor(f) = Actor(e)} : e \in named}
       \cup OnePerEvent(batch \ named)

(* correlate_by_window: an event joins the latest burst of its actor unless   *)
(* more than Gap has passed since that burst's last event                     *)
Opens(e, batch) ==
  \A f \in batch : Actor(f) = Actor(e) /\ Precedes(f, e) => e.at - f.at > Gap
Burst(o, batch) ==
  {e \in batch :
     /\ Actor(e) = Actor(o) /\ ~Precedes(e, o)
     /\ \A n \in batch :
          Actor(n) = Actor(o) /\ Opens(n, batch) /\ Precedes(o, n) => Precedes(e, n)}
ByWindow(batch) == {Burst(o, batch) : o \in {e \in batch : Opens(e, batch)}}

MailoneyCorrelate(batch) ==
  IF \E e \in batch : HasId(e) THEN BySessionId(batch) ELSE ByWindow(batch)
RouterCorrelate(batch) ==
  IF \A e \in batch : HasId(e) THEN BySessionId(batch) ELSE ByWindow(batch)

Groups(p, batch) ==
  CASE p.groups = "one"    -> OnePerEvent(batch)
    [] p.groups = "id"     -> BySessionId(batch)
    [] p.groups = "window" -> ByWindow(batch)
    [] p.groups = "any"    -> MailoneyCorrelate(batch)
    [] p.groups = "all"    -> RouterCorrelate(batch)

(* _is_ics_event *)
Industrial(e) == e.type = "ConPot" \/ \E f \in e.facts : f.kind = "ics"

(* _aggregate_session: what a session says of its events.  A slot holds the   *)
(* first, the last or the longest of its kind; a session with an industrial   *)
(* event says its requests and its industrial findings, and nothing else.     *)
Held(p, kind, group) ==
  LET of(e)  == {f \in e.facts : f.kind = kind}
      having == {e \in group : of(e) # {}}
      all    == UNION {of(e) : e \in group}
  IN CASE having = {} -> {}
       [] having # {} /\ p.slots[kind] = "first" -> of(Earliest(having))
       [] having # {} /\ p.slots[kind] = "last"  -> of(Latest(having))
       [] OTHER -> {CHOOSE f \in all : \A g \in all : f.value >= g.value}
AggregateFirst(p, group) == Earliest(group).facts                   \* mutant
Aggregate(p, group) ==
  LET slots == DOMAIN p.slots
  IN IF \E e \in group : Industrial(e)
     THEN {f \in UNION {e.facts : e \in group} : f.kind \in {"request", "ics"}}
     ELSE (UNION {{f \in e.facts : f.kind \notin slots} : e \in group})
            \cup (UNION {Held(p, k, group) : k \in slots})

(* Where events are grouped by id, one without an id is built by from_event,  *)
(* which asks no aggregator; ConPot and Heralding see to their industrial     *)
(* ones themselves.                                                           *)
Bare(p, batch, group) ==
  /\ p.groups = "id" \/ (p.groups = "any" /\ \E e \in batch : HasId(e))
  /\ \A e \in group : ~HasId(e) /\ ~Industrial(e)

Session(p, batch, group) ==
  LET first == Earliest(group)
  IN [type |-> first.type, src |-> first.src, sensor |-> first.sensor,
      first |-> first.at, last |-> Latest(group).at, events |-> group,
      facts |-> IF Bare(p, batch, group) THEN {} ELSE Aggregate(p, group)]

Correlate(t, batch) == {Session(Parser(t), batch, g) : g \in Groups(Parser(t), batch)}
================================================================================
