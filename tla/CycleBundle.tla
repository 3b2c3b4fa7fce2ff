------------------------------ MODULE CycleBundle ------------------------------
(* One cycle's STIX bundle: the sessions of the window are built one after    *)
(* the other (main.run_cycle), each by the builder method of its parser       *)
(* (stix/builder.py), into one list.  Ids are content-addressed, so sessions  *)
(* meet on the nodes they share; an edge may be drawn only to a node that is  *)
(* in the bundle, and the evidence gate may refuse an address its Indicator.  *)
(*                                                                            *)
(* A node is <<kind, value>>, an edge <<source, relation, target>>.  An       *)
(* optional field of a session is a set of at most one value.                 *)
EXTENDS Integers, FiniteSets, FiniteSetsExt

CONSTANTS
  Windows,      \* the sets of correlated sessions a cycle may be given, records
  Salvaged,     \* the groups of payload events whose source address is unusable
  Configs,      \* gate mode and switches of the process
  Malformed,    \* URLs and domains the validators refuse
  OwnHosts,     \* URLs and domains of the operator's own surface
  EsCounts,     \* <<address, sensor>> -> events the hive holds for the window
  MaxWebUrls    \* _MAX_WEB_URLS, per session

VARIABLES
  cfg,          \* the configuration, fixed for the cycle
  pending,      \* sessions not built yet
  type,         \* the parser type whose sessions are being built
  built,        \* sessions whose objects are in the bundle
  lost,         \* sessions whose build raised
  emitted,      \* the nodes in builder._emitted_ids
  span,       \* edge emitted -> [first, last], the times it claims
  tally,        \* sighting emitted -> [n, first, last, sids], the dict folded
  objects,      \* all_objects: [nodes, edges, sights] whose object was appended
  score,        \* address node -> x_opencti_score of the object kept
  withheld,     \* _gate_withheld_ids
  ics,          \* _ics_ip: <<address, label or protocol>> pairs
  labels,       \* address or Indicator node -> labels of the object kept
  phase         \* "build", "notes", "final"
bundleVars == <<cfg, pending, type, built, lost, emitted, span, tally, objects,
          score, withheld, ics, labels, phase>>

--------------------------------------------------------------------------------
(* Nodes: the id each build_* method gives a value (stix_ids).                *)
Ip(s)        == {"ip"} \X s.ip
Indicator(s) == {"indicator"} \X s.ip
Sensor(s)    == {"sensor"} \X {s.sensor}
Country(s)   == {"country"} \X s.country
City(s)      == IF s.country = {} THEN {} ELSE {"city"} \X s.city
AS(s)        == {"as"} \X s.asn
Patterns(N)  == {"attack-pattern"} \X N
Cves(s)      == {"vulnerability"} \X s.cves
Keys(K)      == {"key"} \X K
Files(H)     == {"file"} \X H
FileIndicators(H) == {"file-indicator"} \X H
Urls(U)      == {"url"} \X U
Domains(D)   == {"domain"} \X D
Hosts(D)     == {"ip"} \X D
Process(s)   == IF s.commands = {} THEN {} ELSE {"process"} \X {s.commands}
Note(s)      == {"note"} \X {<<s.sensor, s.sid>>}

(* A value a build_* method returns no object for, whatever the bundle holds. *)
ReconOnly(commands) == commands \subseteq {"recon"}
Invalid(n) == n[1] \in {"url", "domain"} /\ n[2] \in Malformed
OwnSurface(n) == n[1] \in {"url", "domain"} /\ n[2] \in OwnHosts
Rejected(n) ==
  \/ Invalid(n) \/ OwnSurface(n)
  \/ n[1] = "process" /\ cfg.dropRecon /\ ReconOnly(n[2])

(* _dedup: an object is built once per bundle.                                *)
BuiltNow(N, em) == {n \in N : ~Rejected(n) /\ n \notin em}

(* _emit_node: an edge may anchor on a node just built and on one the bundle  *)
(* already has -- "not built" alone does not tell the second from a refusal.  *)
AnchorsNewOnly(N, em) == BuiltNow(N, em)                            \* mutant
Anchors(N, em) == BuiltNow(N, em) \cup (N \cap em)

(* build_relationship: both ends are needed and a node is not its own target. *)
Draw(A, rel, B) == {e \in A \X {rel} \X B : e[1] # e[3]}

Graph(N, E) == [nodes |-> N, edges |-> E]
Nothing == Graph({}, {})
Join(S) == Graph(UNION {g.nodes : g \in S}, UNION {g.edges : g \in S})

--------------------------------------------------------------------------------
(* The gate.                                                                  *)
(* _ics_hard_refusal: refusals that hold in every gate mode *)
HardRefused(s) ==
  /\ cfg.refuseIcs
  /\ \E i \in s.ics : ~i.write /\ (i.snmpOnly \/ i.allowlisted)

(* evidence.decide, _decide_sip and _decide_ics *)
HasEvidence(s) ==
  IF s.type = "Sentrypeer" THEN s.intlDial
  ELSE \A i \in s.ics : i.write \/ (~i.snmpOnly /\ i.tier = "none")

(* _indicator_permitted *)
Permitted(s) ==
  /\ ~HardRefused(s)
  /\ cfg.mode # "enforce" \/ HasEvidence(s)

Withholds(s) == IF Permitted(s) THEN {} ELSE Indicator(s)

--------------------------------------------------------------------------------
(* Builders.  em is the set of ids emitted before the session.                *)
(* build_sensor_context and build_attacker_context *)
Context(s, em) ==
  Join({Graph(Sensor(s), {}),
        IF s.ip = {} THEN Nothing
        ELSE LET places == Anchors(Country(s) \cup City(s), em)
                 as == Anchors(AS(s), em)
             IN Graph(Ip(s) \cup places \cup as,
                      Draw(Ip(s), "located-at", places)
                        \cup Draw(Ip(s), "belongs-to", as))})

(* the Indicator, if the gate permits it, and its based-on edge *)
Attributed(s, em) ==
  LET ind == IF Permitted(s) THEN Anchors(Indicator(s), em) ELSE {}
  IN Graph(ind, Draw(ind, "based-on", Ip(s)))

(* build_driveby_session, and the common start of the other builders *)
Driveby(s, em) == Join({Context(s, em), Attributed(s, em)})

(* _emit_process with the edge to the address that ran the commands *)
Ran(s, em) ==
  LET proc == Anchors(Process(s), em)
  IN Graph(proc, Draw(proc, "related-to", Ip(s)))

(* files captured in the session, each with its Indicator *)
Captured(s, em) ==
  LET files == Anchors(Files(s.files), em)
      inds == Anchors(FileIndicators(s.files), em)
  IN Graph(files \cup inds,
           Draw(files, "related-to", Ip(s))
             \cup {e \in Draw(inds, "based-on", files) : e[1][2] = e[3][2]})

Referenced(U, s, em) ==
  LET urls == Anchors(Urls(U), em)
  IN Graph(urls, Draw(urls, "related-to", Ip(s)))

(* _link_download_chain: process -> file and url -> file.  The process is the *)
(* one the caller emitted, never one recomputed from the commands.            *)
ChainRecomputed(s, proc, em) ==                                     \* mutant
  Graph({}, Draw(Process(s), "related-to", Files(s.files)))
Downloaded(d, em) ==
  LET url == Anchors(Urls({d[1]}), em)
  IN Graph(url, Draw(url, "related-to", Files({d[2]})))

Chain(s, proc, em) ==
  IF s.ip = {} THEN Nothing
  ELSE Join({Graph({}, Draw(proc, "related-to", Files(s.files)))} \cup
            {Downloaded(d, em) : d \in s.downloads})

(* build_cowrie_session *)
Cowrie(s, em) ==
  LET hassh == Anchors(Keys(s.hassh), em)
      auth == Anchors(Keys(s.authKeys), em)
      planted == Anchors(Keys(s.planted), em)
      ind == Attributed(s, em).nodes
  IN Join({Driveby(s, em), Ran(s, em), Captured(s, em),
           Referenced(s.urls, s, em),
           Graph(hassh, Draw(hassh, "related-to", Ip(s))),
           Graph(auth \cup planted,
                 Draw(Ip(s), "related-to", auth \cup planted)
                   \cup Draw(ind, "related-to", planted)),
           Graph(Anchors(Domains(s.domains), em), {}),
           Chain(s, Anchors(Process(s), em), em)})

(* build_suricata_alert *)
Suricata(s, em) ==
  LET ind == Attributed(s, em).nodes
      named == Anchors(Patterns(s.techniques), em)
      aps == IF named = {} /\ ind # {} /\ cfg.generic
             THEN Anchors(Patterns({"Network Attack"}), em) ELSE named
      vulns == Anchors(Cves(s), em)
      hosts == IF cfg.inbound THEN Anchors(Domains(s.hosts), em) ELSE {}
      dst == IF hosts = {} THEN {} ELSE Anchors(Hosts(s.dst), em)
      asked == IF cfg.inbound THEN s.requests ELSE {}
  IN Join({Driveby(s, em), Referenced(asked, s, em),
           Graph(aps, Draw(ind, "indicates", aps)),
           Graph(vulns, Draw(ind, "indicates", vulns)),
           Graph(hosts \cup dst, Draw(hosts, "resolves-to", dst))})

(* build_honeytrap_probe: no File is emitted, the chain only points at one *)
Honeytrap(s, em) == Join({Driveby(s, em), Chain(s, {}, em)})

(* build_fallback_event: without a source address there is only a Note *)
Fallback(s, em) ==
  IF s.ip # {} THEN Driveby(s, em)
  ELSE Graph(Sensor(s) \cup Note(s), Draw(Note(s), "refers-to", Sensor(s)))

(* _build_web_session: the Indicator id is used without asking the gate *)
FirstUrls(U) ==
  CHOOSE kept \in SUBSET U : Cardinality(kept) = Min({Cardinality(U), MaxWebUrls})

Web(s, em) ==
  LET wanted == s.urls \cup (IF cfg.inbound THEN s.requests ELSE {})
      urls == Anchors(Urls(FirstUrls(wanted)), em)
      names == IF s.attackTypes = {} /\ s.cves \cup s.techniques # {}
               THEN {"Web application exploit attempt"} ELSE s.attackTypes
      found == Anchors(Patterns(names), em) \cup Anchors(Cves(s), em)
  IN IF s.ip = {} THEN Driveby(s, em)
     ELSE Join({Driveby(s, em),
                Graph(urls, Draw(Ip(s), "related-to", urls)),
                Graph(found, Draw(Indicator(s), "indicates", found))})

(* _build_malware_session *)
Malware(s, em) ==
  LET doms == Anchors(Domains(s.domains), em)
  IN IF s.ip = {} THEN Driveby(s, em)
     ELSE Join({Driveby(s, em), Ran(s, em), Captured(s, em),
                Referenced(s.urls, s, em),
                Graph(doms, Draw(doms, "related-to", Ip(s))),
                Chain(s, Anchors(Process(s), em), em)})

(* build_fatt_session *)
Fatt(s, em) ==
  LET prints == Anchors(Keys(s.hassh \cup s.ja3), em)
  IN Join({Driveby(s, em), Graph(prints, Draw(prints, "related-to", Ip(s)))})

(* _build_protocol_session *)
Interacted(s) == s.commands # {} \/ s.creds > 0 \/ s.meta \/ s.n > 2

(* the URL a command fetches from, and its host *)
Fetched(u, em) ==
  LET url == Anchors(Urls({u[1]}), em)
      at == IF url = {} THEN {}
            ELSE IF u[3] = "address" THEN Anchors(Hosts({u[2]}), em)
            ELSE Anchors(Domains({u[2]}), em)
  IN Graph(url \cup at, Draw(url, "related-to", at))

Protocol(s, em) ==
  LET said == IF s.protoRequests THEN Note(s) ELSE {}
      aps == IF Interacted(s) THEN Anchors(Patterns({s.type}), em) ELSE {}
  IN IF s.ip = {} THEN Driveby(s, em)
     ELSE Join({Driveby(s, em), Ran(s, em),
                Graph(said, Draw(said, "refers-to", Ip(s))),
                Graph(aps, Draw(Indicator(s), "indicates", aps)),
                Referenced({u[1] : u \in s.fetches}, s, em)} \cup
               {Fetched(u, em) : u \in s.fetches})

(* build_session_attack_patterns over attack_mapping.techniques_for_session *)
ShellTypes == {"Cowrie", "Adbhoney", "Beelzebub", "Router"}
TechniquesFor(s) ==
  (IF s.creds > 0 THEN {"T1110"} ELSE {}) \cup
  (IF s.creds > 1 THEN {"T1110.001"} ELSE {}) \cup
  (IF s.auth THEN {"T1078"} ELSE {}) \cup
  (IF s.commands # {} THEN {"T1059"} ELSE {}) \cup
  (IF s.commands # {} /\ s.type \in ShellTypes THEN {"T1059.004"} ELSE {}) \cup
  (IF s.files # {} \/ s.downloads # {} THEN {"T1105"} ELSE {}) \cup
  (IF s.planted # {} THEN {"T1098", "T1098.004"} ELSE {}) \cup
  (IF s.ports >= 3 THEN {"T1595", "T1595.001"} ELSE {})

Behaviour(s, em) ==
  IF s.ip = {} THEN Nothing
  ELSE LET aps == Anchors(Patterns(TechniquesFor(s)), em)
       IN Graph(aps, Draw(Indicator(s), "indicates", aps))

(* build_unattributed_payload_objects: the C2 endpoint takes the anchor's     *)
(* place, and a group whose URL is refused has none                           *)
Unattributed(s, em) ==
  LET url == {n \in Urls(s.c2) : ~Rejected(n)}
      found == Anchors(Domains(s.domains), em) \cup Anchors(Cves(s), em)
                 \cup Anchors(Patterns(s.attackTypes), em)
  IN IF url = {} THEN Nothing
     ELSE Graph(Sensor(s) \cup url \cup Anchors(Urls(s.urls), em) \cup found \cup Note(s),
                Draw(url, "related-to", found) \cup Draw(Note(s), "refers-to", url))

Web_   == {"Galah", "Tanner", "H0neytr4p", "ElasticPot", "Ciscoasa", "Wordpot",
           "NGINX", "Honeyaml", "cacheHit", "successfulResponse", "failedResponse",
           "emptyLLMResponse", "invalidJSONResponse", "contentGenerationError"}
Drops  == {"Adbhoney", "Dionaea"}
Speaks == {"ConPot", "Dicompot", "Ipphoney", "Redishoneypot", "Sentrypeer",
           "Miniprint", "Medpot", "Router", "Heralding", "RDPHoneypot",
           "Mailoney", "Beelzebub"}

(* _PARSER_DISPATCH *)
Dispatch(s, em) ==
  CASE s.type = "Cowrie" -> Cowrie(s, em)
    [] s.type = "Suricata" -> Suricata(s, em)
    [] s.type = "Honeytrap" -> Honeytrap(s, em)
    [] s.type = "__fallback__" -> Fallback(s, em)
    [] s.type = "Fatt" -> Fatt(s, em)
    [] s.type \in Web_ -> Web(s, em)
    [] s.type \in Drops -> Malware(s, em)
    [] s.type \in Speaks -> Protocol(s, em)
    [] OTHER -> Driveby(s, em)

--------------------------------------------------------------------------------
(* Sightings.                                                                 *)
(* _site_sightings and build_dual_sighting: which nodes are sighted.          *)
Sighted(s, em) ==
  IF Permitted(s) THEN Anchors(Indicator(s), em) \cup Ip(s)
  ELSE IF cfg.decoupled THEN Ip(s) ELSE {}

(* build_sighting: the hive's count for the window when there is one *)
Authoritative(s) ==
  {EsCounts[k] : k \in {k \in s.ip \X {s.sensor} : k \in DOMAIN EsCounts}}

Delta(s) ==
  CASE Authoritative(s) # {} -> Max(Authoritative(s))
    [] Authoritative(s) = {} /\ cfg.strict -> 0
    [] OTHER -> IF s.type = "Suricata" THEN 1 ELSE s.n

FromEs(s) == cfg.strict \/ Authoritative(s) # {}

(* _merge_or_emit_sighting *)
FoldedSums(t, k, s) ==                                              \* mutant
  IF k \notin DOMAIN t
  THEN [n |-> Delta(s), first |-> s.first, last |-> s.last, sids |-> {s.sid}]
  ELSE [t[k] EXCEPT !.n = @ + Delta(s), !.last = Max({@, s.last})]
Folded(t, k, s) ==
  IF k \notin DOMAIN t
  THEN [n |-> Delta(s), first |-> s.first, last |-> s.last, sids |-> {s.sid}]
  ELSE [n |-> IF s.sid \in t[k].sids THEN t[k].n
              ELSE IF FromEs(s) THEN Max({t[k].n, Delta(s)}) ELSE t[k].n + Delta(s),
        first |-> Min({t[k].first, s.first}), last |-> Max({t[k].last, s.last}),
        sids |-> t[k].sids \cup {s.sid}]

FoldAll(t, K, s) == [k \in DOMAIN t \cup K |-> IF k \in K THEN Folded(t, k, s) ELSE t[k]]

(* _widen_relationship_window: the hull of every observation of the edge *)
Hull(w, E, s) ==
  [e \in DOMAIN w \cup E |->
     IF e \notin E THEN w[e]
     ELSE IF e \notin DOMAIN w THEN [first |-> s.first, last |-> s.last]
     ELSE [first |-> Min({w[e].first, s.first}), last |-> Max({w[e].last, s.last})]]

--------------------------------------------------------------------------------
(* Scores and labels of address nodes.                                        *)
Cap(n) == Max({10, Min({100, n})})
SignalScore(s) ==
  Cap(50 + (IF s.auth THEN 30 ELSE 0) + (IF s.commands # {} THEN 25 ELSE 0)
         + (IF s.files # {} THEN 35 ELSE 0) + Min({15, 5 * s.creds}))
IpScore(s) == Cap(SignalScore(s) + s.reputation
                  + (IF \E i \in s.ics : i.write THEN 30 ELSE 0))

(* session_labels_for; ics is the pair the builder notes per address *)
IcsLabels(s) == UNION {i.labels : i \in s.ics}
NotedWhenNew(s) == (IF Ip(s) \subseteq emitted THEN {} ELSE s.ip) \X   \* mutant
                   (IcsLabels(s) \cup UNION {i.protocols : i \in s.ics})
Noted(s) == s.ip \X (IcsLabels(s) \cup UNION {i.protocols : i \in s.ics})
SessionLabels(s) == {s.type} \cup IcsLabels(s)

Industrial == {"modbus", "s7comm", "bacnet"}
(* _apply_ics_label_union, with ics:multi-protocol decided per address *)
IcsUnion(a) ==
  LET said == {p[2] : p \in {p \in ics : p[1] = a}}
  IN (said \ Industrial) \cup
     (IF Cardinality(said \cap Industrial) >= 2 THEN {"ics:multi-protocol"} ELSE {})

--------------------------------------------------------------------------------
(* _is_bare_scan, asked only of the catch-all paths *)
BareScan(s) ==
  /\ s.type \notin Web_ \cup Drops \cup Speaks \cup {"Cowrie", "Suricata", "Fatt"}
  /\ ~s.auth /\ s.commands = {} /\ s.files = {} /\ s.downloads = {} /\ s.creds = 0
  /\ s.ports < 3 /\ ~s.payload

(* _record_ics_session: the SNMP reflection shape is dropped before anything *)
Reflection(s) == cfg.refuseIcs /\ \E i \in s.ics : i.bulkOnly

(* What the parsers guarantee of a session: one address, at least one event, a *)
(* download that names a hash among its files (Honeytrap names it alone), ICS  *)
(* labels that are no protocols.  A salvage group has no usable address.       *)
ASSUME BundleAssumption ==
  /\ \A W \in Windows : W \cap Salvaged = {}
  /\ \A s \in (UNION Windows) \cup Salvaged :
       /\ \A a, b \in s.ip : a = b
       /\ \A u, v \in s.c2 : u = v
       /\ s.n \in Nat \ {0}
       /\ s.first \in Int /\ s.last \in Int
       /\ s.type # "Honeytrap" => \A d \in s.downloads : d[2] \in s.files
       /\ \A i \in s.ics : i.labels \cap Industrial = {} /\ i.protocols \subseteq Industrial
  /\ \A s \in Salvaged : s.ip = {}
  /\ \A k \in DOMAIN EsCounts : EsCounts[k] \in Nat

BundleInit ==
  /\ cfg \in Configs
  /\ pending \in Windows /\ type = "none"
  /\ built = {} /\ lost = {}
  /\ emitted = {} /\ objects = [nodes |-> {}, edges |-> {}, sights |-> {}]
  /\ span = <<>> /\ tally = <<>> /\ score = <<>> /\ labels = <<>>
  /\ withheld = {} /\ ics = {}
  /\ phase = "build"

(* parsed_by_type is walked type by type, in the order the types arrived *)
Turn(s) ==
  /\ phase = "build" /\ s \in pending
  /\ s.type = type \/ \A p \in pending : p.type # type

(* First observation wins: a node already emitted keeps its attributes. *)
Keep(f, N, v) == [n \in DOMAIN f \cup N |-> IF n \in DOMAIN f THEN f[n] ELSE v]

(* What a session leaves in the builder, whether its objects arrive or not.   *)
AbsorbUnregistered(s, g, K) ==                                      \* mutant
  /\ emitted' = emitted
  /\ span' = Hull(span, g.edges, s)
  /\ tally' = FoldAll(tally, K, s)
  /\ score' = Keep(score, Ip(s) \cap g.nodes, IpScore(s))
  /\ labels' = Keep(labels, (Ip(s) \cup Indicator(s)) \cap g.nodes, SessionLabels(s))
  /\ withheld' = withheld \cup Withholds(s)
  /\ ics' = ics \cup (IF Ip(s) \subseteq g.nodes THEN Noted(s) ELSE {})
Absorb(s, g, K) ==
  /\ emitted' = emitted \cup g.nodes
  /\ span' = Hull(span, g.edges, s)
  /\ tally' = FoldAll(tally, K, s)
  /\ score' = Keep(score, Ip(s) \cap g.nodes, IpScore(s))
  /\ labels' = Keep(labels, (Ip(s) \cup Indicator(s)) \cap g.nodes, SessionLabels(s))
  /\ withheld' = withheld \cup Withholds(s)
  /\ ics' = ics \cup (IF Ip(s) \subseteq g.nodes THEN Noted(s) ELSE {})

(* The objects the builder method returns: those that were new to the bundle. *)
Extend(g, K) ==
  objects' = [nodes |-> objects.nodes \cup (g.nodes \ emitted),
              edges |-> objects.edges \cup (g.edges \ DOMAIN span),
              sights |-> objects.sights \cup (K \ DOMAIN tally)]

SessionGraph(s, em) == Join({Dispatch(s, em), Behaviour(s, em)})
Sightings(s, em) == Sighted(s, em) \X {s.sensor}

Skip(s) ==
  /\ Turn(s)
  /\ Reflection(s) \/ BareScan(s)
  /\ pending' = pending \ {s} /\ type' = s.type
  /\ UNCHANGED <<cfg, built, lost, emitted, span, tally, objects, score,
                 withheld, ics, labels, phase>>

Build(s) ==
  /\ Turn(s)
  /\ ~Reflection(s) /\ ~BareScan(s)
  /\ Absorb(s, SessionGraph(s, emitted), Sightings(s, emitted))
  /\ Extend(SessionGraph(s, emitted), Sightings(s, emitted))
  /\ built' = built \cup {s}
  /\ pending' = pending \ {s} /\ type' = s.type
  /\ UNCHANGED <<cfg, lost, phase>>

(* The build raises part-way: the cycle goes on without the session's list,   *)
(* but what it made stays in _emitted_ids.                                    *)
BuildFails(s) ==
  /\ Turn(s) /\ s.mayFail
  /\ ~Reflection(s) /\ ~BareScan(s)
  /\ \E g \in {Context(s, emitted), SessionGraph(s, emitted)} : Absorb(s, g, {})
  /\ lost' = lost \cup {s}
  /\ pending' = pending \ {s} /\ type' = s.type
  /\ UNCHANGED <<cfg, built, objects, phase>>

(* The salvage groups, after the sessions.                                    *)
SalvageSights(s) ==
  IF Unattributed(s, {}) = Nothing THEN {} ELSE Urls(s.c2) \X {s.sensor}

Salvage(s) ==
  /\ phase = "build" /\ pending = {} /\ s \in Salvaged \ built
  /\ Absorb(s, Unattributed(s, emitted), SalvageSights(s))
  /\ Extend(Unattributed(s, emitted), SalvageSights(s))
  /\ built' = built \cup {s}
  /\ UNCHANGED <<cfg, pending, type, lost, phase>>

(* One credential Note per address that tried a login, built or not.          *)
CredentialNotes ==
  /\ phase = "build" /\ pending = {} /\ Salvaged \subseteq built
  /\ LET tried == UNION {s.ip : s \in {s \in built \cup lost : s.creds > 0}}
     IN objects' = [objects EXCEPT
          !.nodes = @ \cup ({"credentials"} \X tried),
          !.edges = @ \cup {<<<<"credentials", a>>, "refers-to", <<"ip", a>>>> : a \in tried}]
  /\ phase' = "notes"
  /\ UNCHANGED <<cfg, pending, type, built, lost, emitted, span, tally, score,
                 withheld, ics, labels>>

(* finalize_sighting_counts and finalize_bundle.                              *)
FinalizeUnstripped ==                                               \* mutant
  /\ phase = "notes" /\ phase' = "final"
  /\ labels' = [n \in DOMAIN labels |-> labels[n] \cup IcsUnion(n[2])]
  /\ UNCHANGED <<cfg, pending, type, built, lost, emitted, span, tally, objects,
                 score, withheld, ics>>
Finalize ==
  /\ phase = "notes"
  /\ LET gone == withheld \ emitted
     IN objects' =
          [nodes |-> objects.nodes,
           edges |-> {e \in objects.edges : e[1] \notin gone /\ e[3] \notin gone},
           sights |-> {k \in objects.sights : tally[k].n > 0}]
  /\ labels' = [n \in DOMAIN labels |-> labels[n] \cup IcsUnion(n[2])]
  /\ phase' = "final"
  /\ UNCHANGED <<cfg, pending, type, built, lost, emitted, span, tally, score,
                 withheld, ics>>

Done == phase = "final" /\ UNCHANGED bundleVars

BundleNext ==
  \/ \E s \in pending : Skip(s) \/ Build(s) \/ BuildFails(s)
  \/ \E s \in Salvaged : Salvage(s)
  \/ CredentialNotes \/ Finalize \/ Done

BundleSpec == BundleInit /\ [][BundleNext]_bundleVars

--------------------------------------------------------------------------------
Ids == [nodes : SUBSET emitted, edges : SUBSET DOMAIN span, sights : SUBSET DOMAIN tally]

(* Type invariant: what the bundle holds the builder has emitted.             *)
BundleTypeOK ==
  /\ pending \cap (built \cup lost) = {}
  /\ phase = "build" => objects \in Ids
  /\ phase \in {"build", "notes", "final"}

(* What a session or a salvage group would put into a bundle of its own.      *)
Alone(s) == IF s \in Salvaged THEN Unattributed(s, {}) ELSE SessionGraph(s, {})
Sources(e) == {s \in built : e \in Alone(s).edges}

(* The order in which sessions are built decides nothing: unless a build      *)
(* raised, the bundle has every node and every edge that any session would    *)
(* have given alone, except edges to an Indicator no session was permitted,   *)
(* and each edge claims exactly the hull of the sessions that observed it     *)
(* (_emit_node, _widen_relationship_window, finalize_bundle).                 *)
OrderFree ==
  phase = "final" /\ lost = {} =>
    LET alone == Join({Alone(s) : s \in built})
        granted == UNION {Indicator(s) : s \in {s \in built : Permitted(s)}}
        Kept(e) == \A n \in {e[1], e[3]} : n[1] = "indicator" => n \in granted
    IN /\ alone.nodes \subseteq objects.nodes
       /\ \A e \in alone.edges : Kept(e) <=> e \in objects.edges
       /\ \A e \in alone.edges :
            /\ span[e].first = Min({s.first : s \in Sources(e)})
            /\ span[e].last = Max({s.last : s \in Sources(e)})

(* No edge or note reference of the finished bundle points at nothing, save   *)
(* at a node a failed build took with it, and at a file only a Honeytrap      *)
(* download names (both are known, see the disagreements in the README).      *)
NoEdgeDangles ==
  phase = "final" =>
    LET pointed == UNION {Files({d[2] : d \in s.downloads}) :
                            s \in {s \in built : s.type = "Honeytrap"}}
        taken == emitted \ objects.nodes
    IN \A e \in objects.edges :
         {e[1], e[3]} \subseteq objects.nodes \cup taken \cup pointed
           \cup UNION {Ip(s) : s \in lost}

(* An address is accused (Indicator, and every edge or Sighting on it) only   *)
(* if some session of it passed the gate; a refused address still keeps its   *)
(* observable, and its Sighting when the Sightings are decoupled.             *)
AccusedForCause ==
  phase = "final" =>
    LET accused == {n[2] : n \in {n \in objects.nodes : n[1] = "indicator"}}
                     \cup {k[1][2] : k \in {k \in objects.sights : k[1][1] = "indicator"}}
                     \cup UNION {{n[2] : n \in {m \in {e[1], e[3]} : m[1] = "indicator"}} :
                                    e \in objects.edges}
    IN /\ \A a \in accused : \E s \in built \cup lost : a \in s.ip /\ Permitted(s)
       /\ \A s \in built \ Salvaged : lost = {} => Ip(s) \subseteq objects.nodes
       /\ \A s \in built \ Salvaged :
            lost = {} /\ cfg.decoupled /\ ~FromEs(s) => Ip(s) \X {s.sensor} \subseteq objects.sights

(* A Sighting counts its window once, however many sessions fold into it: the *)
(* hive's count where the hive was asked, else every event of every session   *)
(* (told apart by their ids), up to the last time any of them was active      *)
(* (_merge_or_emit_sighting; OpenCTI adds what it is sent).                   *)
Sighting(k) == {s \in built \ Salvaged : k \in Sightings(s, {})}
Events(S) == UNION {{s} \X (1..Delta(s)) : s \in S}
ToldApart(S) == \A s, t \in S : s.sid = t.sid => s = t
CountsWindowOnce ==
  phase = "final" =>
    \A k \in objects.sights :
      LET S == Sighting(k)
      IN S # {} => /\ \A s \in S : FromEs(s) => tally[k].n = Delta(s)
                   /\ (\A s \in S : ~FromEs(s)) /\ ToldApart(S)
                        => tally[k].n = Cardinality(Events(S))
                   /\ tally[k].last = Max({s.last : s \in S})

(* Attributes are those of the first session, but no ICS label of a later one *)
(* is lost, and several industrial protocols of one address show, even seen   *)
(* in different sessions (_note_ics_session, _apply_ics_label_union).         *)
IcsLabelsKept ==
  phase = "final" =>
    \A n \in DOMAIN labels :
      LET S == {s \in built : n[2] \in s.ip}
          spoken == UNION {i.protocols : i \in UNION {s.ics : s \in S}}
      IN /\ UNION {IcsLabels(s) : s \in S} \subseteq labels[n]
         /\ Cardinality(spoken) >= 2 => "ics:multi-protocol" \in labels[n]

(* A captured file reaches the bundle: parsers/honeytrap.py routes a download *)
(* "so the builder emits a File observable + URL->File edge".  Not so.        *)
CapturedFileShipped ==
  phase = "final" =>
    \A s \in built : lost = {} => Files(s.files) \subseteq objects.nodes

(* The publisher merges "to preserve the highest-signal observation of each   *)
(* id"; within one bundle the first session's score is the only one it sees.  *)
HighestSignal ==
  phase = "final" =>
    \A s \in built \ Salvaged : \A n \in Ip(s) \cap DOMAIN score : score[n] >= IpScore(s)
================================================================================
