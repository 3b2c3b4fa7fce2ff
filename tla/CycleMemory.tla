------------------------------ MODULE CycleMemory ------------------------------
(* What the connector remembers from one cycle to the next besides Sighting   *)
(* counts: the roll-up of each attacker (state.attacker_activity), who shared *)
(* which artifact (campaign_artifacts), which profile notes were emitted, the *)
(* strongest version of every object (object_max_state) and the edges that    *)
(* need not be sent again (immutable_emitted); and, in a database of its own, *)
(* which credentials each address tried.  The memory is written while a       *)
(* bundle is built, published and accounted for; the process may die between  *)
(* any two of these writes, some of them may fail and the cycle go on without *)
(* them, and OpenCTI may take only some passes.  When a cycle ends, rows      *)
(* nothing has touched for months are pruned (state.prune_all).               *)
EXTENDS Integers, Sequences, FiniteSets, Functions

CONSTANTS
  Windows,      \* the sessions of each window, in the order main builds them
  Instants,     \* when cycles may start
  Period,       \* cadence -> instant -> yesterday, or the ISO week yesterday lies in
  Bounds,       \* cadence -> day or week -> [from, to]
  Edge,         \* addresses inside a published CDN range (edge_networks.yaml)
  Ceiling,      \* TPOT2CTI_SCORE_CEILING
  MinMembers,   \* MIN_CAMPAIGN_MEMBERS
  MaxMembers,   \* MAX_CAMPAIGN_MEMBERS
  KeepActivity, \* 90 days: activity_cutoff_days
  KeepLog,      \* 100 days: profile_log_cutoff_days
  KeepState,    \* 180 days: max_state_cutoff_days
  MaxFaults,    \* bound: crashes, unclean publishes, writes that fail
  MaxLosses     \* bound: edges OpenCTI loses

ASSUME MemoryAssumption ==
  /\ Windows \in Seq(Seq(UNION {Range(Windows[i]) : i \in DOMAIN Windows}))
  /\ \A i \in DOMAIN Windows : \A j \in DOMAIN Windows[i] :
       LET s == Windows[i][j] IN
         /\ s.score \in Int /\ s.first \in Int /\ s.last \in Int
         /\ s.tried \in Seq(Range(s.tried))
  /\ Ceiling \in Int /\ Instants \subseteq Int
  /\ {KeepActivity, KeepLog, KeepState} \subseteq Nat
  /\ DOMAIN Period \subseteq {"daily", "weekly"}

VARIABLES
  pc,           \* "idle", "fold", "store", "roll", "publish", "max", "once", "cursor",
                \* "prune"
  now,          \* when the cycle in hand, or the last one, started
  w,            \* the window being worked on; windows below it are left behind
  next,         \* index of the session to fold
  activity,     \* <<address, parser>> -> [sessions, first, last, substantive]
  members,      \* rows of campaign_artifacts
  noted,        \* attacker_profile_emit_log: address -> [seen, at] of its live note
  summarised,   \* cadence -> last_daily_/last_weekly_attacker_emit (0: none)
  maxState,     \* object -> [score, labels, at], at: updated_at
  ledger,       \* immutable_emitted
  usage,        \* <<address, pair>> -> [tried, accepted] (credential_usage)
  bundle,       \* objects and edges of the cycle
  draft,        \* object of the bundle -> [score, labels]
  withheld,     \* _gate_withheld_ids
  keys,         \* artifacts of the cycle still to be looked at
  active,       \* profile_active_ips still to be looked at
  clean,        \* the publish had no errors
  platform,     \* what OpenCTI holds of the bundles
  held,         \* object in OpenCTI -> [score, labels, at]: delivered last at at, with
                \* these labels since it was new or its row had lapsed
  told,         \* address -> what its credential note says: <<pair, accepted>>
  stale,        \* edges OpenCTI lost while the ledger asserts them
  unstored,     \* windows whose credentials could not be stored
  unrolled,     \* sessions <<window, index>> whose roll-up could not be written
  unsaved,      \* objects a cycle delivered, or was to, without writing their row
  faults, losses
memory   == <<activity, members, noted, summarised, maxState, ledger, usage>>
cycle    == <<bundle, draft, withheld, keys, active, clean>>
opencti  == <<platform, held, told>>
missing  == <<stale, unstored, unrolled, unsaved>>
vars == <<pc, now, w, next, memory, cycle, opencti, missing, faults, losses>>

--------------------------------------------------------------------------------
Sessions == UNION {Range(Windows[i]) : i \in DOMAIN Windows}
Addresses == {s.ip : s \in Sessions}
Keys      == UNION {s.artifacts : s \in Sessions}
Labels    == (UNION {s.labels : s \in Sessions}) \cup {"edge"}
Pairs     == UNION {Range(s.tried) : s \in Sessions}
Scores    == {s.score : s \in Sessions} \cup {Ceiling}
Objects   == {"ip", "indicator"} \X Addresses
Cadences  == DOMAIN Period
Periods   == UNION {Range(Period[p]) : p \in Cadences}

BasedOn(a)      == <<"based-on", a>>
Indicates(a, k) == <<"indicates", a, k>>
Campaign(k)     == <<"campaign", k>>
LiveNote(a, t)  == <<"note", a, t>>
Summary(p, a, d) == <<p, a, d>>
Credentials(a)  == <<"credentials", a>>

Entities  == Objects \cup {Campaign(k) : k \in Keys}
                     \cup {<<"note", a, s.last>> : a \in Addresses, s \in Sessions}
                     \cup {Credentials(a) : a \in Addresses}
                     \cup {Summary(p, a, d) : p \in Cadences, a \in Addresses, d \in Periods}
Immutable == {BasedOn(a) : a \in Addresses}
Edges     == Immutable \cup {Indicates(a, k) : a \in Addresses, k \in Keys}

(* What an edge or a note needs to be in OpenCTI or in the bundle             *)
(* (Publisher._endpoint_refs; a note needs one of its object_refs).           *)
Endpoints(x) ==
  CASE x[1] = "based-on"  -> {<<"indicator", x[2]>>, <<"ip", x[2]>>}
    [] x[1] = "indicates" -> {<<"indicator", x[2]>>, Campaign(x[3])}
    [] OTHER -> {}
Subjects(x) ==
  CASE x[1] = "credentials" -> {<<"ip", x[2]>>}
    [] x[1] \in {"note"} \cup Cadences -> {<<"ip", x[2]>>, <<"indicator", x[2]>>}
    [] OTHER -> {}

Members(k) == {m \in members : m.key = k}
Larger(a, b)  == IF a >= b THEN a ELSE b
Smaller(a, b) == IF a <= b THEN a ELSE b

--------------------------------------------------------------------------------
(* Folding a session into the memory and building its objects.                *)
(* upsert_attacker_activity: one row per address and parser *)
ActivityLatest(s) ==                                                \* mutant
  LET row == <<s.ip, s.parser>>
      old == IF row \in DOMAIN activity THEN activity[row]
             ELSE [sessions |-> 0, first |-> s.first, last |-> s.last, substantive |-> FALSE]
  IN [sessions |-> old.sessions + 1, first |-> old.first, last |-> s.last,
      substantive |-> old.substantive \/ s.substantive]
Activity(s) ==
  LET row == <<s.ip, s.parser>>
      old == IF row \in DOMAIN activity THEN activity[row]
             ELSE [sessions |-> 0, first |-> s.first, last |-> s.last, substantive |-> FALSE]
  IN [sessions |-> old.sessions + 1,
      first |-> Smaller(old.first, s.first), last |-> Larger(old.last, s.last),
      substantive |-> old.substantive \/ s.substantive]

(* record_campaign_artifact: a known row keeps what it says of its emission *)
RecordedAgain(s, K) ==                                              \* mutant
  members \cup {[key |-> k, ip |-> s.ip, last |-> s.last, emitted |-> FALSE] : k \in K}
Recorded(s, K) ==
  {m \in members : ~(m.ip = s.ip /\ m.key \in K)} \cup
  {[key |-> k, ip |-> s.ip, last |-> s.last,
    emitted |-> \E m \in members : m.key = k /\ m.ip = s.ip /\ m.emitted] : k \in K}

(* the observable, and the Indicator with its edge where the gate permits it *)
Built(s) == {<<"ip", s.ip>>}
              \cup (IF s.permitted THEN {<<"indicator", s.ip>>, BasedOn(s.ip)} ELSE {})

(* _dedup keeps the first session's score; finalize_bundle unites the labels *)
Drafted(s) ==
  [o \in DOMAIN draft \cup (Built(s) \cap Objects) |->
     [score |-> IF o \in DOMAIN draft THEN draft[o].score ELSE s.score,
      labels |-> (IF o \in DOMAIN draft THEN draft[o].labels ELSE {})
                   \cup (IF o[2] = s.ip THEN s.labels ELSE {})]]

StartCycle ==
  /\ pc = "idle" /\ w <= Len(Windows)
  /\ now' \in {t \in Instants : now <= t /\ \A s \in Range(Windows[w]) : s.last <= t}
  /\ pc' = "fold" /\ next' = 1
  /\ bundle' = {} /\ draft' = <<>> /\ withheld' = {} /\ keys' = {} /\ active' = {}
  /\ clean' = FALSE
  /\ UNCHANGED <<w, memory, opencti, missing, faults, losses>>

(* A roll-up or an artifact that cannot be written is left out, and the cycle *)
(* goes on (update_activity_from_session, record_session_artifacts).          *)
Fold ==
  /\ pc = "fold" /\ next <= Len(Windows[w])
  /\ LET s == Windows[w][next] IN
     \E rolled \in {TRUE, ~s.profiled}, kept \in SUBSET s.artifacts :
       LET sound == rolled /\ kept = s.artifacts IN
       /\ sound \/ faults < MaxFaults
       /\ faults' = IF sound THEN faults ELSE faults + 1
       /\ activity' = IF ~rolled \/ ~s.profiled THEN activity
                      ELSE [r \in DOMAIN activity \cup {<<s.ip, s.parser>>} |->
                              IF r = <<s.ip, s.parser>> THEN Activity(s) ELSE activity[r]]
       /\ unrolled' = IF rolled THEN unrolled \ {<<w, next>>} ELSE unrolled \cup {<<w, next>>}
       /\ active' = IF s.profiled THEN active \cup {s.ip} ELSE active
       /\ members' = Recorded(s, kept)
       /\ keys' = keys \cup kept
       /\ bundle' = bundle \cup Built(s)
       /\ draft' = Drafted(s)
       /\ withheld' = withheld \cup (IF s.permitted THEN {} ELSE {s.ip})
  /\ next' = next + 1
  /\ UNCHANGED <<pc, now, w, noted, summarised, maxState, ledger, usage, clean, opencti,
                 stale, unstored, unsaved, losses>>

EndFold ==
  /\ pc = "fold" /\ next > Len(Windows[w])
  /\ pc' = "store"
  /\ UNCHANGED <<now, w, next, memory, cycle, opencti, missing, faults, losses>>

(* credential_store.record_attempts: the window's pairs in one transaction,   *)
(* each counted whenever a session tried it.                                  *)
Tries(i, a, pair) ==
  {t \in UNION {{i} \X {j} \X DOMAIN Windows[i][j].tried : j \in DOMAIN Windows[i]} :
     LET s == Windows[i][t[2]] IN s.ip = a /\ s.tried[t[3]] = pair}
Succeeded(t) == Windows[t[1]][t[2]].tried[t[3]] \in Windows[t[1]][t[2]].accepted
UsageOf(row) == IF row \in DOMAIN usage THEN usage[row] ELSE [tried |-> 0, accepted |-> 0]
Used ==
  [row \in DOMAIN usage \cup {r \in Addresses \X Pairs : Tries(w, r[1], r[2]) # {}} |->
     LET T == Tries(w, row[1], row[2]) IN
     [tried |-> UsageOf(row).tried + Cardinality(T),
      accepted |-> UsageOf(row).accepted + Cardinality({t \in T : Succeeded(t)})]]

(* Step 5, with a rolling note for each address that tried credentials.  A    *)
(* store that fails rolls back, and the cycle goes on without it.             *)
StoreCredentials ==
  /\ pc = "store" /\ pc' = "roll"
  /\ \/ /\ usage' = Used
        /\ bundle' = bundle \cup
             {Credentials(s.ip) : s \in {t \in Range(Windows[w]) : t.tried # <<>>}}
        /\ UNCHANGED <<unstored, faults>>
     \/ /\ faults < MaxFaults /\ faults' = faults + 1
        /\ unstored' = unstored \cup {w}
        /\ UNCHANGED <<usage, bundle>>
  /\ UNCHANGED <<now, w, next, activity, members, noted, summarised, maxState, ledger,
                 draft, withheld, keys, active, clean, opencti, stale, unrolled, unsaved, losses>>

--------------------------------------------------------------------------------
(* Campaigns and notes, built from the memory.                                *)
(* STIXBuilder.indicator_available *)
IndicatorAvailable(a) == a \notin withheld \/ <<"indicator", a>> \in bundle

(* emit_campaigns: the members an edge is drawn for now *)
AttachableNow(k) ==                                                 \* mutant
  IF Cardinality(Members(k)) \notin MinMembers..MaxMembers THEN {}
  ELSE {m \in Members(k) : ~m.emitted /\ <<"indicator", m.ip>> \in bundle}
Attachable(k) ==
  IF Cardinality(Members(k)) \notin MinMembers..MaxMembers THEN {}
  ELSE {m \in Members(k) : ~m.emitted /\ IndicatorAvailable(m.ip)}

(* emit_campaigns, one artifact: the edges join the bundle and their members  *)
(* are marked emitted at once, before anything is published                   *)
EmitCampaign ==
  /\ pc = "roll"
  /\ \E k \in keys :
       LET M == Attachable(k) IN
       /\ keys' = keys \ {k}
       /\ members' = (members \ M) \cup {[m EXCEPT !.emitted = TRUE] : m \in M}
       /\ bundle' = bundle \cup
            (IF M = {} THEN {} ELSE {Campaign(k)} \cup {Indicates(m.ip, k) : m \in M})
  /\ UNCHANGED <<pc, now, w, next, activity, noted, summarised, maxState, ledger, usage, draft,
                 withheld, active, clean, opencti, missing, faults, losses>>

Rows(a) == {r \in DOMAIN activity : r[1] = a}
(* _ip_is_substantive *)
Substantive(R) == \E r \in R : activity[r].substantive
LastSeen(a) == CHOOSE t \in {activity[r].last : r \in Rows(a)} :
                 \A r \in Rows(a) : activity[r].last <= t

(* emit_live_profile_notes, one address: recorded before it is published *)
EmitNote ==
  /\ pc = "roll" /\ keys = {}
  /\ \E a \in active :
       /\ active' = active \ {a}
       /\ IF Substantive(Rows(a)) /\ ~(a \in DOMAIN noted /\ noted[a].seen >= LastSeen(a))
          THEN /\ bundle' = bundle \cup {LiveNote(a, LastSeen(a))}
               /\ noted' = [b \in DOMAIN noted \cup {a} |->
                              IF b = a THEN [seen |-> LastSeen(a), at |-> now] ELSE noted[b]]
          ELSE UNCHANGED <<bundle, noted>>
  /\ UNCHANGED <<pc, now, w, next, activity, members, summarised, maxState, ledger, usage, draft,
                 withheld, keys, clean, opencti, missing, faults, losses>>

(* get_attacker_activity_window *)
Touching(a, b) ==
  {r \in Rows(a) : activity[r].last >= b.from /\ activity[r].first <= b.to}

(* emit_daily_summary_notes and emit_weekly_summary_notes *)
Summaries(p, d) ==
  {Summary(p, a, d) : a \in {b \in Addresses : Substantive(Touching(b, Bounds[p][d]))}}

(* maybe_emit_daily_and_weekly: once per day and week, by the clock *)
EmitSummary ==
  /\ pc = "roll" /\ keys = {} /\ active = {}
  /\ LET due == {p \in Cadences : summarised[p] # Period[p][now]} IN
       /\ bundle' = bundle \cup UNION {Summaries(p, Period[p][now]) : p \in due}
       /\ summarised' = [p \in Cadences |-> IF p \in due THEN Period[p][now] ELSE summarised[p]]
  /\ pc' = "publish"
  /\ UNCHANGED <<now, w, next, activity, members, noted, maxState, ledger, usage, draft,
                 withheld, keys, active, clean, opencti, missing, faults, losses>>

--------------------------------------------------------------------------------
(* Publisher.publish.                                                         *)
(* ScoreCeiling.apply: the address is capped and an edge address is labelled *)
Capped(o, v) ==
  LET labels == v.labels \cup (IF o[2] \in Edge THEN {"edge"} ELSE {})
  IN [score |-> IF o[2] \in Edge \/ "scanner" \in labels
                THEN Smaller(v.score, Ceiling) ELSE v.score,
      labels |-> labels]

(* Step 0: the persisted version wins by score, its labels join, the ceiling *)
(* is applied to the result                                                  *)
MergedOverwrite(o) == Capped(o, draft[o])                           \* mutant
MergedLate(o) ==                                                    \* mutant
  IF o \notin DOMAIN maxState THEN Capped(o, draft[o])
  ELSE [score |-> Larger(Capped(o, draft[o]).score, maxState[o].score),
        labels |-> draft[o].labels \cup maxState[o].labels]
Merged(o) ==
  Capped(o, IF o \notin DOMAIN maxState THEN draft[o]
            ELSE [score |-> Larger(draft[o].score, maxState[o].score),
                  labels |-> draft[o].labels \cup maxState[o].labels])

(* _strip_unresolvable_references and _suppress_already_emitted *)
Resolvable ==
  LET there == bundle \cup platform IN
  {x \in bundle : Endpoints(x) \subseteq there
                  /\ (Subjects(x) = {} \/ Subjects(x) \cap there # {})}
Outgoing == {x \in Resolvable : ~(x \in Immutable /\ x \in ledger)}

(* build_ip_credential_note: what the store knows of the address *)
Note(a) == {<<row[2], usage[row].accepted > 0>> : row \in {r \in DOMAIN usage : r[1] = a}}

(* The row of an object lapses when no cycle has written it: its write was    *)
(* lost, or nothing has been delivered for so long that the row may be pruned.*)
Lapsed(o) == o \in unsaved \/ now - held[o].at > KeepState
Version(o, labels) == [score |-> Merged(o).score, labels |-> labels, at |-> now]

Publish ==
  /\ pc = "publish"
  /\ \E sent \in SUBSET {Entities, Edges} :
       LET landed == Outgoing \cap UNION sent IN
       /\ clean' = (Outgoing \subseteq landed)
       /\ ~clean' => faults < MaxFaults
       /\ faults' = IF clean' THEN faults ELSE faults + 1
       /\ platform' = platform \cup landed
       /\ held' = [o \in DOMAIN held \cup (landed \cap Objects) |->
            IF o \notin landed THEN held[o]
            ELSE Version(o, Merged(o).labels \cup
                   (IF o \in DOMAIN held /\ ~Lapsed(o) THEN held[o].labels ELSE {}))]
       /\ told' = [a \in Addresses |->
            IF Credentials(a) \in landed THEN Note(a) ELSE told[a]]
       /\ stale' = stale \ landed /\ unsaved' = unsaved \ landed
  /\ pc' = "max"
  /\ UNCHANGED <<now, w, next, memory, bundle, draft, withheld, keys, active, unstored, unrolled,
                 losses>>

(* A bundle that main withholds, or a publish that dies before its first      *)
(* pass: the cycle goes on without it.                                        *)
WithholdPublish ==
  /\ pc = "publish" /\ pc' = "prune"
  /\ faults < MaxFaults /\ faults' = faults + 1
  /\ unsaved' = unsaved \cup DOMAIN draft
  /\ UNCHANGED <<now, w, next, memory, cycle, opencti, stale, unstored, unrolled, losses>>

(* upsert_max_state_bulk: whether or not the publish was clean.  When it      *)
(* fails the publish is as clean as before, or it died on the way here.       *)
StoreMax ==
  /\ pc = "max" /\ pc' = "once"
  /\ \/ /\ maxState' = [o \in DOMAIN maxState \cup DOMAIN draft |->
                          IF o \in DOMAIN draft THEN Version(o, Merged(o).labels)
                          ELSE maxState[o]]
        /\ UNCHANGED <<clean, unsaved, faults>>
     \/ /\ faults < MaxFaults /\ faults' = faults + 1
        /\ unsaved' = unsaved \cup DOMAIN draft
        /\ clean' \in {clean, FALSE}
        /\ UNCHANGED maxState
  /\ UNCHANGED <<now, w, next, activity, members, noted, summarised, ledger, usage, bundle,
                 draft, withheld, keys, active, opencti, stale, unstored, unrolled, losses>>

(* mark_immutable_emitted: only after a clean publish; edges that cannot be   *)
(* recorded are simply sent again                                             *)
RecordedAnyway == Outgoing \cap Immutable                           \* mutant
NewlyRecorded == IF clean THEN Outgoing \cap Immutable ELSE {}

MarkOnce ==
  /\ pc = "once" /\ pc' = "cursor"
  /\ \/ ledger' = ledger \cup NewlyRecorded /\ UNCHANGED faults
     \/ faults < MaxFaults /\ faults' = faults + 1 /\ UNCHANGED ledger
  /\ UNCHANGED <<now, w, next, activity, members, noted, summarised, maxState, usage, cycle,
                 opencti, missing, losses>>

(* last_run moves after a clean publish, unless the lease was lost or the     *)
(* window could not be marked counted.                                        *)
MoveCursor ==
  /\ pc = "cursor" /\ pc' = "prune"
  /\ \/ w' = (IF clean THEN w + 1 ELSE w) /\ UNCHANGED faults
     \/ clean /\ faults < MaxFaults /\ faults' = faults + 1 /\ w' = w
  /\ UNCHANGED <<now, next, memory, cycle, opencti, missing, losses>>

(* prune_all, one transaction for each table in this order: what nothing has  *)
(* touched for its number of days goes.  When one fails the rest is left to   *)
(* the next cycle.  immutable_emitted and the credentials are never pruned.   *)
Fresh(t, keep) == now - t <= keep
Prune ==
  /\ pc = "prune" /\ pc' = "idle"
  /\ \E n \in 0..4 :
       /\ n = 4 \/ faults < MaxFaults
       /\ faults' = IF n = 4 THEN faults ELSE faults + 1
       /\ activity' = Restrict(activity,
            {r \in DOMAIN activity : n >= 1 => Fresh(activity[r].last, KeepActivity)})
       /\ noted' = Restrict(noted, {a \in DOMAIN noted : n >= 2 => Fresh(noted[a].at, KeepLog)})
       /\ maxState' = Restrict(maxState,
            {o \in DOMAIN maxState : n >= 3 => Fresh(maxState[o].at, KeepState)})
       /\ members' = {m \in members : n >= 4 => Fresh(m.last, KeepState)}
  /\ UNCHANGED <<now, w, next, summarised, ledger, usage, cycle, opencti, missing, losses>>

--------------------------------------------------------------------------------
(* Faults, and what OpenCTI and the operator do.                              *)
Crash ==
  /\ pc # "idle" /\ faults < MaxFaults
  /\ pc' = "idle" /\ faults' = faults + 1
  /\ UNCHANGED <<now, w, next, memory, cycle, opencti, missing, losses>>

LoseEdge ==
  /\ pc = "idle" /\ losses < MaxLosses
  /\ \E e \in platform \cap Immutable :
       /\ platform' = platform \ {e}
       /\ stale' = stale \cup ({e} \cap ledger)
  /\ losses' = losses + 1
  /\ UNCHANGED <<pc, now, w, next, memory, cycle, held, told, unstored, unrolled, unsaved, faults>>

(* clear_immutable_emitted, the operator's remedy *)
ClearLedger ==
  /\ pc = "idle" /\ stale # {}
  /\ ledger' = {} /\ stale' = {}
  /\ UNCHANGED <<pc, now, w, next, activity, members, noted, summarised, maxState, usage, cycle,
                 opencti, unstored, unrolled, unsaved, faults, losses>>

AllRead == w > Len(Windows) /\ pc = "idle" /\ UNCHANGED vars

Init ==
  /\ pc = "idle" /\ w = 1 /\ next = 1
  /\ now \in Instants /\ \A t \in Instants : now <= t
  /\ activity = <<>> /\ members = {} /\ noted = <<>> /\ summarised = [p \in Cadences |-> 0]
  /\ maxState = <<>> /\ ledger = {} /\ usage = <<>>
  /\ bundle = {} /\ draft = <<>> /\ withheld = {} /\ keys = {} /\ active = {} /\ clean = FALSE
  /\ platform = {} /\ held = <<>> /\ told = [a \in Addresses |-> {}]
  /\ stale = {} /\ unstored = {} /\ unrolled = {} /\ unsaved = {}
  /\ faults = 0 /\ losses = 0

Next ==
  \/ StartCycle \/ Fold \/ EndFold \/ StoreCredentials \/ EmitCampaign \/ EmitNote \/ EmitSummary
  \/ Publish \/ WithholdPublish \/ StoreMax \/ MarkOnce \/ MoveCursor \/ Prune
  \/ Crash \/ LoseEdge \/ ClearLedger \/ AllRead

Spec == Init /\ [][Next]_vars

--------------------------------------------------------------------------------
(* Properties.                                                                *)
ObjectStates == [score : Scores, labels : SUBSET Labels, at : Instants]
Partial(S, v) == DOMAIN v \subseteq S

(* State has its types, and the tables keep their primary keys: one row per   *)
(* artifact and address (campaign_artifacts), one per object.                 *)
TypeOK ==
  /\ pc \in {"idle", "fold", "store", "roll", "publish", "max", "once", "cursor", "prune"}
  /\ now \in Instants /\ w \in 1..Len(Windows) + 1 /\ next \in Nat
  /\ members \subseteq [key : Keys, ip : Addresses, last : Int, emitted : BOOLEAN]
  /\ \A m, n \in members : m.key = n.key /\ m.ip = n.ip => m = n
  /\ Partial(Addresses, noted) /\ summarised \in [Cadences -> {0} \cup Periods]
  /\ \A a \in DOMAIN noted : noted[a].at \in Instants
  /\ Partial(Objects, maxState) /\ Range(maxState) \subseteq ObjectStates
  /\ Partial(Objects, held) /\ Range(held) \subseteq ObjectStates
  /\ ledger \subseteq Immutable /\ stale \subseteq ledger /\ unsaved \subseteq Objects
  /\ bundle \subseteq Entities \cup Edges /\ platform \subseteq Entities \cup Edges

Read == UNION {{<<i, j>> : j \in DOMAIN Windows[i]} : i \in 1..w - 1}
Of(row) == {r \in Read : LET s == Windows[r[1]][r[2]] IN
                           s.profiled /\ <<s.ip, s.parser>> = row}
Due(r) == r \notin unrolled /\ Fresh(Windows[r[1]][r[2]].last, KeepActivity)

Attempts(row) == UNION {Tries(i, row[1], row[2]) : i \in 1..w - 1}

(* The roll-up an enrichment lane and a profile note read covers every        *)
(* session of the windows left behind that ended in the last 90 days, as long *)
(* as it could be written: its span contains theirs although they are folded  *)
(* out of order, it is substantive if one of them is, and it counts each at   *)
(* least once, and none twice before a cycle fails.  Pruning a row must not   *)
(* take a recent session with it (state.upsert_attacker_activity,             *)
(* prune_attacker_activity).  The pairs an address tried are never pruned,    *)
(* and its note in OpenCTI says which of them were ever accepted, as long as  *)
(* the store could be written (credential_store.record_attempts,              *)
(* build_ip_credential_note).                                                 *)
RollupComplete ==
  pc = "idle" =>
    /\ \A r \in Read : LET s == Windows[r[1]][r[2]] IN s.profiled /\ Due(r) =>
         /\ <<s.ip, s.parser>> \in DOMAIN activity
         /\ LET row == activity[<<s.ip, s.parser>>] IN
              /\ row.first <= s.first /\ s.last <= row.last
              /\ s.substantive => row.substantive
    /\ \A row \in DOMAIN activity :
         /\ Cardinality({r \in Of(row) : Due(r)}) <= activity[row].sessions
         /\ faults = 0 => activity[row].sessions <= Cardinality(Of(row))
    /\ unstored = {} =>
         \A a \in Addresses, pair \in Pairs :
           LET R == Attempts(<<a, pair>>) IN R # {} =>
             /\ usage[<<a, pair>>].tried >= Cardinality(R)
             /\ faults = 0 => usage[<<a, pair>>].tried = Cardinality(R)
             /\ \E line \in told[a] :
                  /\ line[1] = pair
                  /\ (\E t \in R : Succeeded(t)) => line[2]

(* A campaign names all who share its artifact: the first member, seen in a   *)
(* window before the artifact was shared, is attached with the second, if it  *)
(* has not been forgotten in between.  This is claimed of the artifacts of    *)
(* the window just left, for undisturbed cycles and addresses the gate never  *)
(* refused (campaigns.emit_campaigns; docs/EVIDENCE_GATE.md section 8 names   *)
(* the other case); rows pruned afterwards may bring a campaign down to a     *)
(* size it is only drawn at when its artifact is seen again.                  *)
AttachedTogether ==
  pc = "prune" /\ faults = 0 =>
    \A k \in UNION {s.artifacts : s \in Range(Windows[w - 1])} :
      Cardinality(Members(k)) \in MinMembers..MaxMembers =>
        \A m \in Members(k) :
          (\A s \in Sessions : s.ip = m.ip => s.permitted)
            => Indicates(m.ip, k) \in platform

(* An address whose version in OpenCTI was labelled a research scanner, or    *)
(* which lies inside a CDN range, never stands there with a score above the   *)
(* ceiling, whichever cycle saw the label and however the cycles in between   *)
(* ended (score_ceiling.py:20-26).  An address in a CDN range is capped       *)
(* always; of a scanner the label is remembered in object_max_state, so it    *)
(* counts while the row lives: it is forgotten when the write of the row is   *)
(* lost or no delivery has renewed it for 180 days (prune_object_max_state).  *)
CapHolds ==
  \A o \in DOMAIN held :
    o[2] \in Edge \/ "scanner" \in held[o].labels => held[o].score <= Ceiling

(* OpenCTI overwrites scalars, so a weaker sighting of an address would       *)
(* replace a stronger one: its score never falls, except to the ceiling, or   *)
(* once its row in object_max_state has lapsed (Publisher.publish, Step 0;    *)
(* state.prune_object_max_state).                                             *)
RatchetHolds ==
  [][\A o \in DOMAIN held :
       held'[o].score < held[o].score =>
         \/ Lapsed(o)
         \/ /\ held'[o].score = Ceiling
            /\ o[2] \in Edge \/ "scanner" \in held'[o].labels]_vars

(* When the cursor leaves a window, the immutable edges of its sessions are   *)
(* in OpenCTI, suppressed or sent -- unless OpenCTI lost them and nobody has  *)
(* cleared the ledger since (Publisher._suppress_already_emitted).            *)
EdgesPresent ==
  [][w' > w => \A s \in Range(Windows[w]) :
                 s.permitted => BasedOn(s.ip) \in platform \cup stale]_vars

(* What the memory says was emitted is in OpenCTI once every window was       *)
(* published without an error: the edge of every member marked emitted, the   *)
(* note every address was last recorded with.                                 *)
RecordedMeansLanded ==
  pc = "idle" /\ w > Len(Windows) =>
    /\ \A m \in members : m.emitted => Indicates(m.ip, m.key) \in platform
    /\ \A a \in DOMAIN noted : LiveNote(a, noted[a].seen) \in platform

(* A row pruned after 180 days costs an object its labels for one cycle, and  *)
(* nothing else (state.prune_object_max_state): its score never falls, except *)
(* to the ceiling.                                                            *)
OnlyLabelsLapse ==
  [][\A o \in DOMAIN held :
       held'[o].score < held[o].score /\ unsaved = {} =>
         /\ held'[o].score = Ceiling
         /\ o[2] \in Edge \/ "scanner" \in held'[o].labels]_vars
================================================================================
