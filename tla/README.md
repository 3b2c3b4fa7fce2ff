# tpot2cti in TLA+

tpot2cti reads honeypot events from the Elasticsearch of T-Pot sensors, turns
them into STIX 2.1 objects and imports them into OpenCTI. It runs unattended for
months, and nearly everything that can go wrong goes wrong between two steps:
a publish that lands by half, a process that dies with work in the broker, two
containers on one database, a cursor that moves too early or never, a session
whose objects depend on who was built before it. These modules model the parts
of the program where that matters, check them with TLC and prove the most
important invariants with TLAPS.

Source lines are given as `file:line` under `src/tpot2cti/` unless a path says
otherwise. `PROJECT.json` maps every definition to its lines.

## 1. The system

| part | state it keeps | operations | talks to |
|---|---|---|---|
| intake (`es_client.py`, `main.py`, `parsers/`, `session/`, `benign_filter.py`, `rdns.py`) | the cursor `last_run`; counters, budget of name lookups and sessions of the cycle | stream by pages, cap, gates, correlate | Elasticsearch, a resolver |
| bundle (`stix/builder.py`, `evidence.py`, `ics.py`, `attack_mapping.py`) | ids emitted, refused Indicators, Sightings and edge windows of the cycle | one builder per parser, the evidence gate, folding, finalize | cycle |
| memory (`state.py`, `campaigns.py`, `attacker_profile.py`, `score_ceiling.py`, `credential_store.py`) | `attacker_activity`, `campaign_artifacts`, emission log, `object_max_state`, `immutable_emitted`; a credential database | accumulate, emit once, merge, suppress | cycle, publisher |
| sighting ledger (`state.py`, `stix/builder.py`, `main.py`) | `sighting_counted`, `sighting_sent`, `sighting_last_sent` | scope of a window, plan, record, mark | OpenCTI's upsert of Sightings, read back |
| publisher (`publisher.py`, `chunked_publish.py`, `work_wait.py`) | `publish_plan`, `publish_chunk`, `poison_tracker` | strip, suppress, split, send, wait, settle, quarantine | OpenCTI's API and workers through a broker |
| lease (`state.py`, `main.py`) | `cycle_lease` | acquire, heartbeat, check, release | other processes on the same database |
| enrichment lanes (`enrich/`) | a database each: sweep cursor, marks, `enrichment_cache`, ages of lists | a page of CORE's `attacker_activity` per cycle: label or look up, publish, mark, advance; refresh lists | CORE's database (read only), providers, publisher |
| malware ingest (`ingest/malware.py`) | its cursor | fetch, build, publish, advance | the collector's index, OpenCTI |
| sidecars (`src/tpot2cti-credentials`, `src/tpot2cti-vault`) | their own databases, `/data/samples` | window of credentials; samples by SFTP | Elasticsearch, sensors, OpenCTI |
| health (`health.py`) | reads `cycle_log` and the heartbeat | names the state of the service | Docker, operators |

What makes each part correct, in one line:

- **intake**: every document read is counted by exactly one counter, none stays
  behind the cursor unread, and a session has the events its parser calls one.
- **bundle**: the order of sessions decides nothing; no edge points at nothing;
  nobody is accused whom the gate refused.
- **memory**: a window that is repeated, or one that failed, loses nothing; a
  score in OpenCTI neither falls nor passes the ceiling, and what is pruned is
  only what nothing has touched for months.
- **counting**: OpenCTI adds the count of a Sighting write when the write widens
  the stored period, and replaces the stored count otherwise. Every event has to
  be added once, whatever crashes, half lands or is re-run.
- **publish**: the cursor leaves an object behind only if OpenCTI has it or has
  proved that it will not take it; one poisoned object must not stop the rest.
- **lease**: two cycles never interleave on one ledger, and a crash never blocks
  the next run.
- **lanes**: no mark, cached verdict or cursor is ahead of OpenCTI, a sweep
  reaches every active address although it sees only a page at a time, and one
  dead list does not age the others out.
- **ingest, sidecars**: nothing is marked that is not kept, and nothing is
  counted twice, over roll-backs and restarts.
- **health**: a stall turns red in time, and work does not.

`PROJECT.json` lists the hazards behind these lines, each at the source line
where it bites, with the properties that cover it.

## 2. The modules

```
Parsers  <--EXTENDS--  Intake       from documents to sessions
                       CycleBundle  from sessions to one STIX bundle
                       CycleMemory  what is remembered from cycle to cycle

SightingTally  <--implemented by--  SightingLedger     what is counted
                                    ChunkedPublish     how a bundle gets to OpenCTI
                                    CycleLease         who may run a cycle
                                    Health             what is said about it

ActivitySweep  <--EXTENDS--  LabelLanes, LookupLane    the enrichment lanes

MCSidecars  --EXTENDS-->  BlocklistRefresh, MalwareIngest, CredentialWindow, SampleVault
```

The first three follow a window through a cycle, and each takes what the one
before it may hand on: `CycleBundle` takes sets of sessions, `CycleMemory` the
few facts of a session that outlive its bundle. `MC*` modules give TLC its
instances; `*Proofs` modules hold the theorems: `CycleProofs` those of
`CycleLease`, `CycleBundle` and `Health`, `SidecarProofs` those of the four
sidecars and of `LabelLanes`, the others those of one module. A definition marked `mutant` is
a plausible bug of the definition below it, kept to show that the properties
notice; no specification uses one.

### Parsers and Intake

`Parsers` is a table: for every registered parser the fields it takes a session
id from, the kinds of facts it reads from a document, those of which a session
holds a single one, and how it groups events (each alone, by id, by a pause, or
by what the rest of the batch has). A group is a set of events; where the code
sorts it, `Precedes` is the order. The extraction of a value is a fact of the
document, as is whether it parses. Where events are grouped by id, one without an
id becomes a session by `from_event`, which asks no aggregator
(`correlator.py:130`): such a session is `Bare` and says nothing of what its event
held, unless it is an industrial one, which ConPot and Heralding see to
themselves (`conpot.py:183`, `heralding.py:120`). A session with an industrial
event says its requests and its industrial findings, nothing else.

| model | code |
|---|---|
| `TypeOf`, `Accepted`, `Source`, `SessionId`, `Event` | `parsers/base.py` dispatch, floor and normalisation; a parser's `parse` |
| `BySessionId`, `ByWindow`, `MailoneyCorrelate`, `RouterCorrelate`, `Aggregate`, `Bare` | `session/correlator.py`, `_aggregate_session` of the parsers, `AttackSession.from_event` |
| `StartCycle`, `FetchPage`, `FetchFails` | `_compute_window`, `stream_events` with its `search_after` |
| `StopAtCap`, `Unparsed`, `RejectSource`, `OwnSource`, `ScreenKnown`, `ScreenByName` | the loop of `_run_cycle_locked` in the order of its gates (`main.py:880`-`1010`), `benign_filter.match`, `rdns.py` |
| `CorrelateAll` | the correlation by type: a `correlate` that raises drops the events of its type (`main.py:1267`), an aggregator that raises leaves its session with what it had said so far (`correlator.py:73`), and the cycle goes on |
| `Complete`, `Fail` | the second half of the cycle, seen from the cursor |
| `Tick`, `Arrive`, `Forget` | documents reach the index, some late; a cached name is evicted |

A document has a unique position among those of its instant (`_doc` in the
sort); the budget of name lookups is a number, or nothing at once when its time
is spent; `cycle` counts modulo `FattEvery`, which decides when `Fatt` is read.
A name is forgotten only while the stream asks for it, since nothing else reads
the cache. `broken` holds the events of the cycle whose correlation raised, `lost`
their documents once the cursor has passed them. What is said of `overdue`
documents is in section 3.

### CycleBundle

The bundle of one cycle, session by session in any order of types and of
sessions within a type: what each builder method of `stix/builder.py` makes,
which values it refuses, what it anchors an edge on, what `_dedup` keeps of the
first session, what `_merge_or_emit_sighting` and `_widen_relationship_window`
fold, what `finalize_bundle` strips and adds. A node is a kind and a value, an
edge a triple; names, descriptions and patterns are left out. `Permitted` is the
evidence gate in both modes, with the refusals of industrial noise that hold in
either. `BuildFails` is an exception half-way: the ids stay emitted, the objects
are gone. The salvage of payload events without a usable source comes after the
sessions, then the credential notes, then `Finalize`. `Alone` is what a session or
a salvage group would give a bundle of its own: `OrderFree` compares the bundle
with the union of these, and `Sources` are the sessions an edge is from.

### CycleMemory

The tables a cycle writes besides the ledger, and what OpenCTI holds by them. `now`
is when the cycle in hand began; it decides which summaries are due (the day and
the ISO week of the day before, `attacker_profile.py:461`) and which rows are old
enough to be pruned.

| model | code |
|---|---|
| `Fold` | per session: `upsert_attacker_activity`, `record_campaign_artifact`, what it adds to the bundle; either write may fail, is logged, and the cycle goes on without it (`attacker_profile.py:160`) |
| `StoreCredentials` | `credential_store.record_attempts`: the pairs of the window in one transaction, or none of them when the store fails, and a note per address |
| `EmitCampaign`, `EmitNote`, `EmitSummary` | `emit_campaigns`, `emit_live_profile_notes`, `maybe_emit_daily_and_weekly`: each records what it emits before the publish |
| `Publish` | `Publisher.publish`: merge with `object_max_state`, `ScoreCeiling.apply`, strip, suppress; any of the passes may fail |
| `WithholdPublish` | a bundle that is withheld, or a publish that dies before its first pass (`main.py:1573`-`1600`) |
| `StoreMax`, `MarkOnce`, `MoveCursor` | `upsert_max_state_bulk` whatever the outcome; `mark_immutable_emitted` and the cursor only after a clean one; each write may fail and be passed over, as in the code |
| `Prune` | `state.prune_all` at the end of every cycle (`main.py:1732`): roll-ups after 90 days, the emission log after 100, `object_max_state` and `campaign_artifacts` after 180; a table that fails leaves itself and the rest to the next cycle. `immutable_emitted` and the credentials are never pruned |
| `Crash`, `LoseEdge`, `ClearLedger` | a death between any two; OpenCTI loses an edge; the operator's remedy |

The 200 rows to which a credential note is cut, their order, and the wording of
notes are left out. `unrolled`, `unsaved` and `unstored` remember which writes were
lost, for the properties. A row of `object_max_state` has lapsed (`Lapsed`) when its
write was lost or nothing was delivered for 180 days: then the code, too, has
forgotten what the object was (`state.py:860`).

### SightingLedger

The steps of `_run_cycle_locked` (`main.py:701`) that touch the cursor, the
three ledger tables or a Sighting count, from the window to the cursor.

| model | code |
|---|---|
| `lastRun`, `counted`, `sent`, `lastSent` | `last_run`; tables `sighting_counted`, `sighting_sent`, `sighting_last_sent` |
| `stored`, `inflight` | what OpenCTI holds; writes neither applied nor lost |
| `att`, `pc` | the local variables of a cycle, and where it is |
| `BeginCycle(aggregated)` | `_compute_window`, stream with caps, `sighting_count_scope`, aggregation and its fallback |
| `Plan(answered)` | `sighting_plan_for_window`, `finalize_sighting_counts`, with or without the read-back |
| `Record` | `record_sightings_sent`; the writes leave |
| `Land`, `Lose`, `Upsert` | OpenCTI: a write widens and adds, or replaces; or it is lost |
| `PublishedClean`, `PublishedUnclean` | the result of `publish()` |
| `MarkCounted`, `Advance` | `mark_window_counted`, `set_last_run`: two transactions |
| `Crash`, `SetCursor` | a death between any two steps; the manual move of the cursor |

Time is counted in ticks, two to a millisecond, since tpot2cti computes in
microseconds and OpenCTI compares milliseconds (`sighting_floor`,
`stix/builder.py:856`). Events are sets of ticks; `Hits` are those Elasticsearch
aggregates and `Parsed` those a parser makes sessions of.

`SightingTally` is the abstract specification: a count only grows, and never
beyond the events of the periods published or being published. The refinement
takes the stored counts as the tally, the counted ticks as done and the windows
of open rows as tried (`ImplementsTally`).

### ChunkedPublish

`Publisher.publish` (`publisher.py:280`), `publish_pass_chunked`
(`chunked_publish.py:124`) and `wait_for_work` (`work_wait.py:94`): three passes,
each sealed into chunk rows, sent as messages of one work, awaited and settled;
the streak of identical refusals that ends in quarantine; the emit-once record;
the cursor. OpenCTI's workers are `Import`, `Refuse` and `ImportStale`; a chunk
is split in every way its sizes allow. `PublishIsClean` is the ledger's own
cursor predicate (`state.py:693`), which the program does not call.
`EmitOnceLanded`, `CursorAgreesWithLedger` (with that predicate) and
`RefusedForCause` hold on the instance of the run too, but it does not list them;
they are proved. `Sound` objects are those OpenCTI takes with all they refer to,
each of which the pass barrier puts before them: not a Note, which is in the pass
of its address and may be refused for the order of chunks alone.

### CycleLease

`run_cycle` (`main.py:661`) seen from the lease: several processes, a row with a
holder and a time to live, heartbeats, the two checks and the writes after them.
The sighting ledger is a version number that a cycle reads and later replaces.
A restarted process is a new holder, as in the code.

### ActivitySweep, LabelLanes, LookupLane

`ActivitySweep` is the pager of `enrich/sweep.py`: the page after a cursor, and
`advance`, which restarts the pass on a short page. An address is its place in
the database's order.

`LabelLanes` is a cycle of `noisefloor.py` or of `blocklists.py` (they have the
same shape): fresh labels of a page, publish, one write per mark, cursor; a
failed publish holds the page. Addresses appear and age out at any time, evidence
accumulates, some rows are no addresses at all. The noisefloor lane has no lists,
so for it `usable` is always all labels.

`LookupLane` is a cycle of `lookup.py`: the sources in turn, for each candidate
cache, backoff, budget or call, then one publish and the confirmations. The
ledger's row is its status, whether it is still live and whether it counts for
today; attempt counts and times to live only decide when `Expire` may happen.

### Health

`compute_status` against what really happened. `rows` is what `recent_cycles`
returns, so that rows without an end can push out those with one; the heartbeat
is written by the threads of the stream and of the passes whether or not they
get anywhere, and by nothing in the build or the sleep. The abstract truth
(`success`, `longest`, `unended`) is kept beside it and used only by the properties. The
HTTP server is left out.

### BlocklistRefresh, MalwareIngest, CredentialWindow, SampleVault

Four processes beside the importer; they share no state with each other, so
`MCSidecars` picks one (`who`) and lets it run.

- `BlocklistRefresh` is the loop of `enrich/blocklists.py` around a cycle: which
  lists an attempt covers (`sources_due`), what it leaves behind when some fail,
  the ages in the database against the copies in memory, the age at which a copy
  is not used any more. What a cycle then does is `LabelLanes`. A cycle takes no
  time here, since an interval is hours.
- `MalwareIngest` reads confirmed samples past a cursor `(last_seen, sha256)`,
  builds, publishes and advances (`ingest/malware.py`); meanwhile the collector
  captures again, which moves `last_seen`, and confirms, which does not.
- `CredentialWindow` folds the documents of a window into three tables in one
  transaction. Its window starts at the end of the previous cycle and is cut to
  whole seconds in the query; DuckDB rolls all of it back on an error.
- `SampleVault` lists, downloads, copies, indexes, publishes and marks files.
  The transaction is the sensor's visit; the disk and OpenCTI are outside it. A
  file may be fetched while it is being written.

## 3. The runs

| run | instance | shows |
|---|---|---|
| `SightingLedger_crash` | two Sightings, windows of up to 3 ticks cut by the time cap and the volume cap, 3 faults, 1 cursor move above the start | every write widens (`WritesWiden`); nothing is counted twice (`NeverInflates`); no gap below the cursor; the tally is implemented; the cursor catches up |
| `SightingLedger_rewind` | one Sighting OpenCTI already holds, 2 cursor moves to anywhere after the first clean cycle | one open window at most; a closed ledger means exact counts |
| `ChunkedPublish_poison` | two windows over five objects, one of which OpenCTI never takes and a Sighting of it, 2 chunks, 3 failures of any kind except a chunk of several | what is given up is proven to be refused; quarantine costs only what is poisoned; the pipeline goes on |
| `CycleLease_takeover` | three processes, 1 crash, 1 stall, 1 unclean publish | no two cycles at a time while nobody stalls, no overwritten ledger, the cursor only moves under the lease, the windows are published |
| `LabelLanes_sweep` | three rows (one malformed) in pages of two, two labels, 2 failures | no mark ahead of OpenCTI; every label of an address that stays lands |
| `LookupLane_budget` | five rows in pages of three, two sources, one with one call a day, 1 failure | no cached verdict ahead of OpenCTI; a day's calls within the allowance; an address that stays is answered again and again |
| `CycleBundle_gates` | windows of eight and of nine sessions over every builder family, two salvage groups, the enforcing gate with every switch on and the shadow gate with them off; one build may raise | the order decides nothing; no edge dangles; nobody is accused without cause; a window counts once; no ICS label is lost |
| `CycleMemory_faults` | four windows of four, three, two and one sessions, at either of two times, so far apart that rows lapse, or just not; 2 crashes, unclean or withheld publishes or failing writes anywhere, 1 edge lost by OpenCTI | roll-ups and credentials miss nothing recent; members of a campaign meet across windows; scores neither fall nor pass the ceiling while their row lives; every immutable edge is there |
| `CycleMemory_marked` | the same | a finding, see below |
| `Intake_flood` | 26 documents of fourteen types over four instants, eight of them in one instant against a cap of 7, pages of three, 2 late documents, events without an id next to some with one, 1 failure of a cycle, a `correlate` or an aggregator, 1 name lookup a cycle | nothing stays behind the cursor; every document read is counted; sessions are exact; a fact of a genuine attacker is lost only where the code gives it up by design; the cursor reaches the present |
| `Health_cycles` | an interval of two ticks (of 30 s), 12 ticks, 3 recent rows, no two cycles in a row without an end | a stall turns red; work stays green |
| `Sidecars_faults` | credentials: 4 documents over 6 instants, two to a second, 1 break; malware: 3 samples, 3 days, 2 mishaps; vault: 3 files on 2 sensors, 3 troubles; blocklists: 3 lists of which one never answers, refresh 3, retry 1, maximal age 9 intervals, 4 slips | credentials count once; samples behind the cursor are imported; a marked file is kept; a list that answers stays usable |

The instances are small but contain the cases: events on both ticks of a
millisecond, on a window boundary and in a window of their own; an id the
aggregation reports and a parser does not; passes of publish with one chunk and
with two; passes of the sweep that end on a full, a short and an empty page; a
budget smaller than the candidates; sessions that meet on an address, a command,
a file, a key, a URL and a domain, and one address refused in one session and
permitted in the next; an artifact shared across windows and one shared too
widely; a score that is high before the label arrives that caps it; an address
that returns before and after its rows were pruned; a mail session with an id
and another without, in one batch and apart; a flood that is longer than the cap
and than a page, at the first instant of a window; a burst with a pause just
short of the gap and one longer; two captures of one sample in one day; the same
content in two files and a file fetched half written; more slips of a list than
fit between refresh and maximal age. One or two faults can hit any step, and a
second and third hit the recovery from the first. Every property is broken by at
least one mutant under the same instance.

Deadlock is not checked in most runs, because clocks, windows and faults are
bounded and a finished system stops; `CycleBundle` and `CycleMemory` say when
they are finished, and are checked.

### Where the code and its documentation disagree

`CycleMemory_marked` is kept as a run: `RecordedMeansLanded` is violated, since
a campaign member and a profile note are recorded as emitted while the bundle is
built (`campaigns.py:332`, `attacker_profile.py:261`). The publish fails, the
retry finds them recorded and leaves them out, and the edge or note never
reaches OpenCTI, while `state.py:308` says a member is marked "once an IP's
indicates-edge has been published".

The following were found with the same modules. Where a configuration is named
it is in this directory and TLC shows the trace with it.

| place | property, configuration | what happens |
|---|---|---|
| `main.py:902` | `NeverInflates`, `SightingLedger_tie.cfg` | documents at the very timestamp of the cap, read before it tripped, stay in the sessions of a window that excludes them; the fallback counts them, and so does the next window |
| `main.py:496` | `RetriesSameWindow`, `SightingLedger_fresh.cfg` | without a cursor the window is relative to the clock, so the retry of a failed first publish has another start and is rejected |
| `chunked_publish.py:159` | `GivenUpOnlyProven`, `ChunkedPublish_partial.cfg` | a chunk that fails to enqueue next to one that lands leaves the pass "clean" |
| `publisher.py:620` | `EmitOnceLanded`, `ChunkedPublish_edge.cfg` | the edges a quarantined pass abandoned are recorded as emitted and suppressed |
| `enrich/lookup.py:217` | `StaysAnswered`, `LookupLane_wedge.cfg` | a page without an IPv4 address leaves the loop before the cursor moves: with an exact multiple of the page size the sweep stops on the empty page |
| `enrich/lookup.py:378` | `CachedOnlyLanded`, `LookupLane_report.cfg` | `publish()` of the lookup lane drops a result with errors, so verdicts that did not land are cached |
| `stix/builder.py:3854` | `CapturedFileShipped`, `CycleBundle_capture.cfg` | a file Honeytrap captured gets an edge from its URL but no File object |
| `stix/builder.py:1089` | `HighestSignal`, `CycleBundle_highest.cfg` | within a bundle the first session's score is the one the publisher sees, not the strongest |
| `state.py:952` | `OnlyLabelsLapse`, `CycleMemory_dormant.cfg` | the comment names the loss of labels for one cycle as the worst of pruning; but the first version after it is delivered unmerged, so a score in OpenCTI falls as well (`state.py:860` says so), and a scanner's label that is not seen again no longer caps it |
| `health.py:286` | `StallTurnsRed`, `Health_unended.cfg` | rows without an end fill the ten recent rows: then no cycle seems ever to have completed, and the endpoint waits for the first |
| `src/tpot2cti-vault/main.py:90` | `StoredWhole` (added to `Sidecars_faults.cfg`) | `shutil.move` is called atomic, but the download is in `/tmp` and `/data` a mount of its own: a copy that breaks off leaves a torn file under the whole content's name, which the retry takes for kept |

Others need no trace: what the credentials sidecar leaves out between the second
in which a cycle began and the one in which it ended (`blind` in
`CredentialWindow` collects it, and `CountedOnce` shows nothing else is lost); a
document indexed behind the cursor is never read (`overdue` in `Intake`); a
sample confirmed, or a first capture recorded, behind the cursor of the malware
ingest is never imported (`late`); the vault publishes a sample once and never
again if that failed, and a file fetched half written is kept as it was; a
restart disarms the alarm about cycles without events; a retried window counts
activity and credentials again; how events of Mailoney and Router are grouped
depends on the other events of the cycle; an event without an id, in a batch
grouped by ids, loses what its aggregator would have said (`correlator.py:130`),
so one mail session with an id costs the others of the cycle their requests; a
`correlate` or an aggregator that raises costs its events or their facts, and
the cursor moves on (`lost`); a roll-up that cannot be written is missing for
good (`unrolled`); the week that is summarised is the one yesterday lies in, so
its note is made once its Monday is over, not, as the comment has it, when it is
complete (`attacker_profile.py:490`); Fatt documents are not read again after a
cycle that should have read them failed.

### What the passing runs assume

The passing runs leave the situations of the table out by a constant each
(`TieRead`, `Start`, `"chunk"` and `"report"` in `Failures`, `QuarantineAfter`
above the faults, pages that hold an IPv4 address, `MaxUnended` below `Recent`
minus one), so that they still say something about everything else. Further:

- `CapPolicy = "stable"`: a retry of a window is cut no earlier than the attempt.
  Over an unchanged stream that is what the cap does. Lowering the cap between
  attempts breaks `NeverInflates`: the row of the longer attempt is subtracted
  from a shorter one.
- `Settled`: the writes of a cycle are applied or lost before the next cycle
  plans. The read-back of a retry sees what has been applied, so a write that is
  late by a whole cycle can be sent again.
- `RewindPolicy`: before the first clean cycle nobody moves the cursor below
  where this version began, since the ledger knows nothing of older imports.
- `StallsIn`: no process sleeps a whole lease between a check and the single
  statement after it. There is no fencing token, and with one such stall
  `MovesUnderLease` and `CursorOnlyForward` fail.
- `Refs` within a pass lie in one chunk or cause a refusal that the next cycle
  repairs.
- `BudgetKept` is stated for days without failures: the budget counts rows, and a
  failed publish leaves none while a retry overwrites one. It counts objects: none
  costs a second call, and no more are asked about than the allowance.
- `NothingLeftBehind` is about documents the cycles are meant to read (`Wanted`)
  and that are not `overdue`; `EvidenceCarried` about sources no gate knows, and
  about documents on which no correlation raised (`lost`) and which are not passed
  over (`PassedOver`): without an id where their parser groups by id (Mailoney:
  where another document within a window's length has one), or heard by an emulator
  of industrial devices and neither a request nor an industrial finding.
- `CapHolds` (of scanners, not of CDN ranges) and `RatchetHolds` hold as long as the
  row of the object in `object_max_state` has not lapsed: its last write was not
  lost, and it was delivered in the last 180 days.
- `OrderFree` is about bundles in which no build raised, and `NoEdgeDangles`
  names the nodes that may be missing otherwise.
- `CountsWindowOnce` adds up the sessions of a Sighting where their ids tell them
  apart: a second session of an id counts nothing (`builder.py:1177`), which is
  meant for the one session that is folded twice.
- `AttachedTogether` is about undisturbed cycles and addresses the gate never
  refused, and about the campaigns of the window just left, before its rows are
  pruned: pruning can bring a campaign that was too large down to a size at which it
  is drawn, which happens only when its artifact is seen again.
- `RollupComplete` is about sessions that ended in the last 90 days and whose roll-up
  could be written, since an attacker who returns later starts afresh
  (`state.py:853`). Its counters are exact only without faults; its credentials are
  never pruned, and complete as long as the store could be written.
- `WorkStaysGreen` supposes builds of at most `MaxBuild` ticks, because nothing
  beats during a build; the next cycle may take twice as long as the last.
- `AnsweringListsUsable` supposes that a list that answers fails at most four
  times in its maximal age.

### Fairness and liveness

Fairness is weak and only on what the main loops do: a cycle begins when it can,
each step of it is followed by the next, OpenCTI's workers take what is queued,
time passes. No failure is fair; the bounds on failures mean "in the end it works
for long enough". Some choices are worth a word. `Plan(TRUE)` and
`BeginCycle(TRUE)` say that OpenCTI and Elasticsearch answer in the end.
In `ChunkedPublish`, only a wait that can never end (`~closed`) is forced to time
out, since `wait_for_work` has a ceiling. In `LookupLane`, a backoff ends because
it is bounded (`ledger.py:108`), while an answered row need never expire. In
`Intake` the steps of a cycle and the clock are fair, arrivals and failures are
not. `CatchesUp` is claimed only while nobody moves the cursor: a rewind off an
open window is rejected until someone resets it, as the code says it is.
`CycleBundle`, `CycleMemory`, `Health` and the sidecars state safety only, and
no fairness.

## 4. What is proved

Theorems hold for every value of the constants that satisfies the named
assumptions of the module: any number of Sightings, sessions, documents,
processes, addresses, labels, faults and cursor moves. An assumption a theorem
has beyond those is in its `ASSUME`, and is discussed here.

### The ledger (`SightingLedgerProofs`)

`TypeCorrect`; `SingleOpenWindow`, `NothingSkipped`, `RetryIsNeverRejected`;
`EveryWriteWidens`, `LedgerAlwaysFirst`; `NothingInflates`,
`LedgerImplementsTally` and `ClosedLedgerIsExact`. Five invariants, each on top of
the one before:

- `TypeInv` adds to `TypeOK` that the sessions of an attempt lie within its
  window and that every planned row has a positive delta, which is what makes the
  writes and their `last_seen` natural numbers.
- `CursorInv`: an attempt under way starts at the cursor, every open row is of
  its window, and a marked window leaves none. Moving the cursor in between is
  harmless because `BeginCycle` refuses a window while another one is open.
- `WidenInv`: what keeps a write from replacing a total. `LedgerKnows` (no stored
  `last_seen` is later than the ledger's), `CursorAnchored` (the cursor is at or
  above the start, or something above it was counted, so that an id the ledger
  does not know is stored below a forward window), `AttemptInFlight` (the writes
  in flight are the current attempt's, one per Sighting) and `WritesWiden`
  itself; none of them is inductive alone. This needs `Settled` and a
  `RewindPolicy` other than `"any"`.
- `CountInv`: a stored count is at most what was counted, plus the share of an
  open row: its `total` once its write has been applied, its `base` before
  (`Share`, `SharesBounded`). A row counts no more than its window still has, and
  an attempt reaches at least as far as every row it repeats. Marking a window
  then turns shares into counted events without a gap. `NothingInflates` follows,
  and the refinement: a stored count grows only in `Upsert`, by a delta within
  what the tally allows, and `counted` and the open windows only as its other
  actions say.
- `ExactInv`: where every event is of a type some parser reads and every read-back
  answers (`NothingMissed`), the same bounds are equalities, so a ledger without
  open rows means exact totals.

The last three theorems assume `WindowsRepeat`: a retry's window is cut no
earlier than the attempt's, no document at the cap's own tick is counted (see the
tie in section 3), and an installation that starts without a cursor looks back no
further than the cap of a window. The last part was found by the proof: with a
look-back of 5 and a cap of 3, a first publish that fails, and an operator who
then sets the cursor to exactly the start of that window, the retry is cut short,
its mark clears the row that reached further, and the rest is counted twice. By
default a first window is a second long (`main.py:496`) and the cap 24 hours; what
is excluded is `TPOT2CTI_INITIAL_LOOKBACK_HOURS` above 24.

Counts are cardinalities of sets of ticks; `EventsAdd` (disjoint sets of events
add up) and `EventsGrow` carry that arithmetic. `LastOf` returns the last of a
finite set of instants by the well-foundedness of `<` on `Nat` (`WFMin`).

### One cycle (`CycleProofs`)

**The lease.** `LeaseAdmitsOne` by `Admission` (while nobody stalled, whoever is
in a cycle holds the lease); `LedgerIsNeverOverwritten`, `CursorMovesUnderLease`,
`CursorNeverMovesBack` by `Custody`: a process between a check and the write it
guards holds the lease, and whoever holds it in a cycle read the current version
and the current cursor. It is inductive as long as `StallsIn` has no guarded step.

**The bundle.** `OrderDecidesNothing`, `EdgesEndInTheBundle`,
`NoneAccusedUnheard`, `WindowCountedOnce` and `IcsLabelsReachTheBundle`, for any sessions of every
builder family, in any order, with any gate mode and switches. The argument:

1. The bundle only ever holds nodes no builder would refuse (`Clean`), and for a
   clean bundle `_emit_node` answers as it would for an empty one
   (`AnchorsAlone`). So every builder draws the same graph whatever came before
   (`BuildersAnywhere`), and the same at any moment of the cycle
   (`FixedForCycle`).
2. Each builder draws its edges between its own nodes, save to the address's
   Indicator when the gate withheld it and to the file a Honeytrap download names
   (`Fit`; one lemma `...Founded` per builder, `DispatchFounded`,
   `UnattributedSound`).
3. `BundleInv` carries that through the cycle: what is in the bundle and what
   only in `_emitted_ids` (`Filled`), which Indicator has a permitted session and
   which waits to be stripped (`Accused`), where an edge may end (`EndsKnown`), which
   edges there are and the times they claim (`Spanned`, `Hulls`), which Sightings
   and with which positive counts (`Seen`, `Counted`), which ICS labels are noted
   (`Labelled`). `OrderFree` speaks of the finished bundle only; nothing of it is
   inductive without saying what is still withheld before `Finalize`.
4. `Tallied` says the same of counts: at every moment the row of a Sighting counts
   the sessions folded into it so far (`CountsAll`), each of them once. The sum over
   sessions is the cardinality of a set of events (`Events`), so that one session
   more is a disjoint set more (`EventsOfMore`); the sessions of one Sighting share
   sensor and address, so either all of them have the hive's count, and the same
   one, or none has (`SameHive`). Salvage groups fold into Sightings of URLs only
   and touch no other row.

`BundleAssumption` is what the parsers guarantee of a session: one address, at
least one event, a download that names a hash among the files (`cowrie.py:246`,
`dionaea.py:210`; Honeytrap is the exception), ICS labels that are no names of
protocols; that a salvage group has no usable address, and that what the hive
counted is a number.

**The endpoint.** `StallSeen` and `WorkSeen`, for any interval, number of rows read
and length of the steps. `OnRecord`: what a row says of an end or of a length is
bounded by what really happened. `Timely`: the topmost row of a success ended at
the latest one, and the next cycle begins within the pause `main` computes from its
length; for a cycle under way that is the second row. `Beating`: the heartbeat is
current in the stream, and in the rest no older than the build is long. `Retained`:
once a cycle has ended, the rows show one that has, below no more rows than cycles
have left no end since. The newest success among the rows exists by well-foundedness
(`NewestGood`). Both hypotheses are needed. `StallSeen` allows two unended cycles in
a row fewer than the rows read, so eight of ten: with one more, and a cycle under
way, no end is visible, which is the run `Health_unended`. `WorkSeen` wants a build
no longer than `STALENESS_MULTIPLIER` intervals, since nothing beats in it.

### Publishing (`ChunkedPublishProofs`)

All theorems exclude failures of a single chunk of several (`"chunk"`), which
break them, see section 3.

- `CursorLeavesProven`: `PlanInv` says that an object of the pass is in a chunk
  and, once sent, landed, refused or queued; `StreakCounts` that whoever is in the
  signature of a streak was refused as many times; `LeftInv` that what the cursor
  passed is proven. It supposes `RefsTogether`: an edge comes in the window of its
  ends, unless one never comes. Otherwise an edge stripped in one window and
  marked as published stays missing when its end arrives later: the hazard at
  `publisher.py:868`.
- `PoisonStaysAlone`, `BarrierRefusesForCause` and `EmittedOnceLanded`: a cycle in
  which nothing failed spares every sound object (`Spared`), one in which
  something did may charge the streaks of its passes, once each (`Charged`); so a
  streak with a sound object is no longer than the number of failures
  (`Inflicted`), and fewer than `QuarantineAfter` never reach it. `Sound` is
  hereditary: an object and all it needs, each in an earlier pass, is accepted by
  OpenCTI. `RefsCome`: what is referred to comes with it or came before.
  `EmittedOnceLanded` supposes that the emit-once edges are sound.
- `LedgerAgreesWithCursor`: whenever the cursor may move, the rows of the cycle
  satisfy `PublishIsClean`, by the shape of the rows of each pass (`LedgerInv`).
  `Anchored`: no window consists of suppressed edges alone, since every bundle has
  a sensor and an address.

### Memory (`CycleMemoryProofs`)

- `CeilingIsKept`, `ScoresNeverFall` by `MemoryInv`: whatever OpenCTI holds of an
  object that has not lapsed is known to `object_max_state`, or it was published
  from the bundle of the cycle still under way, or of one that did not move the
  cursor and will rebuild it (`HeldInv`). A merged version is at least as strong and
  within the ceiling (`MergedVersion`), so it makes no difference that the process
  may die between the publish and the write of the maximum. Pruning needs the third
  part of `HeldInv`: a row is as recent as what OpenCTI holds (`Renewed`), or its
  window is still in hand (`InHand`); so `prune_object_max_state` takes a row only
  when the object has lapsed by its last delivery, not merely by the row's own age.
  `TimeInv` bounds those times by the clock; `StoredInv` says the same without the
  window, once the row has been written, since the cursor leaves the window then.
- `EdgesOutlastTheirWindow` by `EdgeInv`: the emission log asserts nothing that
  OpenCTI has not, save what it lost; and a clean publish has delivered the edge
  of every permitted session, sent or suppressed.
- `CampaignsAttachAll` by `AttachInv`: every campaign of enough members whose
  artifact the window has shown so far (`Shown`) is complete by the end of its
  cycle, and a member counted as emitted has its edge in OpenCTI or in the bundle
  under way. It speaks of undisturbed cycles, like the property (see
  `CycleMemory_marked`).
- `NothingForgotten` by `RollInv` and `UsageInv`: a row counts at least the
  sessions of the last 90 days folded into it (`DueOf`; no more than were folded,
  without faults) and spans their times. Pruning keeps it because a row's `last` is
  no earlier than that of any session it covers, so a row that goes had none left
  that is due. A pair of credentials has at least the attempts of the windows that
  were stored, and the note OpenCTI has says of each pair whether it ever
  succeeded.

`MemoryAssumption`: windows are sequences of sessions, times, scores and the
ceiling are integers, the ages at which rows are pruned are natural numbers, and
the summaries are daily and weekly. Nothing is assumed of how those ages compare.

### Intake (`IntakeProofs`)

`CursorLeavesNothing` by `IntakeInv`: of the documents in the index whose window
is being read, each is still behind `search_after`, on the page at hand, or taken
by the gates (`AllTaken`), and pages and gates go in the order of the sort
(`PageInOrder`, `ReadInOrder`); so where the cap cuts, everything earlier has been
taken. `FirstOf`, which takes a page, is described by ranks: the first hits are
those with fewer than `PageSize` before them (`Rank`). `EveryReadIsCounted` by
`TallyInv`: the counters of drops, parsed events and the capped one add up at every
step of the loop.

`SessionsAreExact`: the events of a batch stand in a strict order (`Precedes`:
their timestamps, and the order of the stream within one instant, since Python's
sort is stable). Each of the five ways of grouping divides the batch
(`GroupsDivide`): for the window this needs that every event has a last opener at
or before it (`BurstOfEvent`), which exists because a batch is finite. Two events
are in one burst exactly if no opener lies between them, and an opener is what
follows a pause longer than the gap (`BurstUnbroken`, `OpenerAfterPause`).
A cycle whose correlation raised has the sessions of all types but one, or all with
one session's facts cut short (`CorrelateCases`), so what holds of the groups holds of
its sessions.
`NoEvidenceLost` by `CarriedInv`: a name the cache takes for a scanner's is one
(`NamesTrue`), so the gates turn no genuine attacker away (`GenuineKept`); whatever
is parsed, and not `broken`, is in a session, which has its facts or, of a kind it
holds one of, another of that kind (`HeldSays`, `SessionSays`), or the event is
`Skipped`; and the sessions of a window that is done are published. `Skipped` depends
on the batch, `PassedOver` on the documents alone: that the first implies the second
(`SkippedPassed`) needs that a Mailoney event with an id in the batch is within a
window's length of the one without (`WindowInv`: a window is no longer than
`MaxWindow`), and that an industrial event in the same session shares its id and
actor.

`IntakeAssumption`: finitely many documents with finitely many facts, their times
and sizes are numbers, and none shares both timestamp and position with another
(`_doc` in the sort).

### Lanes (`ActivitySweepProofs`, `LookupLaneProofs`, end of `SidecarProofs`)

A page is part of the active addresses and the cursor stays among them
(`GreatestExists`). For `LabelLanes`, `MarksNeverAhead` and `NoPageSkipped` from
`Confirmed`: past the publish, what the cycle has for its page is in OpenCTI. For
`LookupLane`, `CacheNeverAhead` from `PendingLanded`, as long as a failed publish
raises; and `AllowanceKept` from `CalmDay`: on a day without a fault an object that
was asked about has a row of today or an answer waiting to be confirmed, so it is
not asked again, and the calls of a cycle and the rows of the day are together
within the allowance.

### Sidecars (`SidecarProofs`)

- `CursorNeverAhead` (malware ingest): the records an attempt has read include
  everything visible past the cursor that did not come in behind it (`ReadCovers`),
  and what was built of them without an error is everything usable
  (`BuiltCovers`). That the cursor moves to a record of the batch needs a newest
  record in a finite set (`NewestExists`).
- `MarkMeansKept` (vault): the invariant balances the books. In the committed
  tables and in those of the open transaction, a capture count is the number of
  marks, plus the file under way once it is counted, plus what was lost to
  failures (`StoreBalanced`, `DraftBalanced`). A mark is therefore never without
  its row, and a row never without its file (`OnDisk`).
- `OneDeadListIsAlone` (blocklists) under `RefreshFits`: with a list that never
  answers, a refresh less one interval and two retries, or without one two
  refreshes, and a retry for every slip, fit into the maximal age. `OnTime` bounds
  the age of a list by when its next attempt is due. The defaults (a refresh every
  24 hours, 72 hours of age, `enrich/blocklists.py:84`) satisfy it.
- `CredentialsCountedOnce`: the committed tables hold exactly the documents of the
  recorded windows, and the tables of the open transaction those and the documents
  read so far (`Holds`, `WindowOpen`); what no window covers is what the cursor
  jumps over between the end of a window and the end of its cycle.

### Only model-checked

Liveness and `ENABLED` are beyond the prover: `CatchesUp`, `KeepsPublishing`,
`EveryLabelLands`, `StaysAnswered` and their like rest on TLC and on the fairness
of section 3. Every safety invariant and every action property of a passing run is proved.
Nothing is proved of a run whose constants the theorems exclude; the
configurations of section 3 show why they do.

## 5. Not modelled

- Configuration, logging, redaction and timestamps are stateless helpers; the
  one conversion that matters, to milliseconds, is in `SightingLedger`.
- The connection to OpenCTI (`opencti_client.py`) is I/O and appears as the
  environment of the modules that use it.
- The shell scripts are run by hand; their effect on `state.db` is the
  operator's move of the cursor in `SightingLedger`.
- The text of names, descriptions, patterns and notes, and the tables of ports,
  protocols and wording (`port_intel.py`, `stix/rendering.py`) are left out.
- The extraction of single fields by the parsers is a fact of the document in
  `Parsers`. So is ConPot's cap on the requests of a session.
- `first_seen` of a Sighting is left out: it only ever widens. Deletions on the
  OpenCTI side appear in `CycleMemory` for edges only; the source names the
  remedy (`TPOT2CTI_EMIT_ONCE=false`, `clear_immutable_emitted`).
- In `CycleMemory` the rows of `state.cycles` that are pruned, and rows whose
  address is malformed (`prune_malformed_attacker_activity`): a parser's source has
  been normalised before it is stored. `VACUUM` changes no row. A cycle takes no time
  there, so what is pruned at its end is judged by the clock at its start. Errors
  while campaigns, notes or summaries are made (`campaigns.py:253`, `:333`,
  `attacker_profile.py:484`) are swallowed in the code and left out.
- The vault's links by sensor, the health endpoint's HTTP server, and a host
  clock that jumps.

## 6. What could follow

| module | what | view |
|---|---|---|
| composition | ledger, publisher and bundle in one cycle | a stripped Sighting (`publisher.py:868`) is not sent while its window is marked as counted: a listed hazard without a property |
