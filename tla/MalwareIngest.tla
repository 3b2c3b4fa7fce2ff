----------------------------- MODULE MalwareIngest -----------------------------
(* tpot2cti.ingest.malware: samples that the hive's collector has captured    *)
(* and had confirmed, read past a cursor (last_seen, sha256), built, published *)
(* and only then passed.  The collector changes its index meanwhile.          *)
EXTENDS Naturals, FiniteSets

CONSTANTS
  Samples,      \* sha256 values: naturals, for their order
  Unusable,     \* those whose record holds no usable hash
  FamilyOf,     \* the normalised family of each, or NoFamily
  NoFamily,
  MinFamily,    \* MIN_FAMILY_SAMPLES
  LastDay,      \* bound: the collector's clock
  MaxMishaps    \* bound: failures of a build, a publish or an aggregation, and crashes

ASSUME IngestAssumption ==
  /\ Samples \subseteq Nat /\ IsFiniteSet(Samples) /\ Unusable \subseteq Samples
  /\ {MinFamily, LastDay, MaxMishaps} \subseteq Nat

VARIABLES
  day,
  lastSeen,     \* the index: last_seen of each sample, 0 before the first capture
  confirmed,    \* samples with vt_malicious >= min_vt
  passed,       \* the cursor
  stage,        \* "idle", "fetched", "built"
  batch,        \* the records read
  allowed,      \* families with corroboration
  built,        \* records whose objects are to be published
  buildErrors,
  imported,     \* samples OpenCTI holds
  attributed,   \* and those tied to their family
  late,         \* what really happened: samples that came in behind a read
  mishaps

index == <<day, lastSeen, confirmed, late>>
ingestVars == <<index, passed, stage, batch, allowed, built, buildErrors, imported,
                attributed, mishaps>>

--------------------------------------------------------------------------------
Beginning == <<0, 0>>
Beyond(a, b) == a[1] > b[1] \/ (a[1] = b[1] /\ a[2] > b[2])
Record(s) == <<lastSeen[s], s>>

(* fetch_samples: (last_seen, sha256) past the cursor *)
PastStamp(r) == r[1] > passed[1]                                     \* mutant
Past(r) == Beyond(r, passed)
Visible == {s \in confirmed : lastSeen[s] > 0}
Fetched == {r \in {Record(s) : s \in Visible} : Past(r)}

(* fetch_family_counts, or the count over the batch when it is unavailable *)
Corroborated(samples) ==
  {f \in {FamilyOf[s] : s \in samples} \ {NoFamily} :
     Cardinality({s \in samples : FamilyOf[s] = f}) >= MinFamily}

(* the cursor after the records rs *)
Newest(rs) ==
  IF \E r \in rs : Beyond(r, passed)
  THEN CHOOSE r \in rs : \A q \in rs : ~Beyond(q, r)
  ELSE passed

Mishap == mishaps < MaxMishaps /\ mishaps' = mishaps + 1

(* The collector: a capture moves last_seen, a verdict does not.              *)
ReadAlready == Newest(batch)
Capture(s) ==
  /\ lastSeen[s] # day
  /\ lastSeen' = [lastSeen EXCEPT ![s] = day]
  /\ late' = IF s \in confirmed /\ ~Beyond(<<day, s>>, ReadAlready)
             THEN late \cup {s} ELSE late \ {s}
  /\ UNCHANGED <<day, confirmed, passed, stage, batch, allowed, built, buildErrors,
                 imported, attributed, mishaps>>

Confirm(s) ==
  /\ lastSeen[s] > 0 /\ s \notin confirmed
  /\ confirmed' = confirmed \cup {s}
  /\ late' = IF Beyond(Record(s), ReadAlready) THEN late ELSE late \cup {s}
  /\ UNCHANGED <<day, lastSeen, passed, stage, batch, allowed, built, buildErrors,
                 imported, attributed, mishaps>>

NextDay ==
  /\ day < LastDay /\ day' = day + 1
  /\ UNCHANGED <<lastSeen, confirmed, late, passed, stage, batch, allowed, built,
                 buildErrors, imported, attributed, mishaps>>

Fetch ==
  /\ stage = "idle"
  /\ batch' = Fetched
  /\ \/ allowed' = Corroborated(Visible) /\ UNCHANGED mishaps
     \/ allowed' = Corroborated({r[2] : r \in Fetched}) /\ Mishap
  /\ stage' = "fetched"
  /\ UNCHANGED <<index, passed, built, buildErrors, imported, attributed>>

Build(broken) ==
  /\ stage = "fetched"
  /\ IF broken = {} THEN UNCHANGED mishaps ELSE Mishap
  /\ built' = {r \in batch \ broken : r[2] \notin Unusable}
  /\ buildErrors' = (broken # {})
  /\ stage' = "built"
  /\ UNCHANGED <<index, passed, batch, allowed, imported, attributed>>

Land(rs) ==
  /\ imported' = imported \cup {r[2] : r \in rs}
  /\ attributed' = attributed \cup {r[2] : r \in {q \in rs : FamilyOf[q[2]] \in allowed}}

(* Nothing to publish counts as published. *)
MovesCursorAlways == TRUE                                            \* mutant
MovesCursor == ~buildErrors
PublishSamples ==
  /\ stage = "built"
  /\ Land(built)
  /\ passed' = IF MovesCursor THEN Newest(built) ELSE passed
  /\ stage' = "idle" /\ batch' = {}
  /\ UNCHANGED <<index, allowed, built, buildErrors, mishaps>>

PublishFails(part) ==
  /\ stage = "built" /\ built # {} /\ Mishap
  /\ Land(part)
  /\ stage' = "idle" /\ batch' = {}
  /\ UNCHANGED <<index, passed, allowed, built, buildErrors>>

IngestDies ==
  /\ stage # "idle" /\ Mishap
  /\ stage' = "idle" /\ batch' = {}
  /\ UNCHANGED <<index, passed, allowed, built, buildErrors, imported, attributed>>

IngestInit ==
  /\ day = 1
  /\ lastSeen = [s \in Samples |-> 0]
  /\ confirmed = {} /\ late = {}
  /\ passed = Beginning /\ stage = "idle"
  /\ batch = {} /\ allowed = {} /\ built = {} /\ buildErrors = FALSE
  /\ imported = {} /\ attributed = {} /\ mishaps = 0

IngestNext ==
  \/ \E s \in Samples : Capture(s) \/ Confirm(s)
  \/ NextDay
  \/ Fetch
  \/ \E broken \in SUBSET batch : Build(broken)
  \/ PublishSamples
  \/ \E part \in SUBSET built : PublishFails(part)
  \/ IngestDies

IngestSpec == IngestInit /\ [][IngestNext]_ingestVars

--------------------------------------------------------------------------------
(* Every confirmed sample at or behind the cursor is in OpenCTI, whatever     *)
(* failed to build or to publish and however captures share an instant; only  *)
(* a sample whose verdict, or record, came in behind a read is not.           *)
PassedMeansLanded ==
  \A s \in Visible \ (Unusable \cup late) : Beyond(Record(s), passed) \/ s \in imported
================================================================================
