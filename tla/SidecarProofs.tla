----------------------------- MODULE SidecarProofs -----------------------------
(* The processes beside the importer: the malware ingest, the sample vault,   *)
(* the refresh of the blocklists, the credential sidecar and the lanes that   *)
(* label addresses.  Each has its own specification, invariant and theorem.   *)
EXTENDS CredentialWindow, MalwareIngest, SampleVault, BlocklistRefresh, LabelLanes,
        ActivitySweepProofs, FunctionTheorems

--------------------------------------------------------------------------------
(* The cursor of the malware ingest is never ahead of OpenCTI, for any        *)
(* samples, families, captures and mishaps.                                   *)
Stamps == Nat \X Nat

(* Beyond is a strict total order of the stamps.                              *)
LEMMA BeyondOrder ==
  ASSUME NEW a \in Stamps, NEW b \in Stamps, NEW c \in Stamps
  PROVE  /\ ~Beyond(a, a)
         /\ Beyond(a, b) /\ Beyond(b, c) => Beyond(a, c)
         /\ ~Beyond(a, b) /\ ~Beyond(b, a) => a = b
         /\ Beyond(a, b) /\ ~Beyond(c, b) => Beyond(a, c)
         /\ ~Beyond(b, a) /\ Beyond(b, c) => Beyond(a, c)
BY DEF Beyond, Stamps

(* A finite set of stamps has a newest one: the sets of stamps beyond one of  *)
(* its own are finite, so one of them is minimal.                             *)
LEMMA NewestExists ==
  ASSUME NEW S \in SUBSET Stamps, IsFiniteSet(S), S # {}
  PROVE  \E m \in S : \A n \in S : ~Beyond(n, m)
<1> DEFINE Ahead(m) == {n \in S : Beyond(n, m)}
           Aheads == {Ahead(m) : m \in S}
<1>1. Aheads \subseteq FiniteSubsetsOf(S)
  <2>1. FiniteSubsetsOf(S) = SUBSET S
    BY FS_FiniteSubsetsOfFinite
  <2> QED
    BY <2>1
<1>2. Aheads # {}
  OBVIOUS
<1>3. PICK A \in Aheads : \A B \in Aheads : ~(<<B, A>> \in StrictSubsetOrdering(S))
  <2> HIDE DEF Aheads
  <2> QED
    BY <1>1, <1>2, WFMin, FS_StrictSubsetOrderingWellFounded
<1>4. PICK m \in S : A = Ahead(m)
  OBVIOUS
<1>5. ASSUME NEW n \in S, Beyond(n, m) PROVE FALSE
  <2>1. Ahead(n) \in Aheads
    OBVIOUS
  <2>2. Ahead(n) \subseteq Ahead(m)
    <3>1. \A k \in S : Beyond(k, n) => Beyond(k, m)
      BY <1>5, BeyondOrder
    <3> QED
      BY <3>1
  <2>3. n \in Ahead(m) /\ n \notin Ahead(n)
    BY <1>5, BeyondOrder
  <2>4. <<Ahead(n), Ahead(m)>> \in StrictSubsetOrdering(S)
    BY <2>2, <2>3 DEF StrictSubsetOrdering
  <2> QED
    BY <1>3, <1>4, <2>1, <2>4
<1> QED
  BY <1>4, <1>5

(* The cursor after records is one of them or stays, and none of them is      *)
(* beyond it.                                                                 *)
LEMMA NewestOfRecords ==
  ASSUME passed \in Stamps, NEW rs \in SUBSET Stamps, IsFiniteSet(rs)
  PROVE  /\ Newest(rs) \in Stamps
         /\ ~Beyond(passed, Newest(rs))
         /\ \A r \in rs : ~Beyond(r, Newest(rs))
         /\ Newest(rs) \in rs \cup {passed}
<1>1. CASE \E r \in rs : Beyond(r, passed)
  <2>1. \E m \in rs : \A n \in rs : ~Beyond(n, m)
    BY <1>1, NewestExists
  <2>2. /\ Newest(rs) \in rs
        /\ \A n \in rs : ~Beyond(n, Newest(rs))
    BY <1>1, <2>1 DEF Newest
  <2>3. PICK r \in rs : Beyond(r, passed)
    BY <1>1
  <2>4. ~Beyond(passed, Newest(rs))
    BY <2>2, <2>3, BeyondOrder
  <2> QED
    BY <2>2, <2>4
<1>2. CASE \A r \in rs : ~Beyond(r, passed)
  BY <1>2, BeyondOrder DEF Newest
<1> QED
  BY <1>1, <1>2

(* Fewer records leave the cursor no further.                                 *)
LEMMA NewestOfFewer ==
  ASSUME passed \in Stamps, NEW rs \in SUBSET Stamps, IsFiniteSet(rs), NEW qs \in SUBSET rs
  PROVE  ~Beyond(Newest(qs), Newest(rs))
<1>1. IsFiniteSet(qs)
  BY FS_Subset
<1> QED
  BY <1>1, NewestOfRecords

--------------------------------------------------------------------------------
(* The inductive invariant: what a cycle read holds everything between the    *)
(* cursor and the newest record of it, except what came in late, and nothing  *)
(* of it is dropped by a build without errors.                                *)
TypeInv ==
  /\ day \in Nat
  /\ lastSeen \in [Samples -> Nat]
  /\ confirmed \subseteq Samples
  /\ passed \in Stamps
  /\ stage \in {"idle", "fetched", "built"}
  /\ batch \in SUBSET (Nat \X Samples) /\ IsFiniteSet(batch)
  /\ built \in SUBSET (Nat \X Samples)

Awaited == Visible \ (Unusable \cup late)
ReadCovers ==
  \A s \in Awaited : s \in imported \/ Record(s) \in batch \/ Beyond(Record(s), Newest(batch))
BuiltCovers ==
  /\ stage = "idle" => batch = {}
  /\ stage = "built" =>
       /\ built \subseteq batch
       /\ ~buildErrors => built = {r \in batch : r[2] \notin Unusable}

IngestInv == TypeInv /\ PassedMeansLanded /\ ReadCovers /\ BuiltCovers

LEMMA RecordsAreStamps ==
  ASSUME TypeInv
  PROVE  /\ batch \in SUBSET Stamps
         /\ \A s \in Samples : Record(s) \in Stamps /\ Record(s)[2] = s
         /\ Fetched \in SUBSET (Nat \X Samples) /\ IsFiniteSet(Fetched)
<1> DEFINE sample == [r \in Fetched |-> r[2]]
<1>1. \A r \in Fetched : r[2] \in Samples /\ r = Record(r[2])
  BY DEF Fetched, Record, Visible, TypeInv
<1>2. sample \in Injection(Fetched, Samples)
  BY <1>1, Fun_IsInj
<1>3. IsFiniteSet(Fetched)
  BY <1>2, FS_Injection, IngestAssumption
<1>4. batch \in SUBSET Stamps
  BY IngestAssumption DEF TypeInv, Stamps
<1>5. \A s \in Samples : Record(s) \in Stamps /\ Record(s) \in Nat \X Samples /\ Record(s)[2] = s
  BY IngestAssumption DEF TypeInv, Stamps, Record
<1>6. Fetched \in SUBSET (Nat \X Samples)
  BY <1>1, <1>5
<1> QED
  BY <1>3, <1>4, <1>5, <1>6

(* With nothing read, covering means what the property says.                  *)
LEMMA IdleCovers ==
  ASSUME PassedMeansLanded, batch = {}
  PROVE  ReadCovers
BY DEF PassedMeansLanded, ReadCovers, Awaited, Newest

LEMMA IngestInvInit == IngestInit => IngestInv
<1> SUFFICES ASSUME IngestInit PROVE IngestInv
  OBVIOUS
<1>1. TypeInv
  BY FS_EmptySet DEF IngestInit, TypeInv, Stamps, Beginning
<1>2. PassedMeansLanded
  BY DEF IngestInit, PassedMeansLanded, Visible
<1>3. BuiltCovers
  BY DEF IngestInit, BuiltCovers
<1> QED
  BY <1>1, <1>2, <1>3, IdleCovers DEF IngestInit, IngestInv

LEMMA IngestInvStep == IngestInv /\ [IngestNext]_ingestVars => IngestInv'
<1> SUFFICES ASSUME IngestInv, [IngestNext]_ingestVars PROVE IngestInv'
  OBVIOUS
<1> USE DEF IngestInv
<1> DEFINE newest == Newest(batch)
<1>n. newest \in Stamps /\ ~Beyond(passed, newest)
  BY NewestOfRecords, RecordsAreStamps DEF TypeInv
<1>1. CASE UNCHANGED ingestVars
  BY <1>1 DEF ingestVars, index, TypeInv, PassedMeansLanded, ReadCovers, BuiltCovers, Awaited,
              Visible, Record, Newest
<1>2. ASSUME NEW s \in Samples, Capture(s) PROVE IngestInv'
  <2>1. TypeInv'
    BY <1>2 DEF Capture, TypeInv
  <2>2. BuiltCovers'
    BY <1>2 DEF Capture, BuiltCovers
  <2>3. newest' = newest /\ passed' = passed /\ imported' = imported /\ batch' = batch
    BY <1>2 DEF Capture, Newest
  <2>4. ASSUME NEW t \in Awaited', t # s PROVE t \in Awaited /\ Record(t)' = Record(t)
    BY <1>2, <2>4 DEF Capture, Awaited, Visible, Record, TypeInv
  <2>5. ASSUME s \in Awaited' PROVE Record(s)' \in Stamps /\ Beyond(Record(s)', newest)
    BY <1>2, <2>5, IngestAssumption
       DEF Capture, Awaited, Visible, Record, TypeInv, ReadAlready, Stamps
  <2>6. ReadCovers'
    BY <2>3, <2>4, <2>5 DEF ReadCovers
  <2>7. PassedMeansLanded'
    BY <1>n, <2>3, <2>4, <2>5, BeyondOrder DEF PassedMeansLanded, Awaited, TypeInv
  <2> QED
    BY <2>1, <2>2, <2>6, <2>7
<1>3. ASSUME NEW s \in Samples, Confirm(s) PROVE IngestInv'
  <2>1. TypeInv'
    BY <1>3 DEF Confirm, TypeInv
  <2>2. BuiltCovers'
    BY <1>3 DEF Confirm, BuiltCovers
  <2>3. newest' = newest /\ passed' = passed /\ imported' = imported /\ batch' = batch
    BY <1>3 DEF Confirm, Newest
  <2>4. ASSUME NEW t \in Awaited', t # s PROVE t \in Awaited /\ Record(t)' = Record(t)
    BY <1>3, <2>4 DEF Confirm, Awaited, Visible, Record, TypeInv
  <2>5. ASSUME s \in Awaited' PROVE Record(s)' \in Stamps /\ Beyond(Record(s)', newest)
    BY <1>3, <2>5, RecordsAreStamps DEF Confirm, Awaited, Visible, Record, ReadAlready
  <2>6. ReadCovers'
    BY <2>3, <2>4, <2>5 DEF ReadCovers
  <2>7. PassedMeansLanded'
    BY <1>n, <2>3, <2>4, <2>5, BeyondOrder DEF PassedMeansLanded, Awaited, TypeInv
  <2> QED
    BY <2>1, <2>2, <2>6, <2>7
<1>4. CASE NextDay
  <2>1. TypeInv'
    BY <1>4 DEF NextDay, TypeInv
  <2> QED
    BY <1>4, <2>1 DEF NextDay, PassedMeansLanded, ReadCovers, BuiltCovers, Awaited, Visible,
                      Record, Newest
<1>5. CASE Fetch
  <2>1. TypeInv'
    BY <1>5, RecordsAreStamps DEF Fetch, index, TypeInv
  <2>2. BuiltCovers'
    BY <1>5 DEF Fetch, BuiltCovers
  <2>3. PassedMeansLanded' /\ Awaited' = Awaited /\ imported' = imported
    BY <1>5 DEF Fetch, index, PassedMeansLanded, Awaited, Visible, Record
  <2>4. \A s \in Awaited : s \in imported \/ Record(s) \in Fetched
    BY DEF PassedMeansLanded, Awaited, Fetched, Past
  <2>5. batch' = Fetched /\ \A s \in Samples : Record(s)' = Record(s)
    BY <1>5 DEF Fetch, index, Record
  <2>6. Awaited \subseteq Samples
    BY DEF Awaited, Visible, TypeInv
  <2>7. ReadCovers'
    BY <2>3, <2>4, <2>5, <2>6 DEF ReadCovers
  <2> QED
    BY <2>1, <2>2, <2>3, <2>7
<1>6. ASSUME NEW broken \in SUBSET batch, Build(broken) PROVE IngestInv'
  <2>1. TypeInv'
    BY <1>6 DEF Build, index, TypeInv
  <2>2. BuiltCovers'
    BY <1>6 DEF Build, BuiltCovers
  <2>3. PassedMeansLanded' /\ ReadCovers'
    BY <1>6 DEF Build, index, PassedMeansLanded, ReadCovers, Awaited, Visible, Record, Newest
  <2> QED
    BY <2>1, <2>2, <2>3
<1>7. CASE PublishSamples
  <2> DEFINE next == IF MovesCursor THEN Newest(built) ELSE passed
  <2>1. built \in SUBSET Stamps /\ IsFiniteSet(built) /\ built \subseteq batch
    BY <1>7, FS_Subset, IngestAssumption DEF PublishSamples, BuiltCovers, TypeInv, Stamps
  <2>2. passed' = next /\ next \in Stamps /\ ~Beyond(next, newest)
    <3>1. Newest(built) \in Stamps /\ ~Beyond(Newest(built), newest)
      BY <2>1, NewestOfRecords, NewestOfFewer, RecordsAreStamps DEF TypeInv
    <3> QED
      BY <1>7, <3>1, <1>n DEF PublishSamples, TypeInv
  <2>3. TypeInv'
    BY <1>7, <2>2, FS_EmptySet DEF PublishSamples, index, TypeInv
  <2>4. Awaited' = Awaited /\ Awaited \subseteq Samples /\ \A s \in Samples : Record(s)' = Record(s)
    BY <1>7 DEF PublishSamples, index, Awaited, Visible, Record, TypeInv
  <2>5. ASSUME NEW s \in Awaited PROVE s \in imported' \/ Beyond(Record(s), next)
    <3>1. imported' = imported \cup {r[2] : r \in built}
      BY <1>7 DEF PublishSamples, Land
    <3>2. CASE s \in imported
      BY <3>1, <3>2
    <3>3. CASE s \notin imported /\ ~MovesCursor
      BY <3>3 DEF PassedMeansLanded, Awaited
    <3>4. CASE s \notin imported /\ MovesCursor /\ Record(s) \in batch
      <4>1. Record(s) \in built
        BY <1>7, <3>4, RecordsAreStamps, <2>4
           DEF PublishSamples, BuiltCovers, MovesCursor, Awaited
      <4> QED
        BY <3>1, <4>1, <2>4, RecordsAreStamps
    <3>5. CASE Beyond(Record(s), newest)
      BY <3>5, <2>2, <1>n, <2>4, RecordsAreStamps, BeyondOrder
    <3> QED
      BY <3>2, <3>3, <3>4, <3>5 DEF ReadCovers
  <2>6. PassedMeansLanded'
    BY <2>2, <2>4, <2>5 DEF PassedMeansLanded, Awaited
  <2>7. batch' = {} /\ stage' = "idle"
    BY <1>7 DEF PublishSamples
  <2>8. ReadCovers'
    BY <2>6, <2>7 DEF PassedMeansLanded, ReadCovers, Awaited, Newest
  <2> QED
    BY <2>3, <2>6, <2>7, <2>8 DEF BuiltCovers
<1>8. ASSUME NEW part \in SUBSET built, PublishFails(part) PROVE IngestInv'
  <2>1. TypeInv'
    BY <1>8, FS_EmptySet DEF PublishFails, index, TypeInv
  <2>2. PassedMeansLanded'
    BY <1>8 DEF PublishFails, Land, index, PassedMeansLanded, Visible, Record
  <2>3. batch' = {} /\ stage' = "idle"
    BY <1>8 DEF PublishFails
  <2>4. ReadCovers'
    BY <2>2, <2>3 DEF PassedMeansLanded, ReadCovers, Awaited, Newest
  <2> QED
    BY <2>1, <2>2, <2>3, <2>4 DEF BuiltCovers
<1>9. CASE IngestDies
  <2>1. TypeInv'
    BY <1>9, FS_EmptySet DEF IngestDies, index, TypeInv
  <2>2. PassedMeansLanded'
    BY <1>9 DEF IngestDies, index, PassedMeansLanded, Visible, Record
  <2>3. batch' = {} /\ stage' = "idle"
    BY <1>9 DEF IngestDies
  <2>4. ReadCovers'
    BY <2>2, <2>3 DEF PassedMeansLanded, ReadCovers, Awaited, Newest
  <2> QED
    BY <2>1, <2>2, <2>3, <2>4 DEF BuiltCovers
<1> QED
  BY <1>1, <1>2, <1>3, <1>4, <1>5, <1>6, <1>7, <1>8, <1>9 DEF IngestNext

(* A confirmed sample the cursor has passed is in OpenCTI: whatever fails to  *)
(* build or lands by half, and for captures of one instant in any number,     *)
(* PassedMeansLanded holds in every reachable state.                          *)
THEOREM CursorNeverAhead == IngestSpec => []PassedMeansLanded
<1>1. IngestInv => PassedMeansLanded
  BY DEF IngestInv
<1> QED
  BY <1>1, IngestInvInit, IngestInvStep, PTL DEF IngestSpec

--------------------------------------------------------------------------------
(* What is proved of the vault, for any sensors, files, failures and crashes: *)
(* a file is marked as seen only with its sample kept, and the capture count  *)
(* of a sample is exact up to the failures.                                   *)
Marks(v, c) == {p \in v.seen : p[2] = c}
Versions == [seen : SUBSET (Files \X Contents), captures : [Contents -> Nat]]

VaultTypes ==
  /\ remote \in [Files -> Contents \cup {Missing}]
  /\ disk \in [Contents -> {"absent", "torn", "whole"}]
  /\ store \in Versions /\ draft \in Versions
  /\ IsFiniteSet(store.seen) /\ IsFiniteSet(draft.seen)
  /\ listed \subseteq {f \in Files : remote[f] \in Contents}
  /\ at \in {"next", "copy", "insert", "publish", "bump", "mark"}
  /\ troubles \in Nat

(* A capture without its mark yet: the file under way was counted *)
InDraft(c) == at \in {"publish", "mark"} /\ current.content = c

(* The captures of a content are its marks, the file under way and those that *)
(* failed after they were counted.                                            *)
StoreBalanced ==
  \A c \in Contents :
    \E lost \in 0..troubles :
      store.captures[c] = Cardinality(Marks(store, c)) + lost
DraftBalanced ==
  \A c \in Contents :
    \E lost \in 0..troubles :
      draft.captures[c] = Cardinality(Marks(draft, c)) + lost + (IF InDraft(c) THEN 1 ELSE 0)

OnDisk ==
  \A c \in Contents : store.captures[c] > 0 \/ draft.captures[c] > 0 => disk[c] # "absent"

UnderWay ==
  at # "next" =>
    /\ current.file \in Files /\ current.content \in Contents
    /\ ~HaveSeen(current.file)
    /\ at \in {"copy", "insert"} =>
         disk[current.content] # "absent" /\ draft.captures[current.content] = 0
    /\ at = "bump" => draft.captures[current.content] > 0

VaultInv ==
  /\ VaultTypes /\ StoreBalanced /\ DraftBalanced /\ OnDisk /\ UnderWay
  /\ sensor = NoSensor => at = "next"

--------------------------------------------------------------------------------
(* The number of marks is a natural number, and one more with a new mark      *)
(* (SeenFiles.mark after have_seen).                                          *)
LEMMA MarksFinite ==
  ASSUME NEW v \in Versions, IsFiniteSet(v.seen), NEW c
  PROVE  IsFiniteSet(Marks(v, c)) /\ Cardinality(Marks(v, c)) \in Nat
BY FS_Subset, FS_CardinalityType DEF Marks

NewMark(v, u, f, d) ==
  /\ v \in Versions /\ u \in Versions /\ IsFiniteSet(v.seen)
  /\ \A p \in v.seen : p[1] # f
  /\ u.seen = v.seen \cup {<<f, d>>}

LEMMA OneMoreMark ==
  ASSUME NEW v, NEW u, NEW f, NEW d, NewMark(v, u, f, d), NEW c \in Contents
  PROVE  /\ IsFiniteSet(u.seen)
         /\ Cardinality(Marks(u, c)) = Cardinality(Marks(v, c)) + (IF c = d THEN 1 ELSE 0)
<1> USE DEF NewMark
<1>1. IsFiniteSet(u.seen)
  BY FS_AddElement
<1>2. CASE c = d
  <2>1. Marks(u, c) = Marks(v, c) \cup {<<f, d>>} /\ <<f, d>> \notin Marks(v, c)
    BY <1>2 DEF Marks
  <2>2. IsFiniteSet(Marks(v, c)) /\ Cardinality(Marks(v, c)) \in Nat
    BY MarksFinite
  <2>3. Cardinality(Marks(u, c)) = Cardinality(Marks(v, c)) + 1
    BY <2>1, <2>2, FS_AddElement
  <2> QED
    BY <1>1, <1>2, <2>3
<1>3. CASE c # d
  <2>1. Marks(u, c) = Marks(v, c)
    BY <1>3 DEF Marks
  <2> QED
    BY <1>1, <1>3, <2>1, MarksFinite
<1> QED
  BY <1>2, <1>3

LEMMA VaultInvInit == VaultInit => VaultInv
<1> SUFFICES ASSUME VaultInit PROVE VaultInv
  OBVIOUS
<1>1. IsFiniteSet({}) /\ Cardinality({}) = 0
  BY FS_EmptySet
<1>2. \A c \in Contents : Marks(store, c) = {} /\ Marks(draft, c) = {}
  BY DEF VaultInit, Marks
<1>3. VaultTypes
  BY <1>1, VaultAssumption DEF VaultInit, VaultTypes, Versions
<1>4. StoreBalanced /\ DraftBalanced
  <2>1. 0 \in 0..troubles /\ \A c \in Contents : store.captures[c] = 0 /\ draft.captures[c] = 0
    BY DEF VaultInit
  <2>2. \A c \in Contents : ~InDraft(c)
    BY DEF VaultInit, InDraft
  <2>3. \A c \in Contents :
          Cardinality(Marks(store, c)) = 0 /\ Cardinality(Marks(draft, c)) = 0
    BY <1>1, <1>2
  <2>4. StoreBalanced
    <3>1. \A c \in Contents : store.captures[c] = Cardinality(Marks(store, c)) + 0
      BY <2>1, <2>3
    <3> QED
      BY <2>1, <3>1 DEF StoreBalanced
  <2>5. DraftBalanced
    <3>1. \A c \in Contents : draft.captures[c] = Cardinality(Marks(draft, c)) + 0 + 0
      BY <2>1, <2>3
    <3> QED
      BY <2>1, <2>2, <3>1 DEF DraftBalanced
  <2> QED
    BY <2>4, <2>5
<1>5. OnDisk /\ UnderWay
  BY DEF VaultInit, OnDisk, UnderWay
<1> QED
  BY <1>3, <1>4, <1>5 DEF VaultInv, VaultInit

(* What a step that writes neither index nor disk, and leaves the file under  *)
(* way, has to show for the invariant: the types (seen_files, samples).       *)
LEMMA NothingCounted ==
  ASSUME VaultInv, VaultTypes', UNCHANGED <<disk, store, draft, current, at>>,
         troubles' >= troubles
  PROVE  StoreBalanced' /\ DraftBalanced' /\ OnDisk' /\ UnderWay'
<1>1. 0..troubles \subseteq 0..troubles'
  BY DEF VaultInv, VaultTypes
<1>2. \A c \in Contents : InDraft(c)' = InDraft(c)
  BY DEF InDraft
<1>3. StoreBalanced'
  BY <1>1 DEF VaultInv, StoreBalanced, Marks
<1>4. DraftBalanced'
  BY <1>1, <1>2 DEF VaultInv, DraftBalanced, Marks
<1>5. OnDisk' /\ UnderWay'
  BY DEF VaultInv, OnDisk, UnderWay, HaveSeen
<1> QED
  BY <1>3, <1>4, <1>5

(* A file given up after it was counted is one of the failures               *)
(* (process_file's except, and a rolled back transaction).                    *)
LEMMA FileGivenUp ==
  ASSUME VaultInv, VaultTypes', UNCHANGED <<disk, store, draft>>, at' = "next",
         troubles' = troubles + 1
  PROVE  StoreBalanced' /\ DraftBalanced' /\ OnDisk' /\ UnderWay'
<1> USE DEF VaultInv
<1>1. 0..troubles \subseteq 0..troubles'
  BY DEF VaultTypes
<1>2. StoreBalanced'
  BY <1>1 DEF StoreBalanced, Marks
<1>3. DraftBalanced'
  <2> SUFFICES ASSUME NEW c \in Contents
               PROVE  \E lost \in 0..troubles' :
                        draft'.captures[c] = Cardinality(Marks(draft', c)) + lost + 0
    BY DEF DraftBalanced, Marks, InDraft
  <2>1. PICK lost \in 0..troubles :
          draft.captures[c] = Cardinality(Marks(draft, c)) + lost + (IF InDraft(c) THEN 1 ELSE 0)
    BY DEF DraftBalanced
  <2> DEFINE more == lost + (IF InDraft(c) THEN 1 ELSE 0)
  <2>2. more \in 0..troubles'
    BY DEF VaultTypes
  <2>3. draft.captures[c] = Cardinality(Marks(draft, c)) + more + 0
    BY <2>1, MarksFinite DEF VaultTypes
  <2> QED
    BY <2>2, <2>3 DEF Marks
<1>4. OnDisk' /\ UnderWay'
  BY DEF OnDisk, UnderWay
<1> QED
  BY <1>2, <1>3, <1>4

LEMMA VaultInvStep == VaultInv /\ [VaultNext]_vaultVars => VaultInv'
<1> SUFFICES ASSUME VaultInv, [VaultNext]_vaultVars PROVE VaultInv'
  OBVIOUS
<1> USE DEF VaultInv
<1>1. ASSUME NEW f \in Files, Write(f) PROVE VaultInv'
  <2>1. VaultTypes'
    BY <1>1 DEF Write, VaultTypes, Contents
  <2>2. troubles' >= troubles
    BY <1>1 DEF Write, VaultTypes
  <2> QED
    BY <1>1, <2>1, <2>2, NothingCounted DEF Write
<1>2. ASSUME NEW s \in Sensors, Visit(s) PROVE VaultInv'
  <2>1. VaultTypes'
    BY <1>2 DEF Visit, VaultTypes
  <2>2. \A c \in Contents : ~InDraft(c)'
    BY <1>2 DEF Visit, InDraft
  <2>3. StoreBalanced' /\ DraftBalanced'
    BY <1>2, <2>2 DEF Visit, StoreBalanced, DraftBalanced, Marks, VaultTypes, Versions
  <2>4. OnDisk' /\ UnderWay'
    BY <1>2 DEF Visit, OnDisk, UnderWay
  <2> QED
    BY <1>2, <2>1, <2>3, <2>4 DEF Visit
<1>3. ASSUME NEW d \in dirs, List(d) PROVE VaultInv'
  <2>1. VaultTypes' /\ troubles' >= troubles
    BY <1>3 DEF List, VaultTypes, Trouble
  <2> QED
    BY <1>3, <2>1, NothingCounted DEF List
<1>4. ASSUME NEW f \in Files, Skip(f) PROVE VaultInv'
  <2>1. VaultTypes'
    BY <1>4 DEF Skip, VaultTypes
  <2>2. troubles' >= troubles
    BY <1>4 DEF Skip, VaultTypes
  <2> QED
    BY <1>4, <2>1, <2>2, NothingCounted DEF Skip
<1>5. ASSUME NEW f \in Files, Download(f) PROVE VaultInv'
  <2>1. remote[f] \in Contents /\ at = "next" /\ ~HaveSeen(f)
    BY <1>5 DEF Download, VaultTypes
  <2>2. at' \in {"bump", "copy", "insert"}
    BY <1>5 DEF Download
  <2>3. disk' \in [Contents -> {"absent", "torn", "whole"}]
    BY <1>5 DEF Download, VaultTypes
  <2>4. VaultTypes'
    BY <1>5, <2>2, <2>3 DEF Download, VaultTypes
  <2>5. \A c \in Contents : ~InDraft(c) /\ ~InDraft(c)'
    BY <2>1, <2>2 DEF InDraft
  <2>6. StoreBalanced' /\ DraftBalanced'
    BY <1>5, <2>5 DEF Download, StoreBalanced, DraftBalanced, Marks
  <2>7. \A c \in Contents : disk[c] # "absent" => disk'[c] # "absent"
    BY <1>5 DEF Download, VaultTypes
  <2>8. OnDisk'
    BY <1>5, <2>7 DEF Download, OnDisk
  <2>9. UnderWay'
    <3>1. current'.file = f /\ current'.content = remote[f]
      BY <1>5 DEF Download
    <3>2. HaveSeen(f)' = HaveSeen(f) /\ draft' = draft
      BY <1>5 DEF Download, HaveSeen
    <3>3. at' \in {"copy", "insert"} => draft.captures[remote[f]] = 0
      BY <1>5, <2>1 DEF Download, HaveSample, VaultTypes, Versions
    <3>4. at' \in {"copy", "insert"} => disk'[remote[f]] # "absent"
      BY <1>5, <2>1, <3>3 DEF Download, VaultTypes
    <3>5. at' = "bump" => draft.captures[remote[f]] > 0
      BY <1>5 DEF Download, HaveSample
    <3>6. current'.file \in Files /\ ~HaveSeen(current.file)'
      BY <2>1, <3>1, <3>2 DEF HaveSeen
    <3> QED
      BY <2>1, <3>1, <3>2, <3>3, <3>4, <3>5, <3>6 DEF UnderWay
  <2> QED
    BY <1>5, <2>4, <2>6, <2>8, <2>9 DEF Download
<1>6. ASSUME NEW f \in Files, FileFails(f) PROVE VaultInv'
  <2>1. VaultTypes' /\ troubles' = troubles + 1
    BY <1>6 DEF FileFails, VaultTypes, Trouble
  <2> QED
    BY <1>6, <2>1, FileGivenUp DEF FileFails
<1>7. CASE Copied
  <2>1. VaultTypes'
    BY <1>7 DEF Copied, VaultTypes
  <2>2. \A c \in Contents : ~InDraft(c) /\ ~InDraft(c)'
    BY <1>7 DEF Copied, InDraft
  <2>3. StoreBalanced' /\ DraftBalanced'
    BY <1>7, <2>2 DEF Copied, StoreBalanced, DraftBalanced, Marks
  <2>4. \A c \in Contents : disk[c] # "absent" => disk'[c] # "absent"
    BY <1>7 DEF Copied, VaultTypes
  <2>5. OnDisk' /\ UnderWay'
    BY <1>7, <2>4 DEF Copied, OnDisk, UnderWay, HaveSeen
  <2> QED
    BY <1>7, <2>1, <2>3, <2>5 DEF Copied
<1>8. CASE Insert
  <2> DEFINE c0 == current.content
  <2>1. VaultTypes' /\ c0 \in Contents
    BY <1>8 DEF Insert, VaultTypes, Versions, UnderWay
  <2>2. draft.captures[c0] = 0 /\ draft'.captures[c0] = 1 /\ disk[c0] # "absent"
    BY <1>8 DEF Insert, VaultTypes, Versions, UnderWay
  <2>3. \A c \in Contents : Marks(draft, c)' = Marks(draft, c) /\ ~InDraft(c)
    BY <1>8 DEF Insert, Marks, InDraft
  <2>4. DraftBalanced'
    <3> SUFFICES ASSUME NEW c \in Contents
                 PROVE  \E lost \in 0..troubles :
                          draft'.captures[c] = Cardinality(Marks(draft, c)) + lost
                                               + (IF InDraft(c)' THEN 1 ELSE 0)
      BY <1>8, <2>3 DEF DraftBalanced, Insert
    <3>1. PICK lost \in 0..troubles :
            draft.captures[c] = Cardinality(Marks(draft, c)) + lost + 0
      BY <2>3 DEF DraftBalanced
    <3>2. Cardinality(Marks(draft, c)) \in Nat /\ lost \in Nat
      BY MarksFinite DEF VaultTypes
    <3>3. CASE c = c0
      <4>1. InDraft(c)' /\ Cardinality(Marks(draft, c)) = 0 /\ lost = 0
        BY <1>8, <2>2, <3>1, <3>2, <3>3 DEF InDraft, Insert
      <4> QED
        BY <2>2, <3>3, <4>1
    <3>4. CASE c # c0
      <4>1. ~InDraft(c)' /\ draft'.captures[c] = draft.captures[c]
        BY <1>8, <3>4 DEF InDraft, Insert, VaultTypes, Versions
      <4> QED
        BY <3>1, <4>1
    <3> QED
      BY <3>3, <3>4
  <2>5. StoreBalanced'
    BY <1>8 DEF Insert, StoreBalanced, Marks
  <2>6. OnDisk'
    BY <1>8, <2>2 DEF Insert, OnDisk, VaultTypes, Versions
  <2>7. UnderWay'
    BY <1>8 DEF Insert, UnderWay, HaveSeen
  <2> QED
    BY <1>8, <2>1, <2>4, <2>5, <2>6, <2>7 DEF Insert
<1>9. CASE PublishOnce
  <2>1. VaultTypes' /\ 0..troubles \subseteq 0..troubles'
    BY <1>9 DEF PublishOnce, VaultTypes, Trouble
  <2>2. \A c \in Contents : InDraft(c)' = InDraft(c)
    BY <1>9 DEF PublishOnce, InDraft
  <2>3. StoreBalanced' /\ DraftBalanced'
    BY <1>9, <2>1, <2>2 DEF PublishOnce, StoreBalanced, DraftBalanced, Marks
  <2>4. OnDisk' /\ UnderWay'
    BY <1>9 DEF PublishOnce, OnDisk, UnderWay, HaveSeen
  <2> QED
    BY <1>9, <2>1, <2>3, <2>4 DEF PublishOnce
<1>10. CASE Bump
  <2> DEFINE c0 == current.content
  <2>1. c0 \in Contents /\ draft.captures[c0] > 0
    BY <1>10 DEF Bump, UnderWay
  <2>2. /\ draft' \in Versions /\ draft'.seen = draft.seen
        /\ draft'.captures = [draft.captures EXCEPT ![c0] = @ + 1]
    BY <1>10, <2>1 DEF Bump, Bumped, VaultTypes, Versions
  <2>3. VaultTypes'
    BY <1>10, <2>2 DEF Bump, VaultTypes
  <2>4. DraftBalanced'
    <3> SUFFICES ASSUME NEW c \in Contents
                 PROVE  \E lost \in 0..troubles :
                          draft'.captures[c] = Cardinality(Marks(draft, c)) + lost
                                               + (IF InDraft(c)' THEN 1 ELSE 0)
      BY <1>10, <2>2 DEF DraftBalanced, Bump, Marks
    <3>1. ~InDraft(c) /\ (InDraft(c)' <=> c = c0)
      BY <1>10 DEF InDraft, Bump
    <3>2. PICK lost \in 0..troubles :
            draft.captures[c] = Cardinality(Marks(draft, c)) + lost + 0
      BY <3>1 DEF DraftBalanced
    <3>3. Cardinality(Marks(draft, c)) \in Nat /\ lost \in Nat
      BY MarksFinite DEF VaultTypes
    <3>4. draft'.captures[c] = draft.captures[c] + (IF c = c0 THEN 1 ELSE 0)
      BY <2>2 DEF VaultTypes, Versions
    <3> QED
      BY <3>1, <3>2, <3>3, <3>4
  <2>5. StoreBalanced'
    BY <1>10 DEF Bump, StoreBalanced, Marks
  <2>6. OnDisk'
    BY <1>10, <2>1, <2>2 DEF Bump, OnDisk, VaultTypes, Versions
  <2>7. UnderWay'
    BY <1>10, <2>2 DEF Bump, UnderWay, HaveSeen
  <2> QED
    BY <1>10, <2>3, <2>4, <2>5, <2>6, <2>7 DEF Bump
<1>11. CASE MarkSeen
  <2> DEFINE c0 == current.content
  <2>1. /\ c0 \in Contents /\ current.file \in Files
        /\ \A p \in draft.seen : p[1] # current.file
    BY <1>11 DEF MarkSeen, UnderWay, HaveSeen
  <2>2. /\ draft' \in Versions /\ draft'.captures = draft.captures
        /\ draft'.seen = draft.seen \cup {<<current.file, c0>>}
    BY <1>11, <2>1 DEF MarkSeen, VaultTypes, Versions
  <2>3. /\ IsFiniteSet(draft'.seen)
        /\ \A c \in Contents : Cardinality(Marks(draft', c)) =
                                 Cardinality(Marks(draft, c)) + (IF c = c0 THEN 1 ELSE 0)
    <3>1. draft \in Versions /\ IsFiniteSet(draft.seen)
      BY DEF VaultTypes
    <3>2. \A c \in Contents :
            /\ IsFiniteSet(draft'.seen)
            /\ Cardinality(Marks(draft', c)) =
                 Cardinality(Marks(draft, c)) + (IF c = c0 THEN 1 ELSE 0)
      <4>1. NewMark(draft, draft', current.file, c0)
        BY <2>1, <2>2, <3>1 DEF NewMark
      <4> QED
        BY <4>1, OneMoreMark
    <3> QED
      BY <2>1, <3>2
  <2>4. VaultTypes'
    BY <1>11, <2>2, <2>3 DEF MarkSeen, VaultTypes
  <2>5. DraftBalanced'
    <3> SUFFICES ASSUME NEW c \in Contents
                 PROVE  \E lost \in 0..troubles :
                          draft'.captures[c] = Cardinality(Marks(draft', c)) + lost + 0
      BY <1>11 DEF DraftBalanced, MarkSeen, InDraft, Marks
    <3>1. InDraft(c) <=> c = c0
      BY <1>11 DEF InDraft, MarkSeen
    <3>2. PICK lost \in 0..troubles :
            draft.captures[c] = Cardinality(Marks(draft, c)) + lost + (IF InDraft(c) THEN 1 ELSE 0)
      BY DEF DraftBalanced
    <3>3. Cardinality(Marks(draft, c)) \in Nat /\ lost \in Nat
      BY MarksFinite DEF VaultTypes
    <3> QED
      BY <2>2, <2>3, <3>1, <3>2, <3>3
  <2>6. StoreBalanced'
    BY <1>11 DEF MarkSeen, StoreBalanced, Marks
  <2>7. OnDisk' /\ UnderWay'
    BY <1>11, <2>2 DEF MarkSeen, OnDisk, UnderWay
  <2> QED
    BY <1>11, <2>4, <2>5, <2>6, <2>7 DEF MarkSeen
<1>12. CASE CommitVisit
  <2>1. VaultTypes'
    BY <1>12 DEF CommitVisit, VaultTypes
  <2>2. \A c \in Contents : ~InDraft(c)
    BY <1>12 DEF CommitVisit, InDraft
  <2>3. \A c \in Contents : \E lost \in 0..troubles :
          draft.captures[c] = Cardinality(Marks(draft, c)) + lost
    <3> SUFFICES ASSUME NEW c \in Contents
                 PROVE  \E lost \in 0..troubles :
                          draft.captures[c] = Cardinality(Marks(draft, c)) + lost
      OBVIOUS
    <3>1. PICK lost \in 0..troubles :
            draft.captures[c] = Cardinality(Marks(draft, c)) + lost + 0
      BY <2>2 DEF DraftBalanced
    <3>2. Cardinality(Marks(draft, c)) \in Nat
      BY MarksFinite DEF VaultTypes
    <3> QED
      BY <3>1, <3>2
  <2>5. StoreBalanced' /\ DraftBalanced'
    <3>1. StoreBalanced'
      BY <1>12, <2>3 DEF CommitVisit, StoreBalanced, Marks
    <3>2. DraftBalanced'
      BY <1>12 DEF CommitVisit, DraftBalanced, Marks, InDraft
    <3> QED
      BY <3>1, <3>2
  <2>4. OnDisk' /\ UnderWay'
    BY <1>12 DEF CommitVisit, OnDisk, UnderWay
  <2> QED
    BY <1>12, <2>1, <2>4, <2>5 DEF CommitVisit
<1>13. CASE VisitEnds
  <2>1. VaultTypes' /\ troubles' = troubles + 1
    BY <1>13 DEF VisitEnds, VaultTypes, Trouble
  <2> QED
    BY <1>13, <2>1, FileGivenUp DEF VisitEnds
<1>14. CASE UNCHANGED vaultVars
  <2>1. VaultTypes' /\ troubles' >= troubles
    BY <1>14 DEF vaultVars, VaultTypes
  <2> QED
    BY <1>14, <2>1, NothingCounted DEF vaultVars
<1> QED
  BY <1>1, <1>2, <1>3, <1>4, <1>5, <1>6, <1>7, <1>8, <1>9, <1>10, <1>11, <1>12, <1>13, <1>14
     DEF VaultNext

(* A file that will never be fetched again is kept: for every mark the        *)
(* content's row and its file are there, and capture_count is the number of   *)
(* marks but for the failures, whichever transactions were rolled back        *)
(* (Vault._process_sensor, _process_file).                                    *)
THEOREM MarkMeansKept == VaultSpec => []MarkedIsKept
<1>1. VaultInv => MarkedIsKept
  <2> SUFFICES ASSUME VaultInv, NEW c \in Contents
               PROVE  /\ Marks(store, c) # {} => disk[c] # "absent" /\ store.captures[c] > 0
                      /\ store.captures[c] - Cardinality(Marks(store, c)) \in 0..troubles
    BY DEF MarkedIsKept, MarksOf, Marks
  <2>1. PICK lost \in 0..troubles : store.captures[c] = Cardinality(Marks(store, c)) + lost
    BY DEF VaultInv, StoreBalanced
  <2>2. IsFiniteSet(Marks(store, c)) /\ Cardinality(Marks(store, c)) \in Nat /\ lost \in Nat
    BY MarksFinite DEF VaultInv, VaultTypes
  <2>3. Marks(store, c) # {} => Cardinality(Marks(store, c)) # 0
    BY <2>2, FS_EmptySet
  <2>4. store.captures[c] > 0 => disk[c] # "absent"
    BY DEF VaultInv, OnDisk
  <2> QED
    BY <2>1, <2>2, <2>3, <2>4
<1> QED
  BY <1>1, VaultInvInit, VaultInvStep, PTL DEF VaultSpec

--------------------------------------------------------------------------------
(* What is proved of the refresh of the blocklists: when the times fit, the   *)
(* list of a provider that answers is never too old to be used, whichever     *)
(* providers never do.  A list that is due is at most Most old when it is     *)
(* tried, counting the wait until then, and every slip costs one retry more.  *)
Most == IF Broken = {} THEN 2 * RefreshEvery ELSE RefreshEvery - 1 + 2 * RetryAfter
RefreshFits == Most + MaxSlips * RetryAfter <= MaxAge

(* A list outside the next attempt is young, or, when no provider is broken,  *)
(* becomes due with that attempt.                                             *)
OnTime(s) ==
  IF s \in pending THEN age[s] + wait <= Most + slips * RetryAfter
  ELSE IF Broken = {}
       THEN \/ age[s] + wait <= slips * RetryAfter
            \/ /\ RefreshEvery <= age[s] + wait
               /\ age[s] + wait <= RefreshEvery + slips * RetryAfter
       ELSE age[s] + wait <= RefreshEvery - 1 + RetryAfter
RefreshTypes ==
  /\ age \in [Sources -> 0..Unknown] /\ held \subseteq Sources /\ pending \subseteq Sources
  /\ wait \in Nat /\ slips \in 0..MaxSlips
RefreshInv ==
  /\ RefreshTypes
  /\ loop # "refresh" => wait > 0
  /\ Broken \subseteq pending
  /\ Broken # {} => wait <= RetryAfter
  /\ \A s \in held \ Broken : OnTime(s)
  /\ AnsweringListsUsable

LEMMA Products ==
  ASSUME NEW n \in Nat, NEW m \in Nat, NEW k \in Nat
  PROVE  /\ n * k \in Nat /\ (n + 1) * k = n * k + k
         /\ n <= m => n * k <= m * k
<1>1. n * k \in Nat /\ (n + 1) * k = n * k + k
  OBVIOUS
<1>2. ASSUME n <= m PROVE n * k <= m * k
  <2>1. PICK d \in Nat : m = n + d
    BY <1>2
  <2>2. m * k = n * k + d * k /\ d * k \in Nat
    BY <2>1
  <2> QED
    BY <1>1, <2>2
<1> QED
  BY <1>1, <1>2

LEMMA RefreshInvInit == BlocklistInit => RefreshInv
BY RefreshAssumption DEF BlocklistInit, RefreshInv, RefreshTypes, AnsweringListsUsable,
                         Unknown, TooOld

(* What an attempt does to the age of a list the process holds afterwards:    *)
(* answered or left aside, it is on time for the attempt it is due at.        *)
LEMMA AttemptOnTime ==
  ASSUME RefreshInv, NEW answering \in SUBSET (pending \ Broken), NEW atOnce \in SUBSET Sources,
         Refresh(answering, atOnce), NEW s \in held' \ Broken
  PROVE  OnTime(s)'
<1> DEFINE failed == pending \ answering
           Late == slips * RetryAfter
           Later == slips' * RetryAfter
<1>1. /\ loop = "refresh" /\ wait = 0 /\ slips' <= MaxSlips
      /\ slips' = slips + (IF failed \subseteq Broken THEN 0 ELSE 1)
      /\ age' = [t \in Sources |-> IF t \in answering THEN 0 ELSE age[t]]
      /\ held' = held \cup answering /\ pending' = Due(failed, atOnce)
      /\ wait' = (IF failed = {} THEN RefreshEvery ELSE RetryAfter)
  BY DEF Refresh
<1>2. /\ RefreshEvery \in Nat \ {0} /\ RetryAfter \in Nat \ {0} /\ RetryAfter <= RefreshEvery
      /\ s \in Sources /\ age[s] \in Nat /\ slips \in Nat
  BY <1>1, RefreshAssumption DEF RefreshInv, RefreshTypes, Unknown, TooOld
<1>3. /\ Late \in Nat /\ Later \in Nat
      /\ failed \subseteq Broken => Later = Late
      /\ ~(failed \subseteq Broken) => Later = Late + RetryAfter
  <2>1. slips' = slips \/ slips' = slips + 1
    BY <1>1, <1>2
  <2> QED
    BY <1>1, <1>2, <2>1, Products
<1>4. Broken # {} => failed # {} /\ wait' = RetryAfter
  BY <1>1 DEF RefreshInv
<1>5. Broken = {} /\ failed # {} => ~(failed \subseteq Broken)
  OBVIOUS
<1>6. s \in failed => ~(failed \subseteq Broken)
  OBVIOUS
<1>7. s \notin pending' => s \notin failed /\ age'[s] < RefreshEvery
  BY <1>1, <1>2 DEF Due
<1>8. Most = IF Broken = {} THEN 2 * RefreshEvery ELSE RefreshEvery - 1 + 2 * RetryAfter
  BY DEF Most
<1>9. s \notin answering =>
        /\ age'[s] = age[s]
        /\ s \in pending => s \in failed /\ age[s] <= Most + Late
        /\ s \notin pending /\ Broken = {} =>
             \/ age[s] <= Late
             \/ RefreshEvery <= age[s] /\ age[s] <= RefreshEvery + Late
        /\ s \notin pending /\ Broken # {} => age[s] <= RefreshEvery - 1 + RetryAfter
  BY <1>1, <1>2 DEF RefreshInv, OnTime
<1>10. s \in answering => age'[s] = 0
  BY <1>1, <1>2
<1>11. wait' = RefreshEvery \/ wait' = RetryAfter
  BY <1>1
<1>12. failed # {} => wait' = RetryAfter
  BY <1>1
<1>13. failed = {} => wait' = RefreshEvery
  BY <1>1
<1> HIDE DEF failed, Late, Later
<1>14. CASE s \in pending'
  <2>1. age'[s] + wait' <= Most + Later
    <3>1. CASE s \in answering
      BY <1>2, <1>3, <1>4, <1>8, <1>10, <1>11, <3>1
    <3>2. CASE s \notin answering /\ s \in pending
      BY <1>2, <1>3, <1>6, <1>8, <1>9, <1>12, <3>2
    <3>3. CASE s \notin answering /\ s \notin pending /\ Broken = {}
      BY <1>2, <1>3, <1>5, <1>8, <1>9, <1>12, <1>13, <3>3
    <3>4. CASE s \notin answering /\ s \notin pending /\ Broken # {}
      BY <1>2, <1>3, <1>4, <1>8, <1>9, <3>4
    <3> QED
      BY <3>1, <3>2, <3>3, <3>4
  <2> QED
    BY <1>14, <2>1 DEF OnTime, Most, Later
<1>15. CASE s \notin pending' /\ Broken = {}
  <2>1. \/ age'[s] + wait' <= Later
        \/ RefreshEvery <= age'[s] + wait' /\ age'[s] + wait' <= RefreshEvery + Later
    <3>1. age'[s] <= Late /\ age'[s] \in Nat
      BY <1>2, <1>3, <1>7, <1>9, <1>10, <1>15
    <3>2. CASE failed = {}
      BY <1>2, <1>3, <1>13, <3>1, <3>2
    <3>3. CASE failed # {}
      BY <1>2, <1>3, <1>5, <1>12, <1>15, <3>1, <3>3
    <3> QED
      BY <3>2, <3>3
  <2> QED
    BY <1>15, <2>1 DEF OnTime, Later
<1>16. CASE s \notin pending' /\ Broken # {}
  <2>1. age'[s] + wait' <= RefreshEvery - 1 + RetryAfter
    BY <1>2, <1>4, <1>7, <1>9, <1>10, <1>16
  <2> QED
    BY <1>16, <2>1 DEF OnTime
<1> QED
  BY <1>14, <1>15, <1>16

LEMMA RefreshTypesStep == RefreshInv /\ [BlocklistNext]_blocklistVars => RefreshTypes'
<1> SUFFICES ASSUME RefreshInv, [BlocklistNext]_blocklistVars PROVE RefreshTypes'
  OBVIOUS
<1> USE RefreshAssumption DEF RefreshInv, RefreshTypes
<1>1. ASSUME NEW answering \in SUBSET (pending \ Broken), NEW atOnce \in SUBSET Sources,
             Refresh(answering, atOnce)
      PROVE  RefreshTypes'
  <2>1. slips' \in Nat /\ slips' <= MaxSlips
    BY <1>1 DEF Refresh
  <2>2. age' \in [Sources -> 0..Unknown]
    BY <1>1 DEF Refresh, Unknown, TooOld
  <2>3. pending' \subseteq Sources /\ held' \subseteq Sources /\ wait' \in Nat
    BY <1>1 DEF Refresh, Due
  <2> QED
    BY <2>1, <2>2, <2>3
<1>2. CASE NotYet \/ Match
  BY <1>2 DEF NotYet, Match
<1>3. CASE Sleep
  <2>1. \A s \in Sources : (IF age[s] = Unknown THEN Unknown ELSE Older(age[s])) \in 0..Unknown
    BY DEF Older, Unknown, TooOld
  <2>2. wait' \in Nat
    BY <1>3 DEF Sleep
  <2> QED
    BY <1>3, <2>1, <2>2 DEF Sleep
<1>4. CASE RefreshRestarts
  BY <1>4 DEF RefreshRestarts
<1>5. CASE UNCHANGED blocklistVars
  BY <1>5 DEF blocklistVars
<1> QED
  BY <1>1, <1>2, <1>3, <1>4, <1>5 DEF BlocklistNext

(* On time means young enough to be used, when the times fit.                 *)
LEMMA YoungEnough ==
  ASSUME RefreshFits, RefreshInv, NEW s \in held \ Broken
  PROVE  age[s] <= MaxAge
<1> DEFINE Late == slips * RetryAfter
           Latest == MaxSlips * RetryAfter
<1>0. /\ {RefreshEvery, RetryAfter, MaxAge} \subseteq Nat \ {0} /\ MaxSlips \in Nat
      /\ RetryAfter <= RefreshEvery
  BY RefreshAssumption
<1>1. Late \in Nat /\ Latest \in Nat /\ Late <= Latest
  BY <1>0, Products DEF RefreshInv, RefreshTypes
<1>2. /\ age[s] \in Nat /\ wait \in Nat
      /\ Most = IF Broken = {} THEN 2 * RefreshEvery ELSE RefreshEvery - 1 + 2 * RetryAfter
  BY DEF RefreshInv, RefreshTypes, Most
<1>3. \/ age[s] + wait <= Most + Late
      \/ Broken = {} /\ age[s] + wait <= Late
      \/ Broken = {} /\ age[s] + wait <= RefreshEvery + Late
      \/ Broken # {} /\ age[s] + wait <= RefreshEvery - 1 + RetryAfter
  BY DEF RefreshInv, OnTime
<1>4. Most + Latest <= MaxAge
  BY DEF RefreshFits
<1> HIDE DEF Late, Latest
<1> QED
  BY <1>0, <1>1, <1>2, <1>3, <1>4

LEMMA RefreshInvStep ==
  ASSUME RefreshFits
  PROVE  RefreshInv /\ [BlocklistNext]_blocklistVars => RefreshInv'
<1> SUFFICES ASSUME RefreshInv, [BlocklistNext]_blocklistVars PROVE RefreshInv'
  OBVIOUS
<1>t. RefreshTypes'
  BY RefreshTypesStep
<1>n. /\ {RefreshEvery, RetryAfter, MaxAge} \subseteq Nat \ {0} /\ MaxSlips \in Nat
      /\ RetryAfter <= RefreshEvery
  BY RefreshAssumption
<1>1. ASSUME NEW answering \in SUBSET (pending \ Broken), NEW atOnce \in SUBSET Sources,
             Refresh(answering, atOnce)
      PROVE  RefreshInv'
  <2>1. \A s \in held' \ Broken : OnTime(s)'
    BY <1>1, AttemptOnTime
  <2>2. loop' = "cycle" /\ wait' > 0
    BY <1>1, <1>n DEF Refresh
  <2>3. Broken \subseteq pending \ answering
    BY <1>1 DEF RefreshInv
  <2>4. Broken \subseteq pending' /\ (Broken # {} => wait' <= RetryAfter)
    BY <1>1, <1>n, <2>3 DEF Refresh, Due
  <2> QED
    BY <1>t, <2>1, <2>2, <2>4 DEF RefreshInv, AnsweringListsUsable
<1>2. CASE NotYet
  <2>1. \A s : OnTime(s)' = OnTime(s)
    BY <1>2 DEF NotYet, OnTime
  <2> QED
    BY <1>2, <1>t, <2>1 DEF NotYet, RefreshInv, AnsweringListsUsable
<1>3. CASE Match
  <2>1. \A s : OnTime(s)' = OnTime(s)
    BY <1>3 DEF Match, OnTime
  <2>2. ASSUME NEW s \in held \ Broken PROVE age[s] <= MaxAge
    BY <2>2, YoungEnough
  <2>3. held \ Broken \subseteq used'
    BY <1>3, <2>2 DEF Match, Usable
  <2> QED
    BY <1>3, <1>t, <2>1, <2>3 DEF Match, RefreshInv, AnsweringListsUsable
<1>4. CASE Sleep
  <2>1. /\ loop = "sleep" /\ loop' = "refresh" /\ UNCHANGED <<held, pending, slips>>
        /\ age' = [s \in Sources |-> IF age[s] = Unknown THEN Unknown ELSE Older(age[s])]
        /\ wait \in Nat /\ wait > 0 /\ wait' = wait - 1
    BY <1>4 DEF Sleep, RefreshInv, RefreshTypes
  <2>2. ASSUME NEW s \in held \ Broken PROVE age'[s] + wait' = age[s] + wait
    <3>1. s \in used /\ s \in Sources
      BY <2>1 DEF RefreshInv, RefreshTypes, AnsweringListsUsable
    <3>2. CASE age[s] <= MaxAge
      BY <1>n, <2>1, <3>1, <3>2 DEF Older, Unknown, TooOld, RefreshInv, RefreshTypes
    <3>3. age[s] <= MaxAge
      BY <2>2, YoungEnough
    <3> QED
      BY <3>2, <3>3
  <2>3. \A s \in held \ Broken : OnTime(s)'
    BY <2>1, <2>2 DEF RefreshInv, OnTime
  <2> QED
    BY <1>n, <1>t, <2>1, <2>3 DEF RefreshInv, AnsweringListsUsable
<1>5. CASE RefreshRestarts
  BY <1>5, <1>t, <1>n DEF RefreshRestarts, RefreshInv, AnsweringListsUsable, RefreshTypes
<1>6. CASE UNCHANGED blocklistVars
  BY <1>6, <1>t DEF blocklistVars, RefreshInv, AnsweringListsUsable, OnTime
<1> QED
  BY <1>1, <1>2, <1>3, <1>4, <1>5, <1>6 DEF BlocklistNext

(* A provider that never answers costs the lane nothing but its own list: as  *)
(* long as two refreshes and the retries of MaxSlips failures fit into the    *)
(* age at which a list is dropped (72 hours against 24 and some minutes, by   *)
(* default), every cycle can use every other list the process holds           *)
(* (sources_due, main).                                                       *)
THEOREM OneDeadListIsAlone ==
  ASSUME RefreshFits
  PROVE  BlocklistSpec => []AnsweringListsUsable
<1>1. RefreshInv => AnsweringListsUsable
  BY DEF RefreshInv
<1> QED
  BY <1>1, RefreshInvInit, RefreshInvStep, PTL DEF BlocklistSpec

--------------------------------------------------------------------------------
(* What is proved of the credential sidecar, for any documents, clock, pauses *)
(* and failures: the counters hold every document of the windows recorded     *)
(* once.  While a window is open the transaction holds those and the          *)
(* documents of it read so far.                                               *)
Cursor == IF lastRun = NeverRan THEN 0 ELSE lastRun
RecordedDocuments == {d \in Documents : logged[d] \in Within(0, Cursor) \ blind}
OfCredential(c, D) == {d \in D : CredentialOf[d] = c}
SourcesIn(D) == {SourceOf[d] : d \in D}
PairsIn(D) == {<<CredentialOf[d], SourceOf[d]>> : d \in {e \in D : CredentialOf[e] # Unparsed}}
RowTypes(t) == t.attempts \in [Credentials -> Nat] /\ t.unique \in [Credentials -> Nat]
Holds(t, D) ==
  /\ t.sources = PairsIn(D)
  /\ \A c \in Credentials :
       /\ t.attempts[c] = Cardinality(OfCredential(c, D))
       /\ t.unique[c] = Cardinality(SourcesIn(OfCredential(c, D)))

CredentialTypes ==
  /\ instant \in Nat
  /\ logged \in [Documents -> {Unlogged} \cup 0..instant]
  /\ lastRun \in {NeverRan} \cup 0..instant
  /\ blind \subseteq Nat /\ \A b \in blind : b < WholeSecond(Cursor)
  /\ RowTypes(tables) /\ RowTypes(work)
WindowOpen ==
  window # NoWindow =>
    /\ window.from \in Int /\ window.to \in 0..instant /\ window.from < window.to
    /\ lastRun # NeverRan => window.from = lastRun
    /\ unread \subseteq Matching(window)
    /\ Holds(work, RecordedDocuments \cup (Matching(window) \ unread))
CredentialInv == CredentialTypes /\ WindowOpen /\ Holds(tables, RecordedDocuments)

LEMMA WholeSeconds ==
  ASSUME NEW a \in Int, NEW b \in Int
  PROVE  /\ WholeSecond(a) \in Int /\ WholeSecond(a) <= a
         /\ a <= b => WholeSecond(a) <= WholeSecond(b)
         /\ WholeSecond(0) = 0
<1>1. PerSecond \in Nat \ {0}
  BY CredentialAssumption
<1>2. /\ a % PerSecond \in 0..PerSecond - 1 /\ b % PerSecond \in 0..PerSecond - 1
      /\ a = PerSecond * (a \div PerSecond) + (a % PerSecond)
      /\ b = PerSecond * (b \div PerSecond) + (b % PerSecond)
      /\ a \div PerSecond \in Int /\ b \div PerSecond \in Int
  BY <1>1
<1>3. 0 % PerSecond = 0
  BY <1>1
<1>4. ASSUME a <= b PROVE a - (a % PerSecond) <= b - (b % PerSecond)
  <2> DEFINE p == a \div PerSecond
             q == b \div PerSecond
             r == a % PerSecond
             s == b % PerSecond
  <2>1. /\ p \in Int /\ q \in Int /\ PerSecond * p \in Int /\ PerSecond * q \in Int
        /\ r \in 0..PerSecond - 1 /\ s \in 0..PerSecond - 1
        /\ a = PerSecond * p + r /\ b = PerSecond * q + s
    BY <1>1, <1>2
  <2> HIDE DEF p, q, r, s
  <2>2. PerSecond * p < PerSecond * q + PerSecond
    BY <1>1, <1>4, <2>1
  <2>3. p < q + 1
    BY <1>1, <2>1, <2>2
  <2>4. PICK d \in Nat : q = p + d
    BY <2>1, <2>3
  <2>5. PerSecond * q = PerSecond * p + PerSecond * d /\ PerSecond * d >= 0
    BY <1>1, <2>1, <2>4
  <2>6. a - r <= b - s
    BY <1>1, <2>1, <2>5
  <2> QED
    BY <2>6 DEF r, s
<1> QED
  BY <1>1, <1>2, <1>3, <1>4 DEF WholeSecond

LEMMA ImageFinite ==
  ASSUME NEW D \in SUBSET Documents
  PROVE  /\ IsFiniteSet(D) /\ Cardinality(D) \in Nat
         /\ IsFiniteSet(SourcesIn(D)) /\ Cardinality(SourcesIn(D)) \in Nat
<1> DEFINE f == [d \in D |-> SourceOf[d]]
<1>1. IsFiniteSet(D)
  BY CredentialAssumption, FS_Subset
<1>2. f \in Surjection(D, SourcesIn(D))
  BY Fun_IsSurj DEF SourcesIn
<1>3. IsFiniteSet(SourcesIn(D))
  BY <1>1, <1>2, FS_Surjection
<1> QED
  BY <1>1, <1>3, FS_CardinalityType

(* Folding a document adds it to what the tables hold (upsert_credential).    *)
LEMMA FoldHolds ==
  ASSUME NEW t, NEW D \in SUBSET Documents, NEW d \in Documents \ D, RowTypes(t), Holds(t, D)
  PROVE  RowTypes(Folded(t, d)) /\ Holds(Folded(t, d), D \cup {d})
<1> DEFINE c == CredentialOf[d]
           pair == <<c, SourceOf[d]>>
           E == D \cup {d}
<1>1. CASE c = Unparsed
  <2>1. PairsIn(E) = PairsIn(D)
    BY <1>1 DEF PairsIn
  <2>2. \A k \in Credentials : OfCredential(k, E) = OfCredential(k, D)
    BY <1>1 DEF OfCredential, Credentials
  <2> QED
    BY <1>1, <2>1, <2>2 DEF Folded, Holds
<1>2. CASE c # Unparsed
  <2>1. c \in Credentials
    BY <1>2 DEF Credentials
  <2>2. Folded(t, d) =
          [attempts |-> [t.attempts EXCEPT ![c] = @ + 1],
           unique   |-> [t.unique EXCEPT ![c] = IF pair \in t.sources THEN @ ELSE @ + 1],
           sources  |-> t.sources \cup {pair}]
    BY <1>2 DEF Folded, Upsert
  <2>3. PairsIn(E) = PairsIn(D) \cup {pair}
    BY <1>2 DEF PairsIn
  <2>4. \A k \in Credentials : k # c => OfCredential(k, E) = OfCredential(k, D)
    BY DEF OfCredential
  <2>5. OfCredential(c, E) = OfCredential(c, D) \cup {d} /\ d \notin OfCredential(c, D)
    BY DEF OfCredential
  <2>6. SourcesIn(OfCredential(c, E)) = SourcesIn(OfCredential(c, D)) \cup {SourceOf[d]}
    BY <2>5 DEF SourcesIn
  <2>7. pair \in t.sources <=> SourceOf[d] \in SourcesIn(OfCredential(c, D))
    <3>1. t.sources = PairsIn(D)
      BY DEF Holds
    <3> QED
      BY <1>2, <3>1 DEF PairsIn, SourcesIn, OfCredential
  <2>8. /\ IsFiniteSet(OfCredential(c, D)) /\ Cardinality(OfCredential(c, D)) \in Nat
        /\ IsFiniteSet(SourcesIn(OfCredential(c, D)))
        /\ Cardinality(SourcesIn(OfCredential(c, D))) \in Nat
    BY ImageFinite DEF OfCredential
  <2>9. Cardinality(OfCredential(c, E)) = Cardinality(OfCredential(c, D)) + 1
    BY <2>5, <2>8, FS_AddElement
  <2>10. Cardinality(SourcesIn(OfCredential(c, E)))
           = Cardinality(SourcesIn(OfCredential(c, D)))
               + (IF pair \in t.sources THEN 0 ELSE 1)
    <3>1. CASE pair \in t.sources
      <4>1. SourcesIn(OfCredential(c, E)) = SourcesIn(OfCredential(c, D))
        BY <2>6, <2>7, <3>1
      <4> QED
        BY <2>8, <3>1, <4>1
    <3>2. CASE pair \notin t.sources
      BY <2>6, <2>7, <2>8, <3>2, FS_AddElement
    <3> QED
      BY <3>1, <3>2
  <2> DEFINE u == Folded(t, d)
  <2>11. /\ u.attempts = [t.attempts EXCEPT ![c] = @ + 1]
         /\ u.unique = [t.unique EXCEPT ![c] = IF pair \in t.sources THEN @ ELSE @ + 1]
         /\ u.sources = t.sources \cup {pair}
    BY <2>2
  <2> HIDE DEF u, c, pair, E
  <2>12. RowTypes(u)
    BY <2>1, <2>11 DEF RowTypes
  <2>13. ASSUME NEW k \in Credentials
         PROVE  /\ u.attempts[k] = Cardinality(OfCredential(k, E))
                /\ u.unique[k] = Cardinality(SourcesIn(OfCredential(k, E)))
    <3>1. /\ t.attempts[k] = Cardinality(OfCredential(k, D))
          /\ t.unique[k] = Cardinality(SourcesIn(OfCredential(k, D)))
          /\ t.attempts[k] \in Nat /\ t.unique[k] \in Nat
      BY DEF Holds, RowTypes
    <3>2. CASE k = c
      <4>1. u.attempts[k] = t.attempts[k] + 1
        BY <2>1, <2>11, <3>2 DEF RowTypes
      <4>2. u.unique[k] = IF pair \in t.sources THEN t.unique[k] ELSE t.unique[k] + 1
        BY <2>1, <2>11, <3>2 DEF RowTypes
      <4> QED
        BY <2>9, <2>10, <3>1, <3>2, <4>1, <4>2
    <3>3. CASE k # c
      <4>1. u.attempts[k] = t.attempts[k] /\ u.unique[k] = t.unique[k]
        BY <2>11, <3>3 DEF RowTypes
      <4> QED
        BY <2>4, <3>1, <3>3, <4>1
    <3> QED
      BY <3>2, <3>3
  <2>14. u.sources = PairsIn(E)
    BY <2>3, <2>11 DEF Holds
  <2> QED
    BY <2>12, <2>13, <2>14 DEF Holds, u, E
<1> QED
  BY <1>1, <1>2

(* The instants below the cursor are in the past, those of the window are not *)
(* among them.                                                                *)
LEMMA WindowBeyondCursor ==
  ASSUME CredentialInv
  PROVE  /\ Cursor \in 0..instant /\ WholeSecond(Cursor) <= instant
         /\ \A t \in Within(0, Cursor) : t \in Nat /\ t < instant
         /\ window # NoWindow =>
              /\ \A t \in Within(window.from, window.to) : t \in Nat /\ t < instant
              /\ Within(0, Cursor) \cap Within(window.from, window.to) = {}
<1>1. Cursor \in 0..instant /\ instant \in Nat
  BY DEF CredentialInv, CredentialTypes, Cursor, NeverRan
<1>2. WholeSecond(Cursor) \in Int /\ WholeSecond(Cursor) <= Cursor
  BY <1>1, WholeSeconds
<1>3. \A t \in Within(0, Cursor) : t \in Nat /\ t < WholeSecond(Cursor)
  BY DEF Within
<1>4. ASSUME window # NoWindow
      PROVE  /\ \A t \in Within(window.from, window.to) : t \in Nat /\ t < instant
             /\ Within(0, Cursor) \cap Within(window.from, window.to) = {}
  <2>1. window.from \in Int /\ window.to \in 0..instant
    BY <1>4 DEF CredentialInv, WindowOpen
  <2>2. WholeSecond(window.to) \in Int /\ WholeSecond(window.to) <= window.to
    BY <2>1, WholeSeconds
  <2>3. \A t \in Within(window.from, window.to) : t \in Nat /\ t < instant
    BY <1>1, <2>1, <2>2 DEF Within
  <2>4. CASE lastRun = NeverRan
    <3>1. Cursor = 0 /\ WholeSecond(0) = 0
      BY <2>4, WholeSeconds DEF Cursor
    <3>2. Within(0, Cursor) = {}
      BY <1>3, <3>1
    <3> QED
      BY <2>3, <3>2
  <2>5. CASE lastRun # NeverRan
    <3>1. window.from = Cursor
      BY <1>4, <2>5 DEF CredentialInv, WindowOpen, Cursor
    <3>2. \A t \in Within(window.from, window.to) : ~(t < WholeSecond(Cursor))
      BY <1>2, <3>1 DEF Within
    <3> QED
      BY <1>3, <2>3, <3>2
  <2> QED
    BY <2>4, <2>5
<1> QED
  BY <1>1, <1>2, <1>3, <1>4

LEMMA CredentialInvInit == CredentialInit => CredentialInv
<1> SUFFICES ASSUME CredentialInit PROVE CredentialInv
  OBVIOUS
<1>1. RecordedDocuments = {}
  <2>1. \A d \in Documents : logged[d] \notin Within(0, Cursor)
    BY DEF CredentialInit, Within, Unlogged
  <2> QED
    BY <2>1 DEF RecordedDocuments
<1>2. /\ PairsIn({}) = {} /\ SourcesIn({}) = {}
      /\ \A c : OfCredential(c, {}) = {}
  BY DEF PairsIn, SourcesIn, OfCredential
<1>3. Holds(NoRows, {}) /\ RowTypes(NoRows)
  BY <1>2, FS_EmptySet DEF Holds, RowTypes, NoRows
<1> QED
  BY <1>1, <1>3 DEF CredentialInit, CredentialInv, CredentialTypes, WindowOpen, Unlogged

(* A step that leaves the tables, the cursor and the window alone, and what   *)
(* is logged in their past.                                                   *)
LEMMA CredentialKept ==
  ASSUME CredentialInv, UNCHANGED <<tables, lastRun, window, unread, work, blind>>,
         instant' \in Nat, instant <= instant',
         logged' \in [Documents -> {Unlogged} \cup 0..instant'],
         \A d \in Documents : logged'[d] = logged[d]
                              \/ (logged[d] = Unlogged /\ logged'[d] = instant)
  PROVE  CredentialInv'
<1>1. \A t : t \in Within(0, Cursor) => t # Unlogged /\ t # instant
  BY WindowBeyondCursor DEF Unlogged, CredentialInv, CredentialTypes
<1>2. Cursor' = Cursor /\ RecordedDocuments' = RecordedDocuments
  BY <1>1 DEF RecordedDocuments, Cursor
<1>3. window # NoWindow => Matching(window)' = Matching(window)
  <2> SUFFICES ASSUME window # NoWindow PROVE Matching(window)' = Matching(window)
    OBVIOUS
  <2>1. \A t : t \in Within(window.from, window.to) => t # Unlogged /\ t # instant
    BY WindowBeyondCursor DEF Unlogged, CredentialInv, CredentialTypes
  <2> QED
    BY <2>1 DEF Matching
<1>4. CredentialTypes'
  BY <1>2 DEF CredentialInv, CredentialTypes
<1>6. WindowOpen'
  <2> SUFFICES ASSUME window # NoWindow PROVE WindowOpen'
    BY DEF WindowOpen
  <2>1. window.to \in 0..instant'
    BY DEF CredentialInv, CredentialTypes, WindowOpen
  <2> QED
    BY <1>2, <1>3, <2>1 DEF CredentialInv, WindowOpen, Holds
<1> QED
  BY <1>2, <1>4, <1>6 DEF CredentialInv, Holds

LEMMA ReadKept ==
  ASSUME CredentialInv, NEW d \in Documents, ReadDocument(d)
  PROVE  CredentialInv'
<1>1. /\ window # NoWindow /\ d \in unread /\ unread' = unread \ {d} /\ work' = Folded(work, d)
      /\ UNCHANGED <<instant, logged, tables, lastRun, window, blind>>
  BY DEF ReadDocument
<1> DEFINE D == RecordedDocuments \cup (Matching(window) \ unread)
<1>2. Cursor' = Cursor /\ RecordedDocuments' = RecordedDocuments
      /\ Matching(window)' = Matching(window)
  BY <1>1 DEF RecordedDocuments, Cursor, Matching
<1>3. d \in Matching(window) /\ Holds(work, D) /\ unread \subseteq Matching(window)
  BY <1>1 DEF CredentialInv, WindowOpen
<1>4. d \notin RecordedDocuments
  BY <1>1, <1>3, WindowBeyondCursor DEF Matching, RecordedDocuments
<1>5. D \in SUBSET Documents /\ d \in Documents \ D
  BY <1>1, <1>4 DEF Matching, RecordedDocuments
<1>6. RowTypes(work') /\ Holds(work', D \cup {d})
  BY <1>1, <1>3, <1>5, FoldHolds DEF CredentialInv, CredentialTypes
<1>7. D \cup {d} = RecordedDocuments \cup (Matching(window) \ unread')
  BY <1>1, <1>3
<1>8. WindowOpen'
  BY <1>1, <1>2, <1>6, <1>7 DEF CredentialInv, WindowOpen, Holds
<1>9. CredentialTypes' /\ Holds(tables, RecordedDocuments)'
  BY <1>1, <1>2, <1>6 DEF CredentialInv, CredentialTypes, RowTypes, Holds
<1> QED
  BY <1>8, <1>9 DEF CredentialInv

(* Committing moves the cursor to the instant the cycle ends: what it passes  *)
(* beyond the window is blind.                                                *)
LEMMA CommitKept == CredentialInv /\ Commit => CredentialInv'
<1> SUFFICES ASSUME CredentialInv, Commit PROVE CredentialInv'
  OBVIOUS
<1>1. /\ window # NoWindow /\ unread = {} /\ tables' = work /\ lastRun' = instant
      /\ blind' = blind \cup Within(window.to, instant)
                    \cup (IF lastRun = NeverRan THEN Within(0, window.from) ELSE {})
      /\ window' = NoWindow /\ UNCHANGED <<instant, logged, work>>
  BY DEF Commit
<1>2. /\ window.from \in Int /\ window.to \in 0..instant /\ window.from < window.to
      /\ lastRun # NeverRan => window.from = lastRun
      /\ Holds(work, RecordedDocuments \cup Matching(window))
      /\ instant \in Nat
  BY <1>1 DEF CredentialInv, CredentialTypes, WindowOpen
<1>3. Cursor' = instant
  BY <1>1, <1>2 DEF Cursor, NeverRan
<1>4. /\ WholeSecond(window.from) \in Int /\ WholeSecond(window.to) \in Int
      /\ WholeSecond(instant) \in Int /\ WholeSecond(0) = 0
      /\ WholeSecond(window.from) <= WholeSecond(window.to)
      /\ WholeSecond(window.to) <= WholeSecond(instant)
  BY <1>2, WholeSeconds
<1>5. Within(0, instant) \ Within(window.to, instant) = Within(0, window.to)
  BY <1>4 DEF Within
<1>6. ASSUME NEW d \in Documents
      PROVE  logged[d] \in Within(0, instant) \ blind'
               <=> d \in RecordedDocuments \/ d \in Matching(window)
  <2>1. CASE lastRun = NeverRan
    <3>1. Cursor = 0
      BY <2>1 DEF Cursor
    <3>2. RecordedDocuments = {} /\ blind \cap Within(0, instant) = {}
      BY <1>4, <3>1 DEF RecordedDocuments, Within, CredentialInv, CredentialTypes
    <3>3. blind' = blind \cup Within(window.to, instant) \cup Within(0, window.from)
      BY <1>1, <2>1
    <3>4. Within(0, window.to) \ Within(0, window.from) = Within(window.from, window.to)
          \/ window.from < 0
      BY <1>2, <1>4, WholeSeconds DEF Within
    <3>5. window.from < 0 => /\ Within(0, window.from) = {}
                             /\ Within(window.from, window.to) = Within(0, window.to)
      <4>1. WholeSecond(window.from) <= window.from
        BY <1>2, WholeSeconds
      <4> QED
        BY <1>2, <1>4, <4>1 DEF Within
    <3>6. Within(0, instant) \ blind' = Within(window.from, window.to)
      BY <1>5, <3>2, <3>3, <3>4, <3>5
    <3> QED
      BY <3>2, <3>6 DEF Matching
  <2>2. CASE lastRun # NeverRan
    <3>1. Cursor = window.from /\ blind' = blind \cup Within(window.to, instant)
      BY <1>1, <1>2, <2>2 DEF Cursor
    <3>2. \A b \in blind : b < WholeSecond(window.from)
      BY <3>1 DEF CredentialInv, CredentialTypes
    <3>3. blind \cap Within(window.from, window.to) = {}
      BY <1>4, <3>2 DEF Within
    <3>4. Within(0, window.to) = Within(0, window.from) \cup Within(window.from, window.to)
      <4>1. 0 <= window.from
        BY <1>2, <2>2 DEF CredentialInv, CredentialTypes, NeverRan
      <4>2. WholeSecond(0) <= WholeSecond(window.from)
        BY <1>2, <4>1, WholeSeconds
      <4> QED
        BY <1>4, <4>2 DEF Within
    <3>5. Within(0, instant) \ blind'
            = (Within(0, Cursor) \ blind) \cup Within(window.from, window.to)
      BY <1>5, <3>1, <3>3, <3>4
    <3> QED
      BY <3>5 DEF RecordedDocuments, Matching
  <2> QED
    BY <2>1, <2>2
<1>7. RecordedDocuments' = RecordedDocuments \cup Matching(window)
  BY <1>1, <1>3, <1>6 DEF RecordedDocuments, Within, WholeSecond, Matching
<1>8. Holds(tables, RecordedDocuments)'
  BY <1>1, <1>2, <1>7 DEF Holds
<1>9. blind' \subseteq Nat /\ \A b \in blind' : b < WholeSecond(instant)
  <2>1. \A b \in Within(window.to, instant) \cup Within(0, window.from) :
          b \in Nat /\ b < WholeSecond(instant)
    BY <1>4 DEF Within
  <2>2. \A b \in blind : b < WholeSecond(instant)
    <3>1. WholeSecond(Cursor) \in Int /\ WholeSecond(Cursor) <= WholeSecond(instant)
      BY <1>2, WindowBeyondCursor, WholeSeconds
    <3>2. \A b \in blind : b \in Nat /\ b < WholeSecond(Cursor)
      BY DEF CredentialInv, CredentialTypes
    <3> QED
      BY <1>4, <3>1, <3>2
  <2> QED
    BY <1>1, <2>1, <2>2 DEF CredentialInv, CredentialTypes
<1>10. CredentialTypes'
  BY <1>1, <1>2, <1>3, <1>9 DEF CredentialInv, CredentialTypes, WholeSecond, RowTypes
<1> QED
  BY <1>1, <1>8, <1>10 DEF CredentialInv, WindowOpen

LEMMA CredentialInvStep ==
  CredentialInv /\ [CredentialNext]_credentialVars => CredentialInv'
<1> SUFFICES ASSUME CredentialInv, [CredentialNext]_credentialVars PROVE CredentialInv'
  OBVIOUS
<1>1. ASSUME NEW d \in Documents, LogDocument(d) PROVE CredentialInv'
  <2>1. instant \in Nat /\ logged \in [Documents -> {Unlogged} \cup 0..instant]
    BY DEF CredentialInv, CredentialTypes
  <2>2. /\ logged' = [logged EXCEPT ![d] = instant] /\ logged[d] = Unlogged /\ instant' = instant
        /\ UNCHANGED <<tables, lastRun, window, unread, work, blind>>
    BY <1>1 DEF LogDocument
  <2>3. logged' \in [Documents -> {Unlogged} \cup 0..instant']
    BY <2>1, <2>2
  <2> QED
    BY <2>1, <2>2, <2>3, CredentialKept
<1>2. ASSUME NEW d \in Documents, ReadDocument(d) PROVE CredentialInv'
  BY <1>2, ReadKept
<1>3. CASE ClockTicks
  <2>1. instant \in Nat /\ logged \in [Documents -> {Unlogged} \cup 0..instant]
    BY DEF CredentialInv, CredentialTypes
  <2>2. instant' = instant + 1 /\ UNCHANGED <<logged, tables, lastRun, window, unread, work, blind>>
    BY <1>3 DEF ClockTicks
  <2>3. logged' \in [Documents -> {Unlogged} \cup 0..instant']
    BY <2>1, <2>2
  <2> QED
    BY <2>1, <2>2, <2>3, CredentialKept
<1>4. CASE OpenWindow
  <2>1. /\ UNCHANGED <<instant, logged, tables, lastRun, blind>>
        /\ unread' = Matching(window') /\ work' = tables
        /\ window' = [from |-> IF lastRun = NeverRan THEN instant - Pause ELSE lastRun,
                      to |-> instant]
        /\ (IF lastRun = NeverRan THEN instant - Pause ELSE lastRun) < instant
    BY <1>4 DEF OpenWindow
  <2>2. /\ instant \in Nat /\ lastRun \in {NeverRan} \cup 0..instant /\ Pause \in Nat
    BY CredentialAssumption DEF CredentialInv, CredentialTypes
  <2>3. Matching(window)' = Matching(window')
    BY <2>1 DEF Matching
  <2>4. Cursor' = Cursor /\ RecordedDocuments' = RecordedDocuments
    BY <2>1 DEF Cursor, RecordedDocuments
  <2>5. RecordedDocuments \cup (Matching(window)' \ unread') = RecordedDocuments
    BY <2>1, <2>3
  <2>6. window'.from \in Int /\ window'.to \in 0..instant /\ window'.from < window'.to
        /\ (lastRun # NeverRan => window'.from = lastRun)
    BY <2>1, <2>2 DEF NeverRan
  <2>7. Holds(work', RecordedDocuments \cup (Matching(window)' \ unread'))
    BY <2>1, <2>5 DEF CredentialInv
  <2>8. WindowOpen'
    BY <2>1, <2>3, <2>4, <2>6, <2>7 DEF WindowOpen, Holds
  <2> QED
    BY <2>1, <2>4, <2>8 DEF CredentialInv, CredentialTypes, Holds
<1>5. CASE Commit
  BY <1>5, CommitKept
<1>6. CASE CycleFails \/ SidecarRestarts
  <2>1. /\ UNCHANGED <<instant, logged, lastRun, blind>> /\ window' = NoWindow
        /\ tables' = tables /\ work' = tables
    BY <1>6 DEF CycleFails, SidecarRestarts, RolledBack
  <2>2. Cursor' = Cursor /\ RecordedDocuments' = RecordedDocuments
    BY <2>1 DEF Cursor, RecordedDocuments
  <2> QED
    BY <2>1, <2>2 DEF CredentialInv, CredentialTypes, WindowOpen, Holds
<1>7. CASE UNCHANGED credentialVars
  <2>1. instant \in Nat /\ logged \in [Documents -> {Unlogged} \cup 0..instant]
    BY DEF CredentialInv, CredentialTypes
  <2> QED
    BY <1>7, <2>1, CredentialKept DEF credentialVars
<1> QED
  BY <1>1, <1>2, <1>3, <1>4, <1>5, <1>6, <1>7 DEF CredentialNext

(* Over any failed cycles, rollbacks and restarts a credential's attempts are *)
(* the documents below the cursor that hold it, each counted once, and its    *)
(* sources the addresses that used it; what no window covers is exactly what  *)
(* the cursor, taken after the window's end, jumps over (run_cycle,           *)
(* CredentialsStore.last_run).                                                *)
THEOREM CredentialsCountedOnce == CredentialSpec => []CountedOnce
<1>1. CredentialInv => CountedOnce
  <2> SUFFICES ASSUME CredentialInv, NEW c \in Credentials
               PROVE  /\ tables.attempts[c] = Cardinality(Counted(c))
                      /\ tables.unique[c] = Cardinality({SourceOf[d] : d \in Counted(c)})
    BY DEF CountedOnce
  <2>1. Counted(c) = OfCredential(c, RecordedDocuments)
    BY DEF Counted, OfCredential, RecordedDocuments, Cursor
  <2>2. {SourceOf[d] : d \in Counted(c)} = SourcesIn(OfCredential(c, RecordedDocuments))
    BY <2>1 DEF SourcesIn
  <2> QED
    BY <2>1, <2>2 DEF CredentialInv, Holds
<1> QED
  BY <1>1, CredentialInvInit, CredentialInvStep, PTL DEF CredentialSpec

--------------------------------------------------------------------------------
(* For any lane, telemetry and page size, a mark and the cursor never get     *)
(* ahead of what OpenCTI holds: the batch a cycle carries links the three.    *)

\* Every variable keeps its type; in particular the cursor is an address or
\* the start of a pass (SweepCursor.advance).
THEOREM TypeCorrect == Spec => []TypeOK
<1> USE DEF Pairs
<1>1. Init => TypeOK
  BY LaneAssumption DEF Init, TypeOK
<1>2. TypeOK /\ [Next]_vars => TypeOK'
  <2> SUFFICES ASSUME TypeOK, [Next]_vars PROVE TypeOK'
    OBVIOUS
  <2> USE LaneAssumption DEF TypeOK, telemetry
  <2>1. ASSUME NEW a \in Addresses, Appear(a) \/ AgeOut(a) PROVE TypeOK'
    BY <2>1 DEF Appear, AgeOut
  <2>2. ASSUME NEW p \in Pairs, Observe(p[1], p[2]) PROVE TypeOK'
    BY <2>2 DEF Observe
  <2>3. ASSUME NEW usable \in SUBSET Labels, Begin(usable) PROVE TypeOK'
    <3>1. page' \subseteq Addresses
      BY <2>3, PageOfActive DEF Begin
    <3>2. fresh' \subseteq Pairs
      BY <2>3, <3>1 DEF Begin, Fresh
    <3>3. faults' \in Nat
      BY <2>3 DEF Begin, Fault
    <3> QED
      BY <2>3, <3>1, <3>2, <3>3 DEF Begin
  <2>4. CASE PublishClean
    BY <2>4 DEF PublishClean
  <2>5. ASSUME NEW part \in SUBSET fresh, PublishErrors(part) PROVE TypeOK'
    BY <2>5 DEF PublishErrors, Fault, AfterErrors
  <2>6. ASSUME NEW p \in fresh, Mark(p) PROVE TypeOK'
    BY <2>6 DEF Mark
  <2>7. CASE Marked
    BY <2>7 DEF Marked
  <2>8. CASE Advance
    <3>1. cursor' \in Addresses \cup {StartOfPass}
      BY <2>8, AdvanceWithinPage DEF Advance
    <3> QED
      BY <2>8, <3>1 DEF Advance
  <2>9. CASE Crash
    BY <2>9 DEF Crash, Fault
  <2>10. CASE UNCHANGED vars
    BY <2>10 DEF vars
  <2> QED
    BY <2>1, <2>2, <2>3, <2>4, <2>5, <2>6, <2>7, <2>8, <2>9, <2>10 DEF Next
<1> QED
  BY <1>1, <1>2, PTL DEF Spec

--------------------------------------------------------------------------------
(* Marks and cursor follow OpenCTI.                                        *)

\* The fresh has landed once the cycle marks, and before it advances.
Confirmed == pc \in {"mark", "advance"} => fresh \subseteq landed

LEMMA ConfirmedInitially == Init => MarkedOnlyLanded /\ Confirmed
BY DEF Init, MarkedOnlyLanded, Confirmed

LEMMA ConfirmedStep ==
  TypeOK /\ MarkedOnlyLanded /\ Confirmed /\ [Next]_vars => (MarkedOnlyLanded /\ Confirmed)'
<1> SUFFICES ASSUME TypeOK, MarkedOnlyLanded, Confirmed, [Next]_vars
             PROVE  (MarkedOnlyLanded /\ Confirmed)'
  OBVIOUS
<1> USE DEF MarkedOnlyLanded, Confirmed, telemetry
<1>1. ASSUME NEW a \in Addresses, Appear(a) \/ AgeOut(a) PROVE (MarkedOnlyLanded /\ Confirmed)'
  BY <1>1 DEF Appear, AgeOut
<1>2. ASSUME NEW p \in Pairs, Observe(p[1], p[2]) PROVE (MarkedOnlyLanded /\ Confirmed)'
  BY <1>2 DEF Observe
<1>3. ASSUME NEW usable \in SUBSET Labels, Begin(usable)
      PROVE  (MarkedOnlyLanded /\ Confirmed)'
  BY <1>3 DEF Begin
<1>4. CASE PublishClean
  BY <1>4 DEF PublishClean
<1>5. ASSUME NEW part \in SUBSET fresh, PublishErrors(part) PROVE (MarkedOnlyLanded /\ Confirmed)'
  BY <1>5 DEF PublishErrors, AfterErrors
<1>6. ASSUME NEW p \in fresh, Mark(p) PROVE (MarkedOnlyLanded /\ Confirmed)'
  BY <1>6 DEF Mark
<1>7. CASE Marked
  BY <1>7 DEF Marked
<1>8. CASE Advance
  BY <1>8 DEF Advance
<1>9. CASE Crash
  BY <1>9 DEF Crash
<1>10. CASE UNCHANGED vars
  BY <1>10 DEF vars
<1> QED
  BY <1>1, <1>2, <1>3, <1>4, <1>5, <1>6, <1>7, <1>8, <1>9, <1>10 DEF Next

\* A mark, which suppresses its label for ever, is never ahead of OpenCTI,
\* wherever a cycle fails or dies (run_cycle of noisefloor and blocklists).
THEOREM MarksNeverAhead == Spec => []MarkedOnlyLanded
BY ConfirmedInitially, ConfirmedStep, TypeCorrect, PTL DEF Spec

\* The cursor only passes a page whose labels are all in OpenCTI: a failed
\* publish holds the page (SweepCursor.hold).
THEOREM NoPageSkipped == Spec => PassesOnlyLanded
<1>1. Confirmed /\ [Next]_vars => [cursor' # cursor => fresh \subseteq landed]_cursor
  <2> SUFFICES ASSUME Confirmed, [Next]_vars, cursor' # cursor PROVE fresh \subseteq landed
    OBVIOUS
  <2>1. Advance
    BY DEF Next, vars, telemetry, Appear, AgeOut, Observe, Begin, PublishClean, PublishErrors,
           Mark, Marked, Crash
  <2> QED
    BY <2>1 DEF Advance, Confirmed
<1> QED
  BY <1>1, ConfirmedInitially, ConfirmedStep, TypeCorrect, PTL DEF Spec, PassesOnlyLanded
================================================================================
