--------------------------- MODULE CycleMemoryProofs ---------------------------
(* The score ceiling, the score ratchet, the edges, the campaigns and the     *)
(* roll-up, for any windows and instants, whatever crashes, fails, is lost or *)
(* is pruned.                                                                 *)
EXTENDS CycleMemory, FiniteSetTheorems, TLAPS

(* What the sessions of the window in hand say of an object: those that build *)
(* it, the first of them, whose score the bundle keeps, and the labels of     *)
(* every session of its address from there on.                                *)
Building(o) == {i \in DOMAIN Windows[w] : o \in Built(Windows[w][i])}
FirstBuilt(o, i) == i \in Building(o) /\ \A k \in Building(o) : i <= k
Labelling(o, n) == {j \in 1..n : Windows[w][j].ip = o[2] /\ \E i \in Building(o) : i <= j}
LabelsUpto(o, n) == UNION {Windows[w][j].labels : j \in Labelling(o, n)}
WindowLabels(o) == IF w \in DOMAIN Windows THEN LabelsUpto(o, Len(Windows[w])) ELSE {}
InHand(o) == w \in DOMAIN Windows /\ Building(o) # {}

(* What object_max_state says of it.                                          *)
KnownLabels(o) == IF o \in DOMAIN maxState THEN maxState[o].labels ELSE {}
EdgeLabel(o) == IF o[2] \in Edge THEN {"edge"} ELSE {}
KnownScore(o) == o \in DOMAIN maxState /\ held[o].score <= maxState[o].score
AtCeiling(o) ==
  /\ o \in DOMAIN maxState /\ maxState[o].score = Ceiling
  /\ o[2] \in Edge \/ "scanner" \in maxState[o].labels
Renewed(o) == o \in DOMAIN maxState /\ held[o].at <= maxState[o].at

--------------------------------------------------------------------------------
(* The inductive invariant.  What OpenCTI holds of an object that has not     *)
(* lapsed is known to the memory or will be built again by the window in      *)
(* hand, because its cursor does not move before object_max_state has been    *)
(* written: a crash between the two is repaired by the retry.  A row the      *)
(* window will not write again is as recent as what OpenCTI holds, so that    *)
(* pruning takes it only once the object has lapsed.                          *)
Folded == {"store", "roll", "publish", "max", "once", "cursor"}
Between == pc \in {"idle", "prune"}
PlaceInv ==
  /\ pc \in Folded \cup {"idle", "fold", "prune"}
  /\ w \in 1..Len(Windows) + 1
  /\ ~Between => w \in DOMAIN Windows
  /\ pc = "fold" => next \in 1..Len(Windows[w]) + 1
  /\ pc \in Folded => next = Len(Windows[w]) + 1

DraftInv ==
  ~Between =>
    /\ DOMAIN draft = {o \in Objects : \E i \in Building(o) : i < next}
    /\ \A o \in DOMAIN draft :
         /\ draft[o].labels = LabelsUpto(o, next - 1)
         /\ \E i \in 1..next - 1 : FirstBuilt(o, i) /\ draft[o].score = Windows[w][i].score
    /\ bundle \cap Objects \subseteq DOMAIN draft

ScoreTypes ==
  /\ DOMAIN held \subseteq Objects
  /\ \A o \in DOMAIN held : held[o].score \in Int
  /\ \A o \in DOMAIN maxState : maxState[o].score \in Int

TimeInv ==
  /\ now \in Int
  /\ \A o \in DOMAIN held : held[o].at \in Int /\ held[o].at <= now
  /\ \A o \in DOMAIN maxState : maxState[o].at \in Int

HeldInv ==
  \A o \in DOMAIN held : ~Lapsed(o) =>
    /\ held[o].labels \subseteq KnownLabels(o) \cup WindowLabels(o) \cup EdgeLabel(o)
    /\ \/ KnownScore(o) \/ AtCeiling(o)
       \/ w \in DOMAIN Windows
          /\ \E i \in Building(o) : FirstBuilt(o, i) /\ held[o].score <= Windows[w][i].score
    /\ Renewed(o) \/ InHand(o)

StoredInv ==
  pc \in {"once", "cursor", "prune"} =>
    \A o \in DOMAIN held : ~Lapsed(o) =>
      /\ held[o].labels \subseteq KnownLabels(o) \cup EdgeLabel(o)
      /\ KnownScore(o) \/ AtCeiling(o)
      /\ Renewed(o)

MemoryInv == PlaceInv /\ DraftInv /\ ScoreTypes /\ TimeInv /\ HeldInv /\ StoredInv /\ CapHolds

LEMMA WindowTypes ==
  ASSUME NEW i \in DOMAIN Windows
  PROVE  /\ Windows \in Seq(Seq(Sessions)) /\ Windows[i] \in Seq(Sessions)
         /\ DOMAIN Windows = 1..Len(Windows)
         /\ Len(Windows[i]) \in Nat /\ DOMAIN Windows[i] = 1..Len(Windows[i])
         /\ \A j \in DOMAIN Windows[i] :
              /\ Windows[i][j] \in Sessions /\ Windows[i][j].ip \in Addresses
              /\ Windows[i][j].score \in Int
<1>1. Windows \in Seq(Seq(Sessions))
  BY MemoryAssumption DEF Sessions
<1>2. \A j \in DOMAIN Windows[i] : Windows[i][j].score \in Int
  BY MemoryAssumption
<1>3. /\ Windows[i] \in Seq(Sessions) /\ DOMAIN Windows = 1..Len(Windows)
      /\ Len(Windows[i]) \in Nat /\ DOMAIN Windows[i] = 1..Len(Windows[i])
  BY <1>1
<1>4. \A j \in DOMAIN Windows[i] : Windows[i][j] \in Sessions /\ Windows[i][j].ip \in Addresses
  BY <1>3 DEF Addresses
<1> QED
  BY <1>1, <1>2, <1>3, <1>4

(* The merged version of an object (Publisher.publish, Step 0): it keeps what *)
(* the draft and the memory say, is capped where a label demands it, and is   *)
(* weaker than either only where it is capped.                                *)
LEMMA MergedVersion ==
  ASSUME NEW o \in DOMAIN draft, draft[o].score \in Int, ScoreTypes
  PROVE  LET m == Merged(o)
             capped == o[2] \in Edge \/ "scanner" \in m.labels
         IN /\ m.score \in Int
            /\ m.labels = draft[o].labels \cup KnownLabels(o) \cup EdgeLabel(o)
            /\ capped => m.score <= Ceiling
            /\ draft[o].score <= m.score \/ (capped /\ m.score = Ceiling)
            /\ o \in DOMAIN maxState =>
                 maxState[o].score <= m.score \/ (capped /\ m.score = Ceiling)
            /\ AtCeiling(o) => capped /\ m.score = Ceiling
            /\ m.score <= draft[o].score
                 \/ (o \in DOMAIN maxState /\ m.score <= maxState[o].score)
<1> DEFINE v == IF o \notin DOMAIN maxState THEN draft[o]
                ELSE [score |-> Larger(draft[o].score, maxState[o].score),
                      labels |-> draft[o].labels \cup maxState[o].labels]
<1>1. Merged(o) = Capped(o, v)
  BY DEF Merged
<1>2. v.labels = draft[o].labels \cup KnownLabels(o)
  BY DEF KnownLabels
<1>3. /\ v.score \in Int /\ draft[o].score <= v.score
      /\ o \in DOMAIN maxState => maxState[o].score <= v.score
      /\ v.score = draft[o].score \/ (o \in DOMAIN maxState /\ v.score = maxState[o].score)
  BY DEF Larger, ScoreTypes
<1>4. Capped(o, v).labels = v.labels \cup EdgeLabel(o)
  BY DEF Capped, EdgeLabel
<1>5. Capped(o, v).score = IF o[2] \in Edge \/ "scanner" \in v.labels \cup EdgeLabel(o)
                           THEN Smaller(v.score, Ceiling) ELSE v.score
  BY DEF Capped, EdgeLabel
<1>6. AtCeiling(o) => /\ o \in DOMAIN maxState /\ maxState[o].score = Ceiling
                      /\ o[2] \in Edge \/ "scanner" \in v.labels
  BY <1>2 DEF AtCeiling, KnownLabels
<1> HIDE DEF v
<1>7. Merged(o).labels = v.labels \cup EdgeLabel(o)
  BY <1>1, <1>4
<1>8. Merged(o).score = IF o[2] \in Edge \/ "scanner" \in Merged(o).labels
                        THEN Smaller(v.score, Ceiling) ELSE v.score
  BY <1>1, <1>5, <1>7
<1> QED
  BY <1>2, <1>3, <1>6, <1>7, <1>8, MemoryAssumption, ScoreTypes DEF Smaller, ScoreTypes

(* Folding a session (Drafted) carries what the draft says one session on.    *)
LEMMA FoldDraft ==
  ASSUME PlaceInv, DraftInv, pc = "fold", next <= Len(Windows[w]),
         draft' = Drafted(Windows[w][next]), w' = w, next' = next + 1, pc' = "fold",
         bundle' = bundle \cup Built(Windows[w][next])
  PROVE  DraftInv'
<1> DEFINE s == Windows[w][next]
           Now(o) == IF o[2] = s.ip THEN s.labels ELSE {}
<1>1. /\ w \in DOMAIN Windows /\ DOMAIN Windows[w] = 1..Len(Windows[w])
      /\ Len(Windows[w]) \in Nat /\ next \in DOMAIN Windows[w] /\ next \in Nat \ {0}
  BY WindowTypes DEF PlaceInv, Between
<1>2. \A o : Building(o)' = Building(o)
  BY DEF Building
<1>3. DOMAIN draft' = DOMAIN draft \cup (Built(s) \cap Objects)
  BY DEF Drafted
<1>4. \A o \in DOMAIN draft' : o \in Objects /\ \E i \in Building(o) : i < next + 1
  BY <1>1, <1>3 DEF DraftInv, Building, Between
<1>5. \A o \in Objects : (\E i \in Building(o) : i < next + 1) => o \in DOMAIN draft'
  <2> SUFFICES ASSUME NEW o \in Objects, NEW i \in Building(o), i < next + 1
               PROVE  o \in DOMAIN draft'
    OBVIOUS
  <2>1. i \in Nat /\ (i < next \/ i = next)
    BY <1>1 DEF Building
  <2> QED
    BY <1>3, <2>1 DEF DraftInv, Building, Between
<1>6. ASSUME NEW o \in DOMAIN draft'
      PROVE  /\ draft'[o].labels = LabelsUpto(o, next)
             /\ \E i \in 1..next : FirstBuilt(o, i) /\ draft'[o].score = Windows[w][i].score
  <2>1. draft'[o] = [score |-> IF o \in DOMAIN draft THEN draft[o].score ELSE s.score,
                     labels |-> (IF o \in DOMAIN draft THEN draft[o].labels ELSE {}) \cup Now(o)]
    BY <1>3 DEF Drafted
  <2>2. \E i \in Building(o) : i <= next
    BY <1>1, <1>4 DEF Building
  <2>3. Labelling(o, next) = Labelling(o, next - 1) \cup (IF s.ip = o[2] THEN {next} ELSE {})
    BY <1>1, <2>2 DEF Labelling
  <2>4. LabelsUpto(o, next) = LabelsUpto(o, next - 1) \cup Now(o)
    BY <2>3 DEF LabelsUpto
  <2>5. CASE o \in DOMAIN draft
    <3>1. draft[o].labels = LabelsUpto(o, next - 1)
      BY <1>1, <2>5 DEF DraftInv, Between
    <3>2. PICK i \in 1..next - 1 : FirstBuilt(o, i) /\ draft[o].score = Windows[w][i].score
      BY <1>1, <2>5 DEF DraftInv, Between
    <3>3. i \in 1..next
      BY <1>1
    <3> QED
      BY <2>1, <2>4, <2>5, <3>1, <3>2, <3>3
  <2>6. CASE o \notin DOMAIN draft
    <3>1. o \in Built(s) \cap Objects /\ \A i \in Building(o) : ~(i < next)
      BY <1>3, <2>6 DEF DraftInv, Between
    <3>2. FirstBuilt(o, next) /\ next \in 1..next
      BY <1>1, <3>1 DEF FirstBuilt, Building
    <3>3. Labelling(o, next - 1) = {}
      BY <1>1, <3>1 DEF Labelling, Building
    <3>4. LabelsUpto(o, next - 1) = {}
      BY <3>3 DEF LabelsUpto
    <3> QED
      BY <2>1, <2>4, <2>6, <3>2, <3>4
  <2> QED
    BY <2>5, <2>6
<1>7. bundle' \cap Objects \subseteq DOMAIN draft'
  BY <1>3 DEF DraftInv, Between
<1>8. \A o : LabelsUpto(o, next - 1)' = LabelsUpto(o, next)
  <2>1. next' - 1 = next
    BY <1>1
  <2>2. \A o : Labelling(o, next - 1)' = Labelling(o, next)
    BY <1>2, <2>1 DEF Labelling
  <2> QED
    BY <2>2 DEF LabelsUpto
<1>9. \A o : \A i : FirstBuilt(o, i)' = FirstBuilt(o, i)
  BY <1>2 DEF FirstBuilt
<1>10. DOMAIN draft' = {o \in Objects : \E i \in Building(o)' : i < next'}
  BY <1>2, <1>4, <1>5
<1>11. \A o \in DOMAIN draft' : \E i \in 1..next' - 1 :
         FirstBuilt(o, i)' /\ draft'[o].score = Windows[w'][i].score
  <2>1. 1..next' - 1 = 1..next
    BY <1>1
  <2> QED
    BY <1>6, <1>9, <2>1
<1> QED
  BY <1>6, <1>7, <1>8, <1>10, <1>11 DEF DraftInv

--------------------------------------------------------------------------------
(* What has lapsed stays so until the object is delivered again.             *)
LEMMA LapsedKept ==
  ASSUME TimeInv, UNCHANGED held, now' \in Int, now <= now', unsaved \subseteq unsaved',
         NEW o \in DOMAIN held, ~Lapsed(o)'
  PROVE  ~Lapsed(o)
BY MemoryAssumption DEF Lapsed, TimeInv

(* A step that leaves the window, the draft, OpenCTI's objects and            *)
(* object_max_state alone.                                                    *)
LEMMA Undisturbed ==
  ASSUME MemoryInv, PlaceInv', UNCHANGED <<now, w, draft, maxState, held, unsaved>>,
         ~Between' => ~Between /\ next' = next /\ bundle' \cap Objects \subseteq bundle,
         pc' \in {"once", "cursor", "prune"} => pc \in {"once", "cursor", "prune"}
  PROVE  MemoryInv'
<1>1. DraftInv'
  <2> SUFFICES ASSUME ~Between' PROVE DraftInv'
    BY DEF DraftInv
  <2>1. \A o : Building(o)' = Building(o)
    BY DEF Building
  <2>2. \A o : LabelsUpto(o, next - 1)' = LabelsUpto(o, next - 1)
    BY <2>1 DEF LabelsUpto, Labelling
  <2>3. \A o, i : FirstBuilt(o, i)' = FirstBuilt(o, i)
    BY <2>1 DEF FirstBuilt
  <2>4. bundle' \cap Objects \subseteq DOMAIN draft'
    BY DEF MemoryInv, DraftInv
  <2> QED
    BY <2>1, <2>2, <2>3, <2>4 DEF MemoryInv, DraftInv
<1>2. HeldInv'
  BY DEF MemoryInv, HeldInv, KnownLabels, WindowLabels, LabelsUpto, Labelling, EdgeLabel,
         KnownScore, AtCeiling, FirstBuilt, Building, Lapsed, Renewed, InHand
<1>3. StoredInv'
  BY DEF MemoryInv, StoredInv, KnownLabels, EdgeLabel, KnownScore, AtCeiling, Lapsed, Renewed
<1> QED
  BY <1>1, <1>2, <1>3 DEF MemoryInv, ScoreTypes, TimeInv, CapHolds

LEMMA MemoryInvInit == Init => MemoryInv
<1> SUFFICES ASSUME Init PROVE MemoryInv
  OBVIOUS
<1>1. Len(Windows) \in Nat
  BY MemoryAssumption
<1>2. DOMAIN held = {} /\ DOMAIN maxState = {}
  BY DEF Init
<1>3. PlaceInv
  BY <1>1 DEF Init, PlaceInv, Folded, Between
<1>4. DraftInv
  BY DEF Init, DraftInv, Between
<1>5. ScoreTypes /\ TimeInv /\ HeldInv /\ StoredInv /\ CapHolds
  BY <1>2, MemoryAssumption DEF Init, ScoreTypes, TimeInv, HeldInv, StoredInv, CapHolds
<1> QED
  BY <1>3, <1>4, <1>5 DEF MemoryInv

(* What a publish does to the objects it delivers: the cap and the ratchet.   *)
LEMMA PublishHeld ==
  ASSUME MemoryInv, Publish
  PROVE  /\ HeldInv' /\ ScoreTypes' /\ TimeInv' /\ CapHolds'
         /\ \A o \in DOMAIN held :
              held'[o].score < held[o].score =>
                \/ Lapsed(o)
                \/ /\ held'[o].score = Ceiling
                   /\ o[2] \in Edge \/ "scanner" \in held'[o].labels
<1> DEFINE Before(o) == IF o \in DOMAIN held /\ ~Lapsed(o) THEN held[o].labels ELSE {}
<1>1. PICK landed \in SUBSET bundle :
        /\ held' = [o \in DOMAIN held \cup (landed \cap Objects) |->
                      IF o \notin landed THEN held[o]
                      ELSE Version(o, Merged(o).labels \cup Before(o))]
        /\ unsaved' = unsaved \ landed
  <2>1. PICK sent \in SUBSET {Entities, Edges} :
          /\ held' = [o \in DOMAIN held \cup ((Outgoing \cap UNION sent) \cap Objects) |->
                        IF o \notin Outgoing \cap UNION sent THEN held[o]
                        ELSE Version(o, Merged(o).labels \cup Before(o))]
          /\ unsaved' = unsaved \ (Outgoing \cap UNION sent)
    BY DEF Publish
  <2>2. Outgoing \cap UNION sent \in SUBSET bundle
    BY DEF Outgoing, Resolvable
  <2> QED
    BY <2>1, <2>2
<1>2. /\ w \in DOMAIN Windows /\ next = Len(Windows[w]) + 1 /\ Len(Windows[w]) \in Nat
      /\ ~Between
  BY WindowTypes DEF MemoryInv, PlaceInv, Publish, Folded, Between
<1>3. /\ UNCHANGED <<w, maxState, now>>
      /\ \A o : /\ WindowLabels(o)' = WindowLabels(o) /\ KnownLabels(o)' = KnownLabels(o)
                /\ EdgeLabel(o)' = EdgeLabel(o) /\ AtCeiling(o)' = AtCeiling(o)
                /\ Building(o)' = Building(o) /\ InHand(o)' = InHand(o)
                /\ \A i : FirstBuilt(o, i)' = FirstBuilt(o, i)
  BY DEF Publish, memory, WindowLabels, LabelsUpto, Labelling, KnownLabels, EdgeLabel, AtCeiling,
         FirstBuilt, Building, InHand
<1>4. DOMAIN held' = DOMAIN held \cup (landed \cap Objects) /\ DOMAIN held \subseteq Objects
  BY <1>1 DEF MemoryInv, ScoreTypes
<1>5. ASSUME NEW o \in DOMAIN held', o \notin landed
      PROVE  o \in DOMAIN held /\ held'[o] = held[o] /\ (~Lapsed(o)' => ~Lapsed(o))
  <2>1. o \in DOMAIN held /\ held'[o] = held[o]
    BY <1>1, <1>4, <1>5
  <2> QED
    BY <1>1, <1>3, <1>5, <2>1 DEF Lapsed
<1>6. ASSUME NEW o \in DOMAIN held', o \in landed
      PROVE  /\ o \in DOMAIN draft /\ draft[o].score \in Int
             /\ draft[o].labels = WindowLabels(o)
             /\ held'[o].score = Merged(o).score /\ held'[o].at = now
             /\ held'[o].labels = Merged(o).labels \cup Before(o)
             /\ \E i \in Building(o) : FirstBuilt(o, i) /\ draft[o].score = Windows[w][i].score
  <2>1. o \in DOMAIN draft
    BY <1>1, <1>2, <1>4, <1>6 DEF MemoryInv, DraftInv
  <2>2. /\ draft[o].labels = LabelsUpto(o, next - 1)
        /\ \E i \in 1..next - 1 : FirstBuilt(o, i) /\ draft[o].score = Windows[w][i].score
    BY <1>2, <2>1 DEF MemoryInv, DraftInv
  <2>3. draft[o].labels = WindowLabels(o)
    BY <1>2, <2>2 DEF WindowLabels
  <2>4. PICK i \in 1..next - 1 : FirstBuilt(o, i) /\ draft[o].score = Windows[w][i].score
    BY <2>2
  <2>5. i \in Building(o) /\ i \in DOMAIN Windows[w]
    BY <2>4 DEF FirstBuilt, Building
  <2>6. draft[o].score \in Int
    BY <1>2, <2>4, <2>5, WindowTypes
  <2>7. held'[o] = Version(o, Merged(o).labels \cup Before(o))
    BY <1>1, <1>4, <1>6
  <2>8. /\ held'[o].score = Merged(o).score /\ held'[o].at = now
        /\ held'[o].labels = Merged(o).labels \cup Before(o)
    BY <2>7 DEF Version
  <2> QED
    BY <2>1, <2>3, <2>4, <2>5, <2>6, <2>8
<1>7. ScoreTypes' /\ TimeInv'
  <2>1. \A o \in DOMAIN held' : held'[o].score \in Int
    BY <1>5, <1>6, MergedVersion DEF MemoryInv, ScoreTypes
  <2>2. \A o \in DOMAIN held' : held'[o].at \in Int /\ held'[o].at <= now
    BY <1>5, <1>6 DEF MemoryInv, TimeInv
  <2> QED
    BY <1>3, <1>4, <2>1, <2>2 DEF MemoryInv, ScoreTypes, TimeInv
<1>8. ASSUME NEW o \in DOMAIN held', o \in landed
      PROVE  /\ held'[o].labels \subseteq KnownLabels(o) \cup WindowLabels(o) \cup EdgeLabel(o)
             /\ Merged(o).labels \subseteq held'[o].labels
             /\ o[2] \in Edge \/ "scanner" \in held'[o].labels =>
                  o[2] \in Edge \/ "scanner" \in Merged(o).labels
  <2>1. Merged(o).labels = KnownLabels(o) \cup WindowLabels(o) \cup EdgeLabel(o)
    BY <1>6, <1>8, MergedVersion DEF MemoryInv
  <2>2. Before(o) \subseteq KnownLabels(o) \cup WindowLabels(o) \cup EdgeLabel(o)
    BY DEF MemoryInv, HeldInv
  <2>3. held'[o].labels = Merged(o).labels
    BY <1>6, <1>8, <2>1, <2>2
  <2> QED
    BY <2>1, <2>3
<1>9. HeldInv'
  <2> SUFFICES ASSUME NEW o \in DOMAIN held', ~Lapsed(o)'
               PROVE  /\ held'[o].labels \subseteq KnownLabels(o) \cup WindowLabels(o) \cup EdgeLabel(o)
                      /\ \/ o \in DOMAIN maxState /\ held'[o].score <= maxState[o].score
                         \/ AtCeiling(o)
                         \/ \E i \in Building(o) : FirstBuilt(o, i) /\ held'[o].score <= Windows[w][i].score
                      /\ \/ o \in DOMAIN maxState /\ held'[o].at <= maxState[o].at
                         \/ InHand(o)
    BY <1>2, <1>3 DEF HeldInv, KnownScore, Renewed
  <2>1. CASE o \notin landed
    BY <1>5, <2>1 DEF MemoryInv, HeldInv, KnownScore, Renewed
  <2>2. CASE o \in landed
    <3>1. PICK i \in Building(o) : FirstBuilt(o, i) /\ draft[o].score = Windows[w][i].score
      BY <1>6, <2>2
    <3>2. held'[o].score <= draft[o].score
            \/ (o \in DOMAIN maxState /\ held'[o].score <= maxState[o].score)
      BY <1>6, <2>2, MergedVersion DEF MemoryInv
    <3>3. InHand(o)
      BY <1>2, <3>1 DEF InHand
    <3> QED
      BY <1>8, <2>2, <3>1, <3>2, <3>3
  <2> QED
    BY <2>1, <2>2
<1>10. CapHolds'
  <2> SUFFICES ASSUME NEW o \in DOMAIN held', o[2] \in Edge \/ "scanner" \in held'[o].labels
               PROVE  held'[o].score <= Ceiling
    BY DEF CapHolds
  <2>1. CASE o \notin landed
    BY <1>5, <2>1 DEF MemoryInv, CapHolds
  <2>2. CASE o \in landed
    BY <1>6, <1>8, <2>2, MergedVersion DEF MemoryInv
  <2> QED
    BY <2>1, <2>2
<1>11. ASSUME NEW o \in DOMAIN held, held'[o].score < held[o].score, ~Lapsed(o)
       PROVE  held'[o].score = Ceiling /\ (o[2] \in Edge \/ "scanner" \in held'[o].labels)
  <2>1. o \in DOMAIN held' /\ held[o].score \in Int
    BY <1>4 DEF MemoryInv, ScoreTypes
  <2>2. o \in landed
    BY <1>5, <1>11, <2>1
  <2>3. PICK i \in Building(o) : FirstBuilt(o, i) /\ draft[o].score = Windows[w][i].score
    BY <1>6, <2>1, <2>2
  <2>4. \A k \in Building(o) : FirstBuilt(o, k) => k = i
    BY <1>2, <2>3, WindowTypes DEF FirstBuilt, Building
  <2>5. \/ o \in DOMAIN maxState /\ held[o].score <= maxState[o].score
        \/ AtCeiling(o)
        \/ held[o].score <= draft[o].score
    BY <1>11, <2>3, <2>4 DEF MemoryInv, HeldInv, KnownScore
  <2>6. held'[o].score = Merged(o).score /\ Merged(o).labels \subseteq held'[o].labels
    BY <1>6, <1>8, <2>1, <2>2
  <2>7. o \in DOMAIN maxState => maxState[o].score \in Int
    BY DEF MemoryInv, ScoreTypes
  <2> QED
    BY <1>6, <1>11, <2>1, <2>2, <2>5, <2>6, <2>7, MergedVersion DEF MemoryInv
<1> QED
  BY <1>7, <1>9, <1>10, <1>11

(* The window in hand is not to build an object the draft has not got.        *)
LEMMA NotDrafted ==
  ASSUME PlaceInv, DraftInv, pc \in Folded, NEW o \in Objects, o \notin DOMAIN draft
  PROVE  Building(o) = {} /\ WindowLabels(o) = {} /\ ~InHand(o)
<1>1. /\ w \in DOMAIN Windows /\ next = Len(Windows[w]) + 1 /\ Len(Windows[w]) \in Nat
      /\ DOMAIN Windows[w] = 1..Len(Windows[w]) /\ ~Between
  BY WindowTypes DEF PlaceInv, Folded, Between
<1>2. \A i \in Building(o) : ~(i < next)
  BY <1>1 DEF DraftInv
<1>3. Building(o) = {}
  BY <1>1, <1>2 DEF Building
<1> QED
  BY <1>3 DEF WindowLabels, LabelsUpto, Labelling, InHand

(* object_max_state takes over the bundle's versions: what OpenCTI holds is   *)
(* then known without the window.                                             *)
LEMMA StoreMaxDone ==
  ASSUME MemoryInv, StoreMax,
         maxState' = [o \in DOMAIN maxState \cup DOMAIN draft |->
                        IF o \in DOMAIN draft THEN Version(o, Merged(o).labels) ELSE maxState[o]],
         UNCHANGED unsaved
  PROVE  MemoryInv'
<1>1. UNCHANGED <<now, w, next, draft, bundle, held>> /\ pc = "max" /\ pc' = "once"
  BY DEF StoreMax, cycle, opencti
<1>2. /\ w \in DOMAIN Windows /\ next = Len(Windows[w]) + 1 /\ Len(Windows[w]) \in Nat
      /\ pc \in Folded /\ ~Between
  BY <1>1, WindowTypes DEF MemoryInv, PlaceInv, Folded, Between
<1>3. PlaceInv' /\ DraftInv'
  <2>1. PlaceInv'
    BY <1>1 DEF MemoryInv, PlaceInv, Folded, Between
  <2>2. DraftInv'
    <3>1. \A o : Building(o)' = Building(o)
      BY <1>1 DEF Building
    <3>2. \A o, i : FirstBuilt(o, i)' <=> FirstBuilt(o, i)
      BY <3>1 DEF FirstBuilt
    <3>3. \A o, n : Labelling(o, n)' = Labelling(o, n)
      BY <1>1, <3>1 DEF Labelling
    <3>4. \A o, n : LabelsUpto(o, n)' = LabelsUpto(o, n)
      BY <1>1, <3>3 DEF LabelsUpto
    <3> QED
      BY <1>1, <1>2, <3>1, <3>2, <3>4 DEF MemoryInv, DraftInv
  <2> QED
    BY <2>1, <2>2
<1>4. ASSUME NEW o \in DOMAIN draft
      PROVE  /\ draft[o].score \in Int /\ draft[o].labels = WindowLabels(o)
             /\ \E i \in Building(o) : FirstBuilt(o, i) /\ draft[o].score = Windows[w][i].score
  <2>1. /\ draft[o].labels = LabelsUpto(o, next - 1)
        /\ \E i \in 1..next - 1 : FirstBuilt(o, i) /\ draft[o].score = Windows[w][i].score
    BY <1>2 DEF MemoryInv, DraftInv
  <2>2. PICK i \in 1..next - 1 : FirstBuilt(o, i) /\ draft[o].score = Windows[w][i].score
    BY <2>1
  <2>3. i \in Building(o) /\ i \in DOMAIN Windows[w]
    BY <2>2 DEF FirstBuilt, Building
  <2>4. draft[o].score \in Int
    BY <1>2, <2>2, <2>3, WindowTypes
  <2>5. draft[o].labels = WindowLabels(o)
    BY <1>2, <2>1 DEF WindowLabels
  <2> QED
    BY <2>2, <2>3, <2>4, <2>5
<1>5. ASSUME NEW o \in DOMAIN draft
      PROVE  /\ o \in DOMAIN maxState' /\ maxState'[o].score = Merged(o).score
             /\ maxState'[o].labels = Merged(o).labels /\ maxState'[o].at = now
  <2>1. o \in DOMAIN maxState' /\ maxState'[o] = Version(o, Merged(o).labels)
    OBVIOUS
  <2> QED
    BY <2>1 DEF Version
<1>6. ScoreTypes' /\ TimeInv'
  <2>1. \A o \in DOMAIN draft : Merged(o).score \in Int
    BY <1>4, MergedVersion DEF MemoryInv
  <2>2. \A o \in DOMAIN maxState' : o \in DOMAIN draft \/ maxState'[o] = maxState[o]
    OBVIOUS
  <2>3. \A o \in DOMAIN maxState' : o \in DOMAIN draft \/ o \in DOMAIN maxState
    OBVIOUS
  <2>4. \A o \in DOMAIN maxState' : maxState'[o].score \in Int /\ maxState'[o].at \in Int
    BY <1>5, <2>1, <2>2, <2>3 DEF MemoryInv, ScoreTypes, TimeInv
  <2> QED
    BY <1>1, <2>4 DEF MemoryInv, ScoreTypes, TimeInv
<1>7. ASSUME NEW o \in DOMAIN held, ~Lapsed(o)
      PROVE  /\ held[o].labels \subseteq KnownLabels(o)' \cup EdgeLabel(o)
             /\ KnownScore(o)' \/ AtCeiling(o)'
             /\ Renewed(o)'
  <2>1. CASE o \in DOMAIN draft
    <3>1. Merged(o).labels = KnownLabels(o) \cup WindowLabels(o) \cup EdgeLabel(o)
      BY <1>4, <2>1, MergedVersion DEF MemoryInv
    <3>2. KnownLabels(o)' = Merged(o).labels
      BY <1>5, <2>1 DEF KnownLabels
    <3>3. held[o].labels \subseteq KnownLabels(o)' \cup EdgeLabel(o)
      BY <1>7, <3>1, <3>2 DEF MemoryInv, HeldInv
    <3>4. PICK i \in Building(o) : FirstBuilt(o, i) /\ draft[o].score = Windows[w][i].score
      BY <1>4, <2>1
    <3>5. \A k \in Building(o) : FirstBuilt(o, k) => k = i
      BY <1>2, <3>4, WindowTypes DEF FirstBuilt, Building
    <3>6. \/ o \in DOMAIN maxState /\ held[o].score <= maxState[o].score
          \/ AtCeiling(o)
          \/ held[o].score <= draft[o].score
      BY <1>7, <3>4, <3>5 DEF MemoryInv, HeldInv, KnownScore
    <3>7. held[o].score \in Int /\ (o \in DOMAIN maxState => maxState[o].score \in Int)
      BY DEF MemoryInv, ScoreTypes
    <3>8. \/ held[o].score <= Merged(o).score
          \/ Merged(o).score = Ceiling /\ (o[2] \in Edge \/ "scanner" \in Merged(o).labels)
      BY <1>4, <2>1, <3>6, <3>7, MergedVersion DEF MemoryInv
    <3>9. KnownScore(o)' \/ AtCeiling(o)'
      BY <1>1, <1>5, <2>1, <3>8 DEF KnownScore, AtCeiling
    <3>10. Renewed(o)'
      BY <1>1, <1>5, <2>1 DEF Renewed, MemoryInv, TimeInv
    <3> QED
      BY <3>3, <3>9, <3>10
  <2>2. CASE o \notin DOMAIN draft
    <3>1. o \in Objects
      BY DEF MemoryInv, ScoreTypes
    <3>2. Building(o) = {} /\ WindowLabels(o) = {} /\ ~InHand(o)
      BY <1>2, <2>2, <3>1, NotDrafted DEF MemoryInv
    <3>3. /\ held[o].labels \subseteq KnownLabels(o) \cup EdgeLabel(o)
          /\ KnownScore(o) \/ AtCeiling(o)
          /\ Renewed(o)
      BY <1>7, <3>2 DEF MemoryInv, HeldInv
    <3>4. o \in DOMAIN maxState /\ o \in DOMAIN maxState' /\ maxState'[o] = maxState[o]
      BY <2>2, <3>3 DEF Renewed
    <3> QED
      BY <1>1, <3>3, <3>4 DEF KnownLabels, KnownScore, AtCeiling, Renewed
  <2> QED
    BY <2>1, <2>2
<1>8. \A o \in DOMAIN held : Lapsed(o)' = Lapsed(o)
  BY <1>1 DEF Lapsed
<1>9. HeldInv' /\ StoredInv'
  BY <1>1, <1>7, <1>8 DEF HeldInv, StoredInv, EdgeLabel
<1> QED
  BY <1>1, <1>3, <1>6, <1>9 DEF MemoryInv, CapHolds

(* When the rows are not written, what they would have said lapses.           *)
LEMMA RowsLost ==
  ASSUME MemoryInv, pc \in {"publish", "max"}, pc' \in {"once", "prune"},
         UNCHANGED <<now, w, next, draft, bundle, held, maxState>>,
         unsaved' = unsaved \cup DOMAIN draft
  PROVE  MemoryInv'
<1>1. w \in DOMAIN Windows /\ pc \in Folded /\ ~Between
  BY DEF MemoryInv, PlaceInv, Folded, Between
<1>2. PlaceInv'
  BY DEF MemoryInv, PlaceInv, Folded, Between
<1>3. DraftInv'
  BY <1>1 DEF MemoryInv, DraftInv, LabelsUpto, Labelling, FirstBuilt, Building
<1>4. ASSUME NEW o \in DOMAIN held, ~Lapsed(o)'
      PROVE  /\ held[o].labels \subseteq KnownLabels(o) \cup EdgeLabel(o)
             /\ KnownScore(o) \/ AtCeiling(o)
             /\ Renewed(o)
  <2>1. ~Lapsed(o) /\ o \notin DOMAIN draft
    BY <1>4 DEF Lapsed
  <2>2. Building(o) = {} /\ WindowLabels(o) = {} /\ ~InHand(o)
    BY <1>1, <2>1, NotDrafted DEF MemoryInv, ScoreTypes
  <2> QED
    BY <2>1, <2>2 DEF MemoryInv, HeldInv
<1>5. \A o \in DOMAIN held :
        /\ KnownLabels(o)' = KnownLabels(o) /\ KnownScore(o)' = KnownScore(o)
        /\ AtCeiling(o)' = AtCeiling(o) /\ Renewed(o)' = Renewed(o)
  BY DEF KnownLabels, KnownScore, AtCeiling, Renewed
<1>6. HeldInv' /\ StoredInv'
  BY <1>4, <1>5 DEF HeldInv, StoredInv, EdgeLabel
<1> QED
  BY <1>2, <1>3, <1>6 DEF MemoryInv, ScoreTypes, TimeInv, CapHolds

LEMMA StoreMaxStep == MemoryInv /\ StoreMax => MemoryInv'
<1> SUFFICES ASSUME MemoryInv, StoreMax PROVE MemoryInv'
  OBVIOUS
<1>1. CASE UNCHANGED maxState /\ unsaved' = unsaved \cup DOMAIN draft
  BY <1>1, RowsLost DEF StoreMax, opencti
<1>2. CASE UNCHANGED unsaved /\
           maxState' = [o \in DOMAIN maxState \cup DOMAIN draft |->
                          IF o \in DOMAIN draft THEN Version(o, Merged(o).labels) ELSE maxState[o]]
  BY <1>2, StoreMaxDone
<1> QED
  BY <1>1, <1>2 DEF StoreMax

LEMMA WithholdStep == MemoryInv /\ WithholdPublish => MemoryInv'
BY RowsLost DEF WithholdPublish, memory, cycle, opencti

LEMMA MoveCursorStep == MemoryInv /\ MoveCursor => MemoryInv'
<1> SUFFICES ASSUME MemoryInv, MoveCursor PROVE MemoryInv'
  OBVIOUS
<1>1. /\ UNCHANGED <<now, maxState, held, unsaved>> /\ pc = "cursor" /\ pc' = "prune"
      /\ w' = w \/ w' = w + 1
  BY DEF MoveCursor, memory, opencti, missing
<1>2. PlaceInv'
  <2>1. w \in 1..Len(Windows) /\ Len(Windows) \in Nat
    BY <1>1, WindowTypes, MemoryAssumption DEF MemoryInv, PlaceInv, Between
  <2>2. w' \in 1..Len(Windows) + 1
    BY <1>1, <2>1
  <2> QED
    BY <1>1, <2>2 DEF PlaceInv, Folded, Between
<1>3. DraftInv'
  BY <1>1 DEF DraftInv, Between
<1>4. \A o \in DOMAIN held : ~Lapsed(o)' =>
        /\ held[o].labels \subseteq KnownLabels(o)' \cup EdgeLabel(o)
        /\ KnownScore(o)' \/ AtCeiling(o)'
        /\ Renewed(o)'
  BY <1>1 DEF MemoryInv, StoredInv, KnownLabels, KnownScore, AtCeiling, Renewed, Lapsed
<1>5. HeldInv' /\ StoredInv'
  BY <1>1, <1>4 DEF HeldInv, StoredInv, EdgeLabel
<1> QED
  BY <1>1, <1>2, <1>3, <1>5 DEF MemoryInv, ScoreTypes, TimeInv, CapHolds

(* Pruning takes no row of an object that has not lapsed: the row was written *)
(* when the object was last delivered, or after.                              *)
LEMMA PruneStep == MemoryInv /\ Prune => MemoryInv'
<1> SUFFICES ASSUME MemoryInv, Prune PROVE MemoryInv'
  OBVIOUS
<1>1. /\ UNCHANGED <<now, w, held, unsaved>> /\ pc = "prune" /\ pc' = "idle"
      /\ \E n \in 0..4 : maxState' = Restrict(maxState,
           {o \in DOMAIN maxState : n >= 3 => Fresh(maxState[o].at, KeepState)})
  BY DEF Prune, cycle, opencti, missing
<1>2. /\ DOMAIN maxState' \subseteq DOMAIN maxState
      /\ \A o \in DOMAIN maxState' : maxState'[o] = maxState[o]
      /\ \A o \in DOMAIN maxState : Fresh(maxState[o].at, KeepState) => o \in DOMAIN maxState'
  BY <1>1 DEF Restrict
<1>3. ASSUME NEW o \in DOMAIN held, ~Lapsed(o)'
      PROVE  /\ o \in DOMAIN maxState /\ o \in DOMAIN maxState' /\ maxState'[o] = maxState[o]
             /\ held[o].labels \subseteq KnownLabels(o) \cup EdgeLabel(o)
             /\ KnownScore(o) \/ AtCeiling(o)
             /\ Renewed(o)
  <2>1. ~Lapsed(o)
    BY <1>1, <1>3 DEF Lapsed
  <2>2. /\ held[o].labels \subseteq KnownLabels(o) \cup EdgeLabel(o)
        /\ KnownScore(o) \/ AtCeiling(o)
        /\ Renewed(o)
    BY <1>1, <2>1 DEF MemoryInv, StoredInv
  <2>3. Fresh(maxState[o].at, KeepState)
    BY <2>1, <2>2, MemoryAssumption DEF Lapsed, Renewed, Fresh, MemoryInv, TimeInv
  <2> QED
    BY <1>2, <2>2, <2>3 DEF Renewed
<1>4. HeldInv'
  <2> SUFFICES ASSUME NEW o \in DOMAIN held, ~Lapsed(o)'
               PROVE  /\ held[o].labels \subseteq KnownLabels(o)' \cup EdgeLabel(o)
                      /\ KnownScore(o)' \/ AtCeiling(o)'
                      /\ Renewed(o)'
    BY <1>1 DEF HeldInv, EdgeLabel
  <2> QED
    BY <1>1, <1>3 DEF KnownLabels, KnownScore, AtCeiling, Renewed
<1>5. PlaceInv' /\ DraftInv' /\ StoredInv'
  BY <1>1 DEF MemoryInv, PlaceInv, DraftInv, StoredInv, Between, Folded
<1> QED
  BY <1>1, <1>2, <1>4, <1>5 DEF MemoryInv, ScoreTypes, TimeInv, CapHolds

LEMMA FoldStep == MemoryInv /\ Fold => MemoryInv'
<1> SUFFICES ASSUME MemoryInv, Fold PROVE MemoryInv'
  OBVIOUS
<1>1. /\ UNCHANGED <<now, w, maxState, held, unsaved>> /\ next' = next + 1
      /\ pc = "fold" /\ pc' = "fold" /\ next <= Len(Windows[w])
      /\ draft' = Drafted(Windows[w][next])
      /\ bundle' = bundle \cup Built(Windows[w][next])
  BY DEF Fold, opencti
<1>2. PlaceInv'
  <2>1. w \in DOMAIN Windows /\ Len(Windows[w]) \in Nat /\ next \in 1..Len(Windows[w]) + 1
    BY <1>1, WindowTypes DEF MemoryInv, PlaceInv, Between
  <2>2. next' \in 1..Len(Windows[w]) + 1
    BY <1>1, <2>1
  <2> QED
    BY <1>1, <2>2 DEF MemoryInv, PlaceInv, Folded, Between
<1>3. DraftInv'
  BY <1>1, FoldDraft DEF MemoryInv
<1>4. HeldInv'
  BY <1>1 DEF MemoryInv, HeldInv, KnownLabels, WindowLabels, LabelsUpto, Labelling, EdgeLabel,
              KnownScore, AtCeiling, FirstBuilt, Building, Lapsed, Renewed, InHand
<1>5. StoredInv' /\ ScoreTypes' /\ TimeInv' /\ CapHolds'
  BY <1>1 DEF MemoryInv, StoredInv, ScoreTypes, TimeInv, CapHolds
<1> QED
  BY <1>2, <1>3, <1>4, <1>5 DEF MemoryInv

LEMMA StartCycleStep == MemoryInv /\ StartCycle => MemoryInv'
<1> SUFFICES ASSUME MemoryInv, StartCycle PROVE MemoryInv'
  OBVIOUS
<1>1. /\ UNCHANGED <<w, maxState, held, unsaved>> /\ next' = 1 /\ pc = "idle" /\ pc' = "fold"
      /\ draft' = <<>> /\ bundle' = {} /\ w <= Len(Windows)
      /\ now' \in Int /\ now <= now'
  BY MemoryAssumption DEF StartCycle, memory, opencti, missing
<1>2. w \in DOMAIN Windows
  BY <1>1, MemoryAssumption DEF MemoryInv, PlaceInv
<1>3. /\ PlaceInv'
      /\ \A o : \A i \in Building(o)' : ~(i < next')
  BY <1>1, <1>2, WindowTypes DEF MemoryInv, PlaceInv, Folded, Building, Between
<1>4. DraftInv'
  <2>1. DOMAIN draft' = {}
    BY <1>1
  <2> QED
    BY <1>1, <1>3, <2>1 DEF DraftInv
<1>5. \A o \in DOMAIN held : ~Lapsed(o)' => ~Lapsed(o)
  BY <1>1, LapsedKept DEF MemoryInv
<1>6. HeldInv'
  BY <1>1, <1>5 DEF MemoryInv, HeldInv, KnownLabels, WindowLabels, LabelsUpto, Labelling, EdgeLabel,
              KnownScore, AtCeiling, FirstBuilt, Building, Renewed, InHand
<1>7. StoredInv' /\ ScoreTypes' /\ CapHolds'
  BY <1>1 DEF MemoryInv, StoredInv, ScoreTypes, CapHolds
<1>8. TimeInv'
  BY <1>1 DEF MemoryInv, TimeInv
<1> QED
  BY <1>3, <1>4, <1>6, <1>7, <1>8 DEF MemoryInv

LEMMA PublishStep == MemoryInv /\ Publish => MemoryInv'
<1> SUFFICES ASSUME MemoryInv, Publish PROVE MemoryInv'
  OBVIOUS
<1>1. UNCHANGED <<w, next, maxState, draft, bundle>> /\ pc = "publish" /\ pc' = "max"
  BY DEF Publish, memory
<1>2. PlaceInv' /\ DraftInv' /\ StoredInv'
  <2>1. PlaceInv'
    BY <1>1 DEF MemoryInv, PlaceInv, Folded, Between
  <2>2. DraftInv'
    BY <1>1 DEF MemoryInv, DraftInv, LabelsUpto, Labelling, FirstBuilt, Building, Between
  <2>3. StoredInv'
    BY <1>1 DEF MemoryInv, StoredInv
  <2> QED
    BY <2>1, <2>2, <2>3
<1> QED
  BY <1>2, PublishHeld DEF MemoryInv

(* The objects a campaign, a note or a credential store add are no addresses  *)
(* and no Indicators.                                                         *)
LEMMA OtherEntities ==
  /\ \A k : Campaign(k) \notin Objects /\ Credentials(k) \notin Objects
  /\ \A a, t : Indicates(a, t) \notin Objects /\ LiveNote(a, t) \notin Objects
  /\ \A p, a, d : Summary(p, a, d) \notin Objects
BY DEF Campaign, Credentials, Indicates, LiveNote, Summary, Objects

LEMMA MemoryInvStep == MemoryInv /\ [Next]_vars => MemoryInv'
<1> SUFFICES ASSUME MemoryInv, [Next]_vars PROVE MemoryInv'
  OBVIOUS
<1> USE DEF missing
<1>1. CASE EndFold
  <2>1. w \in DOMAIN Windows /\ Len(Windows[w]) \in Nat /\ next \in 1..Len(Windows[w]) + 1
    BY <1>1, WindowTypes DEF EndFold, MemoryInv, PlaceInv, Between
  <2>2. PlaceInv'
    BY <1>1, <2>1 DEF EndFold, MemoryInv, PlaceInv, Folded, Between
  <2> QED
    BY <1>1, <2>2, Undisturbed DEF EndFold, memory, cycle, opencti, Between
<1>2. CASE StoreCredentials
  <2>1. PlaceInv'
    BY <1>2 DEF StoreCredentials, MemoryInv, PlaceInv, Folded, Between
  <2>2. bundle' \cap Objects \subseteq bundle
    BY <1>2, OtherEntities DEF StoreCredentials
  <2> QED
    BY <1>2, <2>1, <2>2, Undisturbed DEF StoreCredentials, opencti, Between
<1>3. CASE EmitCampaign
  <2>1. PlaceInv'
    BY <1>3 DEF EmitCampaign, MemoryInv, PlaceInv, Folded, Between
  <2>2. bundle' \cap Objects \subseteq bundle
    BY <1>3, OtherEntities DEF EmitCampaign
  <2> QED
    BY <1>3, <2>1, <2>2, Undisturbed DEF EmitCampaign, opencti, Between
<1>4. CASE EmitNote
  <2>1. PlaceInv'
    BY <1>4 DEF EmitNote, MemoryInv, PlaceInv, Folded, Between
  <2>2. bundle' \cap Objects \subseteq bundle
    BY <1>4, OtherEntities DEF EmitNote
  <2> QED
    BY <1>4, <2>1, <2>2, Undisturbed DEF EmitNote, opencti, Between
<1>5. CASE EmitSummary
  <2>1. PlaceInv'
    BY <1>5 DEF EmitSummary, MemoryInv, PlaceInv, Folded, Between
  <2>2. bundle' \cap Objects \subseteq bundle
    BY <1>5, OtherEntities DEF EmitSummary, Summaries
  <2> QED
    BY <1>5, <2>1, <2>2, Undisturbed DEF EmitSummary, opencti, Between
<1>6. CASE MarkOnce
  <2>1. PlaceInv'
    BY <1>6 DEF MarkOnce, MemoryInv, PlaceInv, Folded, Between
  <2> QED
    BY <1>6, <2>1, Undisturbed DEF MarkOnce, cycle, opencti, Between
<1>7. CASE Crash
  <2>1. PlaceInv'
    BY <1>7 DEF Crash, MemoryInv, PlaceInv, Folded, Between
  <2> QED
    BY <1>7, <2>1, Undisturbed DEF Crash, memory, cycle, opencti, Between
<1>8. CASE LoseEdge
  <2>1. PlaceInv'
    BY <1>8 DEF LoseEdge, MemoryInv, PlaceInv, Folded, Between
  <2> QED
    BY <1>8, <2>1, Undisturbed DEF LoseEdge, memory, cycle, Between
<1>9. CASE ClearLedger
  <2>1. PlaceInv'
    BY <1>9 DEF ClearLedger, MemoryInv, PlaceInv, Folded, Between
  <2> QED
    BY <1>9, <2>1, Undisturbed DEF ClearLedger, cycle, opencti, Between
<1>10. CASE UNCHANGED vars
  <2>1. PlaceInv'
    BY <1>10 DEF vars, MemoryInv, PlaceInv, Folded, Between
  <2> QED
    BY <1>10, <2>1, Undisturbed DEF vars, memory, cycle, opencti, Between
<1>11. CASE AllRead
  BY <1>10, <1>11 DEF AllRead
<1> QED
  BY <1>1, <1>2, <1>3, <1>4, <1>5, <1>6, <1>7, <1>8, <1>9, <1>10, <1>11, StartCycleStep,
     FoldStep, PublishStep, WithholdStep, StoreMaxStep, MoveCursorStep, PruneStep DEF Next

(* Only a publish changes what OpenCTI holds of an object.                    *)
LEMMA OnlyPublishMovesHeld == [Next]_vars => Publish \/ UNCHANGED held
<1> SUFFICES ASSUME [Next]_vars, ~Publish PROVE UNCHANGED held
  OBVIOUS
<1> USE DEF opencti
<1>1. CASE UNCHANGED vars
  BY <1>1 DEF vars
<1>2. CASE StartCycle \/ Fold \/ EndFold \/ StoreCredentials
  BY <1>2 DEF StartCycle, Fold, EndFold, StoreCredentials
<1>3. CASE EmitCampaign \/ EmitNote \/ EmitSummary
  BY <1>3 DEF EmitCampaign, EmitNote, EmitSummary
<1>4. CASE WithholdPublish \/ StoreMax \/ MarkOnce \/ MoveCursor \/ Prune
  BY <1>4 DEF WithholdPublish, StoreMax, MarkOnce, MoveCursor, Prune
<1>5. CASE Crash \/ LoseEdge \/ ClearLedger \/ AllRead
  BY <1>5 DEF Crash, LoseEdge, ClearLedger, AllRead, vars
<1> QED
  BY <1>1, <1>2, <1>3, <1>4, <1>5 DEF Next

--------------------------------------------------------------------------------
(* No crash, no unclean publish and no lost write, wherever it falls, lets an *)
(* address that lies in a CDN range, or whose version in OpenCTI was labelled *)
(* a scanner since its row last lapsed, stand there above the ceiling; and    *)
(* pruning takes no such row but one that 180 days without a delivery made    *)
(* lapse (ScoreCeiling.apply after the merge with object_max_state;           *)
(* prune_object_max_state).                                                   *)
THEOREM CeilingIsKept == Spec => []CapHolds
<1>1. MemoryInv => CapHolds
  BY DEF MemoryInv
<1> QED
  BY <1>1, MemoryInvInit, MemoryInvStep, PTL DEF Spec

(* Nor does the score of an object in OpenCTI ever fall, except to the        *)
(* ceiling or once its row has lapsed: not when the process dies between the  *)
(* publish and the write to object_max_state (upsert_max_state_bulk), and not *)
(* because its row was pruned while the object was being renewed.             *)
THEOREM ScoresNeverFall == Spec => RatchetHolds
<1>1. MemoryInv /\ [Next]_vars =>
        [\A o \in DOMAIN held :
           held'[o].score < held[o].score =>
             \/ Lapsed(o)
             \/ /\ held'[o].score = Ceiling
                /\ o[2] \in Edge \/ "scanner" \in held'[o].labels]_vars
  <2> SUFFICES ASSUME MemoryInv, [Next]_vars, vars' # vars,
                      NEW o \in DOMAIN held, held'[o].score < held[o].score, ~Lapsed(o)
               PROVE  /\ held'[o].score = Ceiling
                      /\ o[2] \in Edge \/ "scanner" \in held'[o].labels
    OBVIOUS
  <2>1. CASE Publish
    BY <2>1, PublishHeld
  <2>2. CASE UNCHANGED held
    BY <2>2 DEF MemoryInv, ScoreTypes
  <2> QED
    BY <2>1, <2>2, OnlyPublishMovesHeld
<1> QED
  BY <1>1, MemoryInvInit, MemoryInvStep, PTL DEF Spec, RatchetHolds

--------------------------------------------------------------------------------
(* What a cycle puts into its bundle stays there, and OpenCTI loses nothing   *)
(* but immutable edges, and only between cycles.                              *)
LEMMA BundleKept ==
  ASSUME [Next]_vars, ~StartCycle, ~Fold, ~Between'
  PROVE  ~Between /\ UNCHANGED <<w, next, withheld>> /\ bundle \subseteq bundle'
<1> USE DEF memory, cycle, Between
<1>1. CASE UNCHANGED vars
  BY <1>1 DEF vars
<1>2. CASE EndFold \/ StoreCredentials
  BY <1>2 DEF EndFold, StoreCredentials
<1>3. CASE EmitCampaign \/ EmitNote \/ EmitSummary
  BY <1>3 DEF EmitCampaign, EmitNote, EmitSummary
<1>4. CASE Publish \/ WithholdPublish \/ StoreMax \/ MarkOnce
  BY <1>4 DEF Publish, WithholdPublish, StoreMax, MarkOnce
<1>5. CASE MoveCursor \/ Prune \/ Crash \/ LoseEdge \/ ClearLedger \/ AllRead
  BY <1>5 DEF MoveCursor, Prune, Crash, LoseEdge, ClearLedger, AllRead, vars
<1> QED
  BY <1>1, <1>2, <1>3, <1>4, <1>5 DEF Next

(* Only the cursor leaves a window.                                           *)
LEMMA WindowKept ==
  ASSUME [Next]_vars, ~MoveCursor
  PROVE  w' = w
<1>1. CASE UNCHANGED vars
  BY <1>1 DEF vars
<1>2. CASE StartCycle \/ Fold \/ EndFold \/ StoreCredentials
  BY <1>2 DEF StartCycle, Fold, EndFold, StoreCredentials
<1>3. CASE EmitCampaign \/ EmitNote \/ EmitSummary
  BY <1>3 DEF EmitCampaign, EmitNote, EmitSummary
<1>4. CASE Publish \/ WithholdPublish \/ StoreMax \/ MarkOnce \/ Prune
  BY <1>4 DEF Publish, WithholdPublish, StoreMax, MarkOnce, Prune
<1>5. CASE Crash \/ LoseEdge \/ ClearLedger \/ AllRead
  BY <1>5 DEF Crash, LoseEdge, ClearLedger, AllRead, vars
<1> QED
  BY <1>1, <1>2, <1>3, <1>4, <1>5 DEF Next

LEMMA PlatformKept ==
  ASSUME [Next]_vars, ~Publish, ~LoseEdge
  PROVE  UNCHANGED <<platform, held, told>>
<1> USE DEF opencti
<1>1. CASE UNCHANGED vars
  BY <1>1 DEF vars
<1>2. CASE StartCycle \/ Fold \/ EndFold \/ StoreCredentials
  BY <1>2 DEF StartCycle, Fold, EndFold, StoreCredentials
<1>3. CASE EmitCampaign \/ EmitNote \/ EmitSummary
  BY <1>3 DEF EmitCampaign, EmitNote, EmitSummary
<1>4. CASE WithholdPublish \/ StoreMax \/ MarkOnce \/ MoveCursor \/ Prune
  BY <1>4 DEF WithholdPublish, StoreMax, MarkOnce, MoveCursor, Prune
<1>5. CASE Crash \/ ClearLedger \/ AllRead
  BY <1>5 DEF Crash, ClearLedger, AllRead, vars
<1> QED
  BY <1>1, <1>2, <1>3, <1>4, <1>5 DEF Next

LEMMA LedgerKept ==
  ASSUME [Next]_vars, ~Publish, ~MarkOnce, ~LoseEdge, ~ClearLedger
  PROVE  UNCHANGED <<ledger, stale>>
<1> USE DEF memory, missing
<1>1. CASE UNCHANGED vars
  BY <1>1 DEF vars
<1>2. CASE StartCycle \/ Fold \/ EndFold \/ StoreCredentials
  BY <1>2 DEF StartCycle, Fold, EndFold, StoreCredentials
<1>3. CASE EmitCampaign \/ EmitNote \/ EmitSummary
  BY <1>3 DEF EmitCampaign, EmitNote, EmitSummary
<1>4. CASE WithholdPublish \/ StoreMax \/ MoveCursor \/ Prune
  BY <1>4 DEF WithholdPublish, StoreMax, MoveCursor, Prune
<1>5. CASE Crash \/ AllRead
  BY <1>5 DEF Crash, AllRead, vars
<1> QED
  BY <1>1, <1>2, <1>3, <1>4, <1>5 DEF Next

(* The bundle holds what was built for the sessions folded so far; the ledger *)
(* asserts nothing that OpenCTI has not, save what it lost; and a clean       *)
(* publish leaves nothing to send and, with what the ledger suppressed, the   *)
(* edge of every session of the window.                                       *)
BuiltInv == ~Between => \A j \in 1..next - 1 : Built(Windows[w][j]) \subseteq bundle
WindowLinked ==
  w \in DOMAIN Windows =>
    \A s \in Range(Windows[w]) : s.permitted => BasedOn(s.ip) \in platform \cup stale
EdgeInv ==
  /\ ledger \subseteq platform \cup stale
  /\ pc \in {"max", "once"} /\ clean => Outgoing \subseteq platform
  /\ pc \in {"max", "once", "cursor"} /\ clean => WindowLinked

LEMMA BuiltStep == MemoryInv /\ BuiltInv /\ [Next]_vars => BuiltInv'
<1> SUFFICES ASSUME MemoryInv, BuiltInv, [Next]_vars, ~Between',
                    NEW j \in 1..next' - 1
             PROVE  Built(Windows[w'][j]) \subseteq bundle'
  BY DEF BuiltInv, Built
<1>1. CASE StartCycle
  BY <1>1 DEF StartCycle
<1>2. CASE Fold
  <2>1. /\ w' = w /\ next' = next + 1 /\ pc = "fold"
        /\ bundle' = bundle \cup Built(Windows[w][next])
    BY <1>2 DEF Fold
  <2>2. next \in Nat
    BY <2>1, WindowTypes DEF MemoryInv, PlaceInv, Between
  <2>3. j \in 1..next - 1 \/ j = next
    BY <2>1, <2>2
  <2> QED
    BY <2>1, <2>3 DEF BuiltInv, Between
<1>3. CASE ~StartCycle /\ ~Fold
  BY <1>3, BundleKept DEF BuiltInv
<1> QED
  BY <1>1, <1>2, <1>3

(* What a publish delivers: part of what goes out, and all of it exactly when *)
(* it is clean; nothing else goes out for that.                               *)
LEMMA PublishDelivers ==
  ASSUME Publish
  PROVE  \E landed \in SUBSET Outgoing :
           /\ clean' = (Outgoing \subseteq landed)
           /\ clean' \in BOOLEAN
           /\ faults' = (IF clean' THEN faults ELSE faults + 1)
           /\ platform' = platform \cup landed /\ stale' = stale \ landed
           /\ told' = [a \in Addresses |-> IF Credentials(a) \in landed THEN Note(a) ELSE told[a]]
           /\ Outgoing' = Outgoing
<1>1. PICK sent \in SUBSET {Entities, Edges} :
        LET landed == Outgoing \cap UNION sent IN
          /\ clean' = (Outgoing \subseteq landed)
          /\ faults' = (IF clean' THEN faults ELSE faults + 1)
          /\ platform' = platform \cup landed /\ stale' = stale \ landed
          /\ told' = [a \in Addresses |-> IF Credentials(a) \in landed THEN Note(a) ELSE told[a]]
  BY DEF Publish
<1> DEFINE landed == Outgoing \cap UNION sent
<1>2. landed \subseteq bundle
  BY DEF Outgoing, Resolvable
<1>3. bundle' = bundle /\ ledger' = ledger
  BY DEF Publish, memory
<1>4. bundle' \cup platform' = bundle \cup platform
  BY <1>1, <1>2, <1>3
<1>5. Resolvable' = Resolvable
  BY <1>3, <1>4 DEF Resolvable
<1>6. Outgoing' = Outgoing
  BY <1>3, <1>5 DEF Outgoing
<1> QED
  BY <1>1, <1>6

(* Nothing the bundle holds of a permitted session's address is stripped.     *)
LEMMA BuiltResolves ==
  ASSUME NEW s \in Sessions, Built(s) \subseteq bundle
  PROVE  /\ Built(s) \subseteq Resolvable
         /\ s.permitted => <<"indicator", s.ip>> \in Outgoing
         /\ s.permitted /\ BasedOn(s.ip) \notin ledger => BasedOn(s.ip) \in Outgoing
<1>1. <<"ip", s.ip>> \in bundle /\ <<"ip", s.ip>> \in Resolvable
  BY DEF Built, Resolvable, Endpoints, Subjects
<1>2. ASSUME s.permitted
      PROVE  /\ <<"indicator", s.ip>> \in bundle /\ <<"indicator", s.ip>> \in Resolvable
             /\ BasedOn(s.ip) \in bundle
  BY <1>2 DEF Built, Resolvable, Endpoints, Subjects
<1>3. ASSUME s.permitted PROVE BasedOn(s.ip) \in Resolvable
  <2>1. Endpoints(BasedOn(s.ip)) = {<<"indicator", s.ip>>, <<"ip", s.ip>>}
    BY DEF Endpoints, BasedOn
  <2>2. Subjects(BasedOn(s.ip)) = {} \/ <<"ip", s.ip>> \in Subjects(BasedOn(s.ip))
    BY DEF Subjects, BasedOn
  <2> QED
    BY <1>1, <1>2, <1>3, <2>1, <2>2 DEF Resolvable
<1>4. <<"indicator", s.ip>> \notin Immutable
  BY DEF Immutable, BasedOn
<1> QED
  BY <1>1, <1>2, <1>3, <1>4 DEF Built, Outgoing

LEMMA EdgePublish == MemoryInv /\ BuiltInv /\ EdgeInv /\ Publish => EdgeInv'
<1> SUFFICES ASSUME MemoryInv, BuiltInv, EdgeInv, Publish PROVE EdgeInv'
  OBVIOUS
<1>1. pc = "publish" /\ pc' = "max" /\ UNCHANGED <<w, next, ledger, bundle>>
  BY DEF Publish, memory
<1>2. PICK landed \in SUBSET Outgoing :
        /\ clean' = (Outgoing \subseteq landed)
        /\ platform' = platform \cup landed /\ stale' = stale \ landed
        /\ Outgoing' = Outgoing
  BY PublishDelivers
<1>3. ledger' \subseteq platform' \cup stale'
  BY <1>1, <1>2 DEF EdgeInv
<1>4. ASSUME clean', w \in DOMAIN Windows, NEW s \in Range(Windows[w]), s.permitted
      PROVE  BasedOn(s.ip) \in platform' \cup stale'
  <2>1. PICK j \in DOMAIN Windows[w] : s = Windows[w][j]
    BY <1>4 DEF Range
  <2>2. s \in Sessions /\ Built(s) \subseteq bundle
    <3>1. next = Len(Windows[w]) + 1
      BY <1>1 DEF MemoryInv, PlaceInv, Folded
    <3>2. s \in Sessions /\ Len(Windows[w]) \in Nat /\ j \in 1..Len(Windows[w])
      BY <1>4, <2>1, WindowTypes
    <3>3. j \in 1..next - 1
      BY <3>1, <3>2
    <3> QED
      BY <1>1, <2>1, <3>2, <3>3 DEF BuiltInv, Between
  <2>3. BasedOn(s.ip) \in ledger \/ BasedOn(s.ip) \in Outgoing
    BY <1>4, <2>2, BuiltResolves
  <2> QED
    BY <1>1, <1>2, <1>3, <1>4, <2>3
<1>5. clean' => WindowLinked'
  BY <1>1, <1>4 DEF WindowLinked
<1> QED
  BY <1>1, <1>2, <1>3, <1>5 DEF EdgeInv

LEMMA EdgeStep == MemoryInv /\ BuiltInv /\ EdgeInv /\ [Next]_vars => EdgeInv'
<1> SUFFICES ASSUME MemoryInv, BuiltInv, EdgeInv, [Next]_vars PROVE EdgeInv'
  OBVIOUS
<1> USE DEF memory, cycle, opencti, missing
<1>1. CASE Publish
  BY <1>1, EdgePublish
<1>2. CASE MarkOnce
  <2>1. /\ UNCHANGED <<w, clean, platform, stale>> /\ pc = "once" /\ pc' = "cursor"
        /\ ledger' = ledger \cup NewlyRecorded \/ ledger' = ledger
    BY <1>2 DEF MarkOnce
  <2>2. NewlyRecorded \subseteq platform
    BY <2>1 DEF NewlyRecorded, EdgeInv
  <2> QED
    BY <2>1, <2>2 DEF EdgeInv, WindowLinked
<1>3. CASE LoseEdge
  BY <1>3 DEF LoseEdge, EdgeInv
<1>4. CASE ClearLedger
  BY <1>4 DEF ClearLedger, EdgeInv
<1>5. CASE StoreMax
  <2>1. /\ UNCHANGED <<w, platform, stale, ledger, bundle>> /\ pc = "max" /\ pc' = "once"
        /\ clean' = clean \/ clean' = FALSE
    BY <1>5 DEF StoreMax
  <2>2. Outgoing' = Outgoing
    BY <2>1 DEF Outgoing, Resolvable
  <2>3. clean' => clean
    BY <2>1, Zenon
  <2> QED
    BY <2>1, <2>2, <2>3 DEF EdgeInv, WindowLinked
<1>6. CASE UNCHANGED vars
  BY <1>6 DEF vars, EdgeInv, WindowLinked, Outgoing, Resolvable
<1>7. CASE pc' \notin {"max", "once", "cursor"} /\ UNCHANGED <<platform, stale, ledger>>
  BY <1>7 DEF EdgeInv
<1>8. ASSUME ~Publish, ~MarkOnce, ~LoseEdge, ~ClearLedger, ~StoreMax, ~UNCHANGED vars
      PROVE  pc' \notin {"max", "once", "cursor"}
  BY <1>8 DEF Next, StartCycle, Fold, EndFold, StoreCredentials, EmitCampaign, EmitNote,
              EmitSummary, WithholdPublish, MoveCursor, Prune, Crash, AllRead
<1> QED
  BY <1>1, <1>2, <1>3, <1>4, <1>5, <1>6, <1>7, <1>8, PlatformKept, LedgerKept

LEMMA EdgeInvInit == Init => BuiltInv /\ EdgeInv
BY DEF Init, BuiltInv, EdgeInv, Between

(* A window is left behind only with the immutable edges of all its sessions  *)
(* in OpenCTI, whether this cycle sent them or the ledger suppressed them,    *)
(* and whatever was lost, cleared, interrupted or sent in part before.        *)
THEOREM EdgesOutlastTheirWindow == Spec => EdgesPresent
<1>1. MemoryInv /\ EdgeInv /\ [Next]_vars =>
        [w' > w => \A s \in Range(Windows[w]) :
                     s.permitted => BasedOn(s.ip) \in platform \cup stale]_vars
  <2> SUFFICES ASSUME MemoryInv, EdgeInv, Next, w' > w,
                      NEW s \in Range(Windows[w]), s.permitted
               PROVE  BasedOn(s.ip) \in platform \cup stale
    OBVIOUS
  <2>1. w \in Int
    BY DEF MemoryInv, PlaceInv
  <2>2. w' # w
    BY <2>1
  <2>3. MoveCursor
    BY <2>2, WindowKept
  <2>4. pc = "cursor" /\ clean
    BY <2>2, <2>3 DEF MoveCursor
  <2>5. w \in DOMAIN Windows
    BY <2>4 DEF MemoryInv, PlaceInv, Between
  <2> QED
    BY <2>4, <2>5 DEF EdgeInv, WindowLinked
<1> QED
  BY <1>1, MemoryInvInit, MemoryInvStep, EdgeInvInit, BuiltStep, EdgeStep,
     PTL DEF Spec, EdgesPresent

--------------------------------------------------------------------------------
(* While no fault has occurred, a campaign in size is complete as soon as its *)
(* artifact, shown by the window, has been looked at: every member the gate   *)
(* never refused is marked, and what its mark stands for is in OpenCTI or on  *)
(* its way there.                                                             *)
AlwaysPermitted(a) == \A s \in Sessions : s.ip = a => s.permitted
Shown ==
  IF pc = "idle" THEN {}
  ELSE IF pc = "prune" THEN UNION {s.artifacts : s \in Range(Windows[w - 1])}
  ELSE UNION {Windows[w][j].artifacts : j \in 1..next - 1}
Complete(k) ==
  Cardinality(Members(k)) \in MinMembers..MaxMembers =>
    \A m \in Members(k) : AlwaysPermitted(m.ip) => m.emitted
OnItsWay(x) == x \in platform \/ (pc \in {"fold", "store", "roll", "publish"} /\ x \in bundle)
MemberTypes == members \subseteq [key : Keys, ip : Addresses, last : Int, emitted : BOOLEAN]
Backed(m) ==
  AlwaysPermitted(m.ip) =>
    /\ OnItsWay(<<"indicator", m.ip>>)
    /\ m.emitted => OnItsWay(Indicates(m.ip, m.key)) /\ OnItsWay(Campaign(m.key))
AttachInv ==
  /\ pc \in {"max", "once", "cursor"} => clean
  /\ pc \in {"publish", "max", "once", "cursor", "prune"} => keys = {}
  /\ \A k \in Shown : k \notin keys => Complete(k)
  /\ \A m \in members : Backed(m)
  /\ ~Between => \A a \in withheld : ~AlwaysPermitted(a)
AttachedInv == faults \in Nat /\ MemberTypes /\ (faults = 0 => AttachInv)

(* Faults are counted, never taken back.                                      *)
LEMMA FaultsKept ==
  ASSUME [Next]_vars, faults \in Nat
  PROVE  faults' \in Nat /\ faults <= faults'
<1>1. CASE UNCHANGED vars
  BY <1>1 DEF vars
<1>2. CASE Publish
  BY <1>2, PublishDelivers
<1>3. CASE StartCycle \/ EndFold \/ StoreCredentials
  BY <1>3 DEF StartCycle, EndFold, StoreCredentials
<1>7. CASE Fold
  <2>1. faults' = faults \/ faults' = faults + 1
    BY <1>7 DEF Fold
  <2> QED
    BY <2>1
<1>4. CASE EmitCampaign \/ EmitNote \/ EmitSummary
  BY <1>4 DEF EmitCampaign, EmitNote, EmitSummary
<1>5. CASE WithholdPublish \/ StoreMax \/ MarkOnce \/ MoveCursor \/ Prune
  <2>1. faults' = faults \/ faults' = faults + 1
    <3>1. CASE WithholdPublish \/ StoreMax
      BY <3>1 DEF WithholdPublish, StoreMax
    <3>2. CASE MarkOnce \/ MoveCursor
      BY <3>2 DEF MarkOnce, MoveCursor
    <3>3. CASE Prune
      BY <3>3 DEF Prune
    <3> QED
      BY <1>5, <3>1, <3>2, <3>3
  <2> QED
    BY <2>1
<1>6. CASE Crash \/ LoseEdge \/ ClearLedger \/ AllRead
  BY <1>6 DEF Crash, LoseEdge, ClearLedger, AllRead, vars
<1> QED
  BY <1>1, <1>2, <1>3, <1>4, <1>5, <1>6, <1>7 DEF Next

LEMMA MembersKept ==
  ASSUME [Next]_vars, ~Fold, ~EmitCampaign, ~Prune
  PROVE  members' = members
<1> USE DEF memory
<1>1. CASE UNCHANGED vars
  BY <1>1 DEF vars
<1>2. CASE StartCycle \/ EndFold \/ StoreCredentials \/ EmitNote \/ EmitSummary
  BY <1>2 DEF StartCycle, EndFold, StoreCredentials, EmitNote, EmitSummary
<1>3. CASE Publish \/ WithholdPublish \/ StoreMax \/ MarkOnce \/ MoveCursor
  BY <1>3 DEF Publish, WithholdPublish, StoreMax, MarkOnce, MoveCursor
<1>4. CASE Crash \/ LoseEdge \/ ClearLedger \/ AllRead
  BY <1>4 DEF Crash, LoseEdge, ClearLedger, AllRead, vars
<1> QED
  BY <1>1, <1>2, <1>3, <1>4 DEF Next

LEMMA MemberTypesStep == MemoryInv /\ MemberTypes /\ [Next]_vars => MemberTypes'
<1> SUFFICES ASSUME MemoryInv, MemberTypes, [Next]_vars PROVE MemberTypes'
  OBVIOUS
<1>1. CASE Fold
  <2> DEFINE s == Windows[w][next]
  <2>0. w \in DOMAIN Windows /\ next \in DOMAIN Windows[w]
    BY <1>1, WindowTypes DEF Fold, MemoryInv, PlaceInv, Between
  <2>1. s \in Sessions /\ s.ip \in Addresses /\ s.last \in Int
    BY <2>0, WindowTypes, MemoryAssumption
  <2>2. PICK kept \in SUBSET s.artifacts : members' = Recorded(s, kept)
    BY <1>1 DEF Fold
  <2>3. kept \subseteq Keys
    BY <2>1 DEF Keys
  <2>4. \A k : (\E m \in members : m.key = k /\ m.ip = s.ip /\ m.emitted) \in BOOLEAN
    OBVIOUS
  <2>5. \A k \in Keys, a \in Addresses, l \in Int, e \in BOOLEAN :
          [key |-> k, ip |-> a, last |-> l, emitted |-> e]
            \in [key : Keys, ip : Addresses, last : Int, emitted : BOOLEAN]
    OBVIOUS
  <2> HIDE DEF s
  <2>6. ASSUME NEW m \in Recorded(s, kept), m \notin members
        PROVE  m \in [key : Keys, ip : Addresses, last : Int, emitted : BOOLEAN]
    <3>1. PICK k \in kept :
            m = [key |-> k, ip |-> s.ip, last |-> s.last,
                 emitted |-> \E n \in members : n.key = k /\ n.ip = s.ip /\ n.emitted]
      BY <2>6 DEF Recorded
    <3> QED
      BY <2>1, <2>3, <2>4, <2>5, <3>1
  <2> QED
    BY <2>2, <2>6 DEF MemberTypes
<1>2. CASE EmitCampaign
  <2>1. PICK k \in keys :
          members' = (members \ Attachable(k)) \cup {[m EXCEPT !.emitted = TRUE] : m \in Attachable(k)}
    BY <1>2 DEF EmitCampaign
  <2>2. Attachable(k) \subseteq members
    BY DEF Attachable, Members
  <2> QED
    BY <2>1, <2>2 DEF MemberTypes
<1>3. CASE Prune
  BY <1>3 DEF Prune, MemberTypes
<1>4. CASE ~Fold /\ ~EmitCampaign /\ ~Prune
  BY <1>4, MembersKept DEF MemberTypes
<1> QED
  BY <1>1, <1>2, <1>3, <1>4

(* A step that adds to the bundle or leaves it alone keeps what is on its way *)
(* and what is complete.                                                      *)
LEMMA AttachKept ==
  ASSUME AttachInv, UNCHANGED <<members, w, next, keys, platform>>, bundle \subseteq bundle',
         pc' \in {"fold", "store", "roll", "publish"} <=> pc \in {"fold", "store", "roll", "publish"},
         pc' = "idle" <=> pc = "idle", pc' = "prune" <=> pc = "prune",
         pc' \in {"max", "once", "cursor"} => clean',
         pc' \in {"publish", "max", "once", "cursor", "prune"} => keys = {},
         ~Between' => withheld' = withheld
  PROVE  AttachInv'
<1>1. \A k : Complete(k) => Complete(k)'
  BY DEF Complete, Members
<1>2. \A x : OnItsWay(x) => OnItsWay(x)'
  BY DEF OnItsWay
<1>3. \A m : Backed(m) => Backed(m)'
  BY <1>2 DEF Backed
<1>4. Shown' = Shown
  BY DEF Shown
<1> QED
  BY <1>1, <1>3, <1>4 DEF AttachInv, Between

(* A fold in which every write succeeds.                                      *)
LEMMA FoldSound ==
  ASSUME Fold, faults \in Nat, faults' = 0
  PROVE  LET s == Windows[w][next] IN
           /\ faults = 0 /\ members' = Recorded(s, s.artifacts) /\ keys' = keys \cup s.artifacts
           /\ s.profiled => activity' = [r \in DOMAIN activity \cup {<<s.ip, s.parser>>} |->
                              IF r = <<s.ip, s.parser>> THEN Activity(s) ELSE activity[r]]
           /\ ~s.profiled => activity' = activity
BY DEF Fold

LEMMA AttachFold ==
  MemoryInv /\ AttachInv /\ Fold /\ faults \in Nat /\ faults' = 0 => AttachInv'
<1> SUFFICES ASSUME MemoryInv, AttachInv, Fold, faults \in Nat, faults' = 0 PROVE AttachInv'
  OBVIOUS
<1>0. PICK s : s = Windows[w][next]
  OBVIOUS
<1>1. /\ pc = "fold" /\ pc' = "fold" /\ platform' = platform /\ w' = w /\ next' = next + 1
      /\ members' = Recorded(s, s.artifacts) /\ keys' = keys \cup s.artifacts
      /\ bundle' = bundle \cup Built(s)
      /\ withheld' = withheld \cup (IF s.permitted THEN {} ELSE {s.ip})
  BY <1>0, FoldSound DEF Fold, opencti
<1>2. s \in Sessions /\ next \in Nat
  BY <1>0, WindowTypes DEF Fold, MemoryInv, PlaceInv, Between
<1>3. \A x : OnItsWay(x) => OnItsWay(x)'
  BY <1>1 DEF OnItsWay
<1>4. ASSUME NEW k \in Shown', k \notin keys' PROVE Complete(k)'
  <2>1. Members(k)' = Members(k)
    BY <1>1, <1>4 DEF Members, Recorded
  <2>2. PICK j \in 1..next : k \in Windows[w][j].artifacts
    BY <1>1, <1>2, <1>4 DEF Shown
  <2>3. j \in 1..next - 1
    BY <1>0, <1>1, <1>2, <1>4, <2>2
  <2>4. k \in Shown
    BY <1>1, <2>2, <2>3 DEF Shown
  <2> QED
    BY <1>1, <1>4, <2>1, <2>4 DEF AttachInv, Complete
<1>5. ASSUME NEW m \in members' PROVE Backed(m)'
  <2>1. CASE m \in members
    BY <1>3, <2>1 DEF AttachInv, Backed
  <2>2. CASE m \notin members
    <3>1. PICK k \in s.artifacts :
            m = [key |-> k, ip |-> s.ip, last |-> s.last,
                 emitted |-> \E n \in members : n.key = k /\ n.ip = s.ip /\ n.emitted]
      BY <1>1, <2>2 DEF Recorded
    <3>2. m.key = k /\ m.ip = s.ip
          /\ (m.emitted => \E n \in members : n.key = k /\ n.ip = s.ip /\ n.emitted)
      BY <3>1
    <3>3. ASSUME AlwaysPermitted(s.ip) PROVE OnItsWay(<<"indicator", s.ip>>)'
      BY <1>1, <1>2, <3>3 DEF AlwaysPermitted, OnItsWay, Built
    <3>4. ASSUME AlwaysPermitted(s.ip), m.emitted
          PROVE  OnItsWay(Indicates(s.ip, k))' /\ OnItsWay(Campaign(k))'
      BY <1>3, <3>2, <3>4 DEF AttachInv, Backed
    <3> QED
      BY <3>2, <3>3, <3>4 DEF Backed
  <2> QED
    BY <2>1, <2>2
<1>6. \A a \in withheld' : ~AlwaysPermitted(a)
  BY <1>1, <1>2 DEF AttachInv, AlwaysPermitted, Between
<1> QED
  BY <1>1, <1>4, <1>5, <1>6 DEF AttachInv

(* Looking at an artifact completes its campaign and marks no member whose    *)
(* edge does not join the bundle (emit_campaigns).                            *)
LEMMA AttachCampaign == MemberTypes /\ AttachInv /\ EmitCampaign => AttachInv'
<1> SUFFICES ASSUME MemberTypes, AttachInv, EmitCampaign PROVE AttachInv'
  OBVIOUS
<1>1. PICK k \in keys :
        /\ keys' = keys \ {k}
        /\ members' = (members \ Attachable(k))
                        \cup {[m EXCEPT !.emitted = TRUE] : m \in Attachable(k)}
        /\ bundle' = bundle \cup
             (IF Attachable(k) = {} THEN {}
              ELSE {Campaign(k)} \cup {Indicates(m.ip, k) : m \in Attachable(k)})
  BY DEF EmitCampaign
<1>2. UNCHANGED <<pc, w, next, withheld, platform, clean>> /\ pc = "roll"
  BY DEF EmitCampaign, opencti
<1>3. \A m \in Attachable(k) : m \in members /\ m.key = k
  BY DEF Attachable, Members
<1>4. \A m \in Attachable(k) :
        LET n == [m EXCEPT !.emitted = TRUE] IN n.key = k /\ n.ip = m.ip /\ n.emitted
  BY <1>3 DEF MemberTypes
<1>5. \A x : OnItsWay(x) => OnItsWay(x)'
  BY <1>1, <1>2 DEF OnItsWay
<1>6. ASSUME NEW j \in Shown', j \notin keys' PROVE Complete(j)'
  <2>0. j \in Shown
    BY <1>2, <1>6 DEF Shown
  <2>1. CASE j # k
    <3>1. Members(j)' = Members(j)
      BY <1>1, <1>3, <1>4, <2>1 DEF Members
    <3> QED
      BY <1>1, <1>2, <1>6, <2>0, <2>1, <3>1 DEF AttachInv, Complete
  <2>2. CASE j = k /\ Cardinality(Members(k)) \notin MinMembers..MaxMembers
    <3>1. Attachable(k) = {}
      BY <2>2 DEF Attachable
    <3>2. Members(k)' = Members(k)
      BY <1>1, <3>1 DEF Members
    <3> QED
      BY <2>2, <3>2 DEF Complete
  <2>3. CASE j = k /\ Cardinality(Members(k)) \in MinMembers..MaxMembers
    <3>1. ASSUME NEW m \in Members(k)', AlwaysPermitted(m.ip) PROVE m.emitted
      <4>1. CASE m \in members /\ m \notin Attachable(k)
        BY <1>2, <2>3, <3>1, <4>1 DEF Attachable, Members, IndicatorAvailable, AttachInv, Between
      <4>2. CASE \E n \in Attachable(k) : m = [n EXCEPT !.emitted = TRUE]
        BY <1>4, <4>2
      <4> QED
        BY <1>1, <3>1, <4>1, <4>2 DEF Members
    <3> QED
      BY <2>3, <3>1 DEF Complete
  <2> QED
    BY <2>1, <2>2, <2>3
<1>7. ASSUME NEW m \in members' PROVE Backed(m)'
  <2>1. CASE m \in members
    BY <1>5, <2>1 DEF AttachInv, Backed
  <2>2. CASE m \notin members
    <3>1. PICK n \in Attachable(k) : m = [n EXCEPT !.emitted = TRUE]
      BY <1>1, <2>2
    <3>2. m.key = k /\ m.ip = n.ip
      BY <1>4, <3>1
    <3>3. AlwaysPermitted(n.ip) => OnItsWay(<<"indicator", n.ip>>)'
      BY <1>3, <1>5 DEF AttachInv, Backed
    <3>4. Campaign(k) \in bundle' /\ Indicates(n.ip, k) \in bundle'
      BY <1>1
    <3>5. OnItsWay(Indicates(n.ip, k))' /\ OnItsWay(Campaign(k))'
      BY <1>2, <3>4 DEF OnItsWay
    <3> QED
      BY <3>2, <3>3, <3>5 DEF Backed
  <2> QED
    BY <2>1, <2>2
<1> QED
  BY <1>2, <1>6, <1>7 DEF AttachInv, Between

(* A clean publish delivers all that was on its way for a complete member.    *)
LEMMA AttachPublish == AttachInv /\ Publish /\ clean' => AttachInv'
<1> SUFFICES ASSUME AttachInv, Publish, clean' PROVE AttachInv'
  OBVIOUS
<1>1. pc = "publish" /\ pc' = "max" /\ UNCHANGED <<w, next, members, keys, withheld>>
  BY DEF Publish, memory
<1>2. PICK landed \in SUBSET Outgoing :
        clean' = (Outgoing \subseteq landed) /\ platform' = platform \cup landed
  BY PublishDelivers
<1>3. Outgoing \cup platform \subseteq platform'
  BY <1>2
<1>4. ASSUME NEW a, OnItsWay(<<"indicator", a>>) PROVE <<"indicator", a>> \in platform'
  <2>1. <<"indicator", a>> \notin Immutable /\ Endpoints(<<"indicator", a>>) = {}
    BY DEF Immutable, BasedOn, Endpoints
  <2>2. <<"indicator", a>> \in Subjects(<<"indicator", a>>) \/ Subjects(<<"indicator", a>>) = {}
    BY DEF Subjects
  <2>3. <<"indicator", a>> \in bundle => <<"indicator", a>> \in Outgoing
    BY <2>1, <2>2 DEF Outgoing, Resolvable
  <2> QED
    BY <1>3, <1>4, <2>3 DEF OnItsWay
<1>5. ASSUME NEW k, OnItsWay(Campaign(k)) PROVE Campaign(k) \in platform'
  <2>1. Campaign(k) \notin Immutable /\ Endpoints(Campaign(k)) = {}
    BY DEF Campaign, Immutable, BasedOn, Endpoints
  <2>2. Subjects(Campaign(k)) = {}
    BY MemoryAssumption DEF Campaign, Subjects, Cadences
  <2>3. Campaign(k) \in bundle => Campaign(k) \in Outgoing
    BY <2>1, <2>2 DEF Outgoing, Resolvable
  <2> QED
    BY <1>3, <1>5, <2>3 DEF OnItsWay
<1>6. ASSUME NEW a, NEW k, OnItsWay(Indicates(a, k)), OnItsWay(Campaign(k)),
             OnItsWay(<<"indicator", a>>)
      PROVE  Indicates(a, k) \in platform'
  <2>1. Indicates(a, k) \notin Immutable
        /\ Endpoints(Indicates(a, k)) = {<<"indicator", a>>, Campaign(k)}
    BY DEF Indicates, Immutable, BasedOn, Endpoints
  <2>2. Subjects(Indicates(a, k)) = {}
    BY MemoryAssumption DEF Indicates, Subjects, Cadences
  <2>3. Indicates(a, k) \in bundle => Indicates(a, k) \in Outgoing
    BY <1>6, <2>1, <2>2 DEF Outgoing, Resolvable, OnItsWay
  <2> QED
    BY <1>3, <1>6, <2>3 DEF OnItsWay
<1>7. \A m \in members : Backed(m)'
  <2> SUFFICES ASSUME NEW m \in members, AlwaysPermitted(m.ip)
               PROVE  /\ <<"indicator", m.ip>> \in platform'
                      /\ m.emitted => /\ Indicates(m.ip, m.key) \in platform'
                                      /\ Campaign(m.key) \in platform'
    BY DEF Backed, OnItsWay
  <2> QED
    BY <1>4, <1>5, <1>6 DEF AttachInv, Backed
<1>8. \A k : Complete(k)' = Complete(k)
  BY <1>1 DEF Complete, Members
<1>9. Shown' = Shown
  BY <1>1 DEF Shown
<1> QED
  BY <1>1, <1>7, <1>8, <1>9 DEF AttachInv, Between

LEMMA AttachCursor ==
  ASSUME MemoryInv, AttachInv, MoveCursor, faults \in Nat, faults' = 0
  PROVE  AttachInv'
<1>1. /\ pc = "cursor" /\ pc' = "prune" /\ w' = w + 1
      /\ UNCHANGED <<members, keys, platform>>
  BY DEF MoveCursor, AttachInv, memory, cycle, opencti
<1>2. /\ w \in DOMAIN Windows /\ next = Len(Windows[w]) + 1 /\ Len(Windows[w]) \in Nat
      /\ DOMAIN Windows[w] = 1..Len(Windows[w]) /\ w \in Nat
  BY <1>1, WindowTypes DEF MemoryInv, PlaceInv, Folded, Between
<1>3. Shown' \subseteq Shown
  <2>1. next - 1 = Len(Windows[w]) /\ w' - 1 = w
    BY <1>1, <1>2
  <2>2. /\ Shown' = UNION {s.artifacts : s \in Range(Windows[w])}
        /\ Shown = UNION {Windows[w][j].artifacts : j \in DOMAIN Windows[w]}
    BY <1>1, <1>2, <2>1 DEF Shown
  <2> QED
    BY <2>2 DEF Range
<1>4. \A k : Complete(k)' = Complete(k)
  BY <1>1 DEF Complete, Members
<1>5. \A m : Backed(m) => Backed(m)'
  BY <1>1 DEF Backed, OnItsWay
<1> QED
  BY <1>1, <1>3, <1>4, <1>5 DEF AttachInv, Between

LEMMA AttachStep ==
  ASSUME MemoryInv, MemberTypes, AttachInv, [Next]_vars, faults \in Nat, faults' = 0
  PROVE  AttachInv'
<1> USE DEF memory, cycle, opencti
<1>1. CASE StartCycle
  <2>1. /\ pc = "idle" /\ pc' = "fold" /\ UNCHANGED <<members, platform>>
        /\ keys' = {} /\ withheld' = {} /\ next' = 1
    BY <1>1 DEF StartCycle
  <2>2. Shown' = {}
    BY <2>1 DEF Shown
  <2>3. \A m : Backed(m) => Backed(m)'
    BY <2>1 DEF Backed, OnItsWay
  <2> QED
    BY <2>1, <2>2, <2>3 DEF AttachInv
<1>2. CASE Fold
  BY <1>2, AttachFold
<1>3. CASE EmitCampaign
  BY <1>3, AttachCampaign
<1>4. CASE Publish
  <2>1. clean'
    BY <1>4, PublishDelivers
  <2> QED
    BY <1>4, <2>1, AttachPublish
<1>5. CASE EndFold
  BY <1>5, AttachKept DEF EndFold
<1>6. CASE StoreCredentials
  BY <1>6, AttachKept DEF StoreCredentials
<1>7. CASE EmitNote
  BY <1>7, AttachKept DEF EmitNote
<1>8. CASE EmitSummary
  BY <1>8, AttachKept DEF EmitSummary
<1>9. CASE StoreMax \/ MarkOnce
  <2>1. clean /\ keys = {}
    BY <1>9 DEF StoreMax, MarkOnce, AttachInv
  <2>2. CASE StoreMax
    <3>1. UNCHANGED <<members, w, next, keys, platform, bundle, clean, withheld>>
          /\ pc = "max" /\ pc' = "once"
      <4>1. faults' # faults + 1
        OBVIOUS
      <4>2. UNCHANGED <<clean, unsaved, faults>>
        BY <2>2, <4>1 DEF StoreMax
      <4> QED
        BY <2>2, <4>2 DEF StoreMax
    <3> QED
      BY <2>1, <3>1, AttachKept
  <2>3. CASE MarkOnce
    BY <2>1, <2>3, AttachKept DEF MarkOnce
  <2> QED
    BY <1>9, <2>2, <2>3
<1>10. CASE MoveCursor
  BY <1>10, AttachCursor
<1>11. CASE Crash \/ WithholdPublish
  BY <1>11 DEF Crash, WithholdPublish
<1>12. CASE LoseEdge
  <2>1. PICK e \in Immutable : platform' = platform \ {e}
    BY <1>12 DEF LoseEdge
  <2>2. pc = "idle" /\ pc' = "idle" /\ UNCHANGED members
    BY <1>12 DEF LoseEdge
  <2>3. \A a, k : /\ e # <<"indicator", a>> /\ e # Indicates(a, k) /\ e # Campaign(k)
    BY <2>1 DEF Immutable, BasedOn, Indicates, Campaign
  <2>4. \A m : Backed(m) => Backed(m)'
    BY <2>1, <2>2, <2>3 DEF Backed, OnItsWay
  <2>5. Shown' = {}
    BY <2>2 DEF Shown
  <2> QED
    BY <2>2, <2>4, <2>5 DEF AttachInv, Between
<1>13. CASE ClearLedger
  BY <1>13, AttachKept DEF ClearLedger, Between
<1>14. CASE UNCHANGED vars
  BY <1>14, AttachKept DEF vars, AttachInv
<1>15. CASE AllRead
  BY <1>14, <1>15 DEF AllRead
<1>16. CASE Prune
  <2>1. /\ pc = "prune" /\ pc' = "idle" /\ platform' = platform /\ members' \subseteq members
    BY <1>16 DEF Prune
  <2>2. \A m : Backed(m) => Backed(m)'
    BY <2>1 DEF Backed, OnItsWay
  <2>3. Shown' = {}
    BY <2>1 DEF Shown
  <2> QED
    BY <2>1, <2>2, <2>3 DEF AttachInv, Between
<1> QED
  BY <1>1, <1>2, <1>3, <1>4, <1>5, <1>6, <1>7, <1>8, <1>9, <1>10, <1>11, <1>12, <1>13,
     <1>14, <1>15, <1>16 DEF Next

LEMMA AttachedStep == MemoryInv /\ AttachedInv /\ [Next]_vars => AttachedInv'
<1> SUFFICES ASSUME MemoryInv, AttachedInv, [Next]_vars PROVE AttachedInv'
  OBVIOUS
<1>1. faults' \in Nat /\ (faults' = 0 => faults = 0)
  BY FaultsKept DEF AttachedInv
<1> QED
  BY <1>1, AttachStep, MemberTypesStep DEF AttachedInv

LEMMA AttachedInit == Init => AttachedInv
<1> SUFFICES ASSUME Init PROVE AttachedInv
  OBVIOUS
<1> QED
  BY DEF Init, AttachedInv, MemberTypes, AttachInv, Shown, Between

(* However an artifact comes to be shared, over however many windows and      *)
(* members, whatever was pruned meanwhile, the campaign in OpenCTI attaches   *)
(* every member it should name when a window that shows its artifact is left: *)
(* the one seen before the artifact was shared is attached with the second    *)
(* (get_unemitted_members, mark_campaign_members_emitted).                    *)
THEOREM CampaignsAttachAll == Spec => []AttachedTogether
<1>1. AttachedInv => AttachedTogether
  <2> SUFFICES ASSUME AttachedInv, pc = "prune", faults = 0,
                      NEW k \in UNION {s.artifacts : s \in Range(Windows[w - 1])},
                      Cardinality(Members(k)) \in MinMembers..MaxMembers,
                      NEW m \in Members(k), AlwaysPermitted(m.ip)
               PROVE  Indicates(m.ip, k) \in platform
    BY DEF AttachedTogether, AlwaysPermitted
  <2>1. k \in Shown
    BY DEF Shown
  <2>2. m \in members /\ m.key = k /\ m.emitted
    BY <2>1 DEF AttachedInv, AttachInv, Complete, Members
  <2> QED
    BY <2>2 DEF AttachedInv, AttachInv, Backed, OnItsWay
<1> QED
  BY <1>1, MemoryInvInit, MemoryInvStep, AttachedInit, AttachedStep, PTL DEF Spec

--------------------------------------------------------------------------------
(* The sessions the roll-up has seen: those of the windows left behind, and   *)
(* the ones this cycle has folded so far.  A cycle that fails leaves its      *)
(* additions in the tables and its sessions to be folded again.  Due is what  *)
(* was written and is too recent for its row to be pruned.                    *)
Session(r) == Windows[r[1]][r[2]]
RowKey(r) == <<Session(r).ip, Session(r).parser>>
FoldedNow == IF Between THEN {} ELSE {<<w, j>> : j \in 1..next - 1}
Seen == Read \cup FoldedNow
SeenOf(row) == {r \in Seen : Session(r).profiled /\ RowKey(r) = row}
DueOf(row) == {r \in SeenOf(row) : Due(r)}

Covers(r) ==
  /\ RowKey(r) \in DOMAIN activity
  /\ activity[RowKey(r)].first <= Session(r).first
  /\ Session(r).last <= activity[RowKey(r)].last
  /\ Session(r).substantive => activity[RowKey(r)].substantive
RowTypes ==
  \A row \in DOMAIN activity :
    /\ activity[row].sessions \in Int
    /\ activity[row].first \in Int /\ activity[row].last \in Int
RowCounts ==
  \A row \in DOMAIN activity :
    /\ Cardinality(DueOf(row)) <= activity[row].sessions
    /\ faults = 0 => activity[row].sessions <= Cardinality(SeenOf(row))
RollInv ==
  /\ IsFiniteSet(Seen) /\ RowTypes /\ RowCounts
  /\ \A r \in Seen : Session(r).profiled /\ Due(r) => Covers(r)

LEMMA ReadNext ==
  ASSUME w \in DOMAIN Windows
  PROVE  UNION {{<<i, j>> : j \in DOMAIN Windows[i]} : i \in 1..w}
           = Read \cup {<<w, j>> : j \in 1..Len(Windows[w])}
<1>1. w \in Nat \ {0} /\ DOMAIN Windows[w] = 1..Len(Windows[w])
  BY WindowTypes
<1>2. \A i : i \in 1..w <=> i \in 1..w - 1 \/ i = w
  BY <1>1
<1>3. UNION {{<<i, j>> : j \in DOMAIN Windows[i]} : i \in 1..w}
        = Read \cup {<<w, j>> : j \in DOMAIN Windows[w]}
  BY <1>2 DEF Read
<1> QED
  BY <1>1, <1>3

(* What a step other than Fold does to the sessions seen.                     *)
LEMMA SeenKept ==
  ASSUME MemoryInv, AttachedInv, [Next]_vars, ~Fold
  PROVE  Seen' \subseteq Seen /\ (faults' = 0 => Seen' = Seen)
<1>0. faults' \in Nat /\ faults <= faults' /\ faults \in Nat
  BY FaultsKept DEF AttachedInv
<1>1. CASE StartCycle
  <2>1. FoldedNow = {} /\ FoldedNow' = {} /\ w' = w
    BY <1>1 DEF StartCycle, FoldedNow, Between
  <2> QED
    BY <2>1 DEF Seen, Read
<1>2. CASE MoveCursor
  <2>1. /\ pc = "cursor" /\ pc' = "prune"
        /\ (w' = w + 1 /\ faults' = faults) \/ (w' = w /\ (~clean \/ faults' = faults + 1))
    BY <1>2 DEF MoveCursor
  <2>2. w \in DOMAIN Windows /\ next = Len(Windows[w]) + 1 /\ Len(Windows[w]) \in Nat /\ w \in Nat
    BY <2>1, WindowTypes DEF MemoryInv, PlaceInv, Folded, Between
  <2>3. FoldedNow' = {} /\ FoldedNow = {<<w, j>> : j \in 1..Len(Windows[w])}
    BY <2>1, <2>2 DEF FoldedNow, Between
  <2>4. CASE w' = w + 1
    <3>1. w' - 1 = w
      BY <2>2, <2>4
    <3>2. Read' = UNION {{<<i, j>> : j \in DOMAIN Windows[i]} : i \in 1..w}
      BY <3>1 DEF Read
    <3> QED
      BY <2>2, <2>3, <3>2, ReadNext DEF Seen
  <2>5. CASE w' = w /\ (~clean \/ faults' = faults + 1)
    <3>1. faults' # 0
      <4>1. ~clean => faults # 0
        BY <2>1 DEF AttachedInv, AttachInv
      <4> QED
        BY <1>0, <2>5, <4>1
    <3>2. Read' = Read
      BY <2>5 DEF Read
    <3> QED
      BY <2>3, <3>1, <3>2 DEF Seen
  <2> QED
    BY <2>1, <2>4, <2>5
<1>3. CASE Crash \/ WithholdPublish
  <2>1. w' = w /\ faults' # 0 /\ Between'
    BY <1>0, <1>3 DEF Crash, WithholdPublish, Between
  <2> QED
    BY <2>1 DEF Seen, Read, FoldedNow
<1>4. CASE ~StartCycle /\ ~MoveCursor /\ ~Crash /\ ~WithholdPublish /\ ~Between'
  BY <1>4, BundleKept DEF Seen, Read, FoldedNow
<1>5. CASE LoseEdge \/ ClearLedger \/ AllRead \/ Prune \/ UNCHANGED vars
  <2>1. w' = w /\ Between' = Between /\ next' = next
    BY <1>5 DEF LoseEdge, ClearLedger, AllRead, Prune, vars, Between
  <2> QED
    BY <2>1 DEF Seen, Read, FoldedNow
<1>6. ASSUME ~StartCycle, ~MoveCursor, ~Crash, ~WithholdPublish, Between'
      PROVE  LoseEdge \/ ClearLedger \/ AllRead \/ Prune \/ UNCHANGED vars
  BY <1>6 DEF Next, Fold, EndFold, StoreCredentials, EmitCampaign, EmitNote, EmitSummary,
              Publish, StoreMax, MarkOnce, Between
<1> QED
  BY <1>1, <1>2, <1>3, <1>4, <1>5, <1>6

(* Nor does it add a row or touch one it leaves, and it prunes none that a    *)
(* recent session is part of.                                                 *)
LEMMA ActivityKept ==
  ASSUME MemoryInv, [Next]_vars, ~Fold
  PROVE  /\ DOMAIN activity' \subseteq DOMAIN activity
         /\ \A row \in DOMAIN activity' : activity'[row] = activity[row]
         /\ \A row \in DOMAIN activity :
              Fresh(activity[row].last, KeepActivity) => row \in DOMAIN activity'
         /\ unrolled' = unrolled /\ now \in Int /\ now' \in Int /\ now <= now'
<1> USE DEF memory, missing
<1>0. now \in Int
  BY DEF MemoryInv, TimeInv
<1>1. CASE UNCHANGED vars
  BY <1>0, <1>1 DEF vars
<1>2. CASE StartCycle
  BY <1>0, <1>2, MemoryAssumption DEF StartCycle
<1>3. CASE EndFold \/ StoreCredentials \/ EmitCampaign \/ EmitNote \/ EmitSummary
  <2>1. UNCHANGED <<activity, unrolled, now>>
    BY <1>3 DEF EndFold, StoreCredentials, EmitCampaign, EmitNote, EmitSummary
  <2> QED
    BY <1>0, <2>1
<1>4. CASE Publish \/ WithholdPublish \/ StoreMax \/ MarkOnce \/ MoveCursor
  <2>1. UNCHANGED <<activity, unrolled, now>>
    BY <1>4 DEF Publish, WithholdPublish, StoreMax, MarkOnce, MoveCursor
  <2> QED
    BY <1>0, <2>1
<1>5. CASE Crash \/ LoseEdge \/ ClearLedger \/ AllRead
  <2>1. UNCHANGED <<activity, unrolled, now>>
    BY <1>5 DEF Crash, LoseEdge, ClearLedger, AllRead, vars
  <2> QED
    BY <1>0, <2>1
<1>6. CASE Prune
  <2>1. UNCHANGED <<unrolled, now>>
    BY <1>6 DEF Prune
  <2>2. PICK n \in 0..4 : activity' = Restrict(activity,
          {row \in DOMAIN activity : n >= 1 => Fresh(activity[row].last, KeepActivity)})
    BY <1>6 DEF Prune
  <2> QED
    BY <1>0, <2>1, <2>2 DEF Restrict
<1> QED
  BY <1>1, <1>2, <1>3, <1>4, <1>5, <1>6 DEF Next

LEMMA SeenOfFinite ==
  ASSUME IsFiniteSet(Seen), NEW row
  PROVE  /\ IsFiniteSet(SeenOf(row)) /\ Cardinality(SeenOf(row)) \in Nat
         /\ IsFiniteSet(DueOf(row)) /\ Cardinality(DueOf(row)) \in Nat
         /\ \A S \in SUBSET DueOf(row) : Cardinality(S) \in Nat
                                         /\ Cardinality(S) <= Cardinality(DueOf(row))
<1>1. SeenOf(row) \subseteq Seen /\ DueOf(row) \subseteq Seen
  BY DEF SeenOf, DueOf
<1>2. IsFiniteSet(SeenOf(row)) /\ IsFiniteSet(DueOf(row))
  BY <1>1, FS_Subset
<1> QED
  BY <1>2, FS_Subset, FS_CardinalityType

LEMMA SeenTypes ==
  ASSUME MemoryInv, NEW r \in Seen
  PROVE  Session(r).first \in Int /\ Session(r).last \in Int
<1>1. \E i \in DOMAIN Windows : \E j \in DOMAIN Windows[i] : r = <<i, j>>
  <2>1. CASE r \in Read
    <3>1. PICK i \in 1..w - 1 : \E j \in DOMAIN Windows[i] : r = <<i, j>>
      BY <2>1 DEF Read
    <3>2. w \in 1..Len(Windows) + 1 /\ Len(Windows) \in Nat /\ DOMAIN Windows = 1..Len(Windows)
      BY MemoryAssumption DEF MemoryInv, PlaceInv
    <3>3. i \in DOMAIN Windows
      BY <3>2
    <3> QED
      BY <3>1, <3>3
  <2>2. CASE r \in FoldedNow
    <3>1. ~Between /\ w \in DOMAIN Windows
      BY <2>2 DEF FoldedNow, MemoryInv, PlaceInv
    <3>2. PICK j \in 1..next - 1 : r = <<w, j>>
      BY <2>2, <3>1 DEF FoldedNow
    <3>3. next \in 1..Len(Windows[w]) + 1 /\ Len(Windows[w]) \in Nat
          /\ DOMAIN Windows[w] = 1..Len(Windows[w])
      BY <3>1, WindowTypes DEF MemoryInv, PlaceInv, Between
    <3>4. j \in DOMAIN Windows[w]
      BY <3>2, <3>3
    <3> QED
      BY <3>1, <3>2, <3>4
  <2> QED
    BY <2>1, <2>2 DEF Seen
<1> QED
  BY <1>1, MemoryAssumption DEF Session

LEMMA RollKept ==
  ASSUME MemoryInv, AttachedInv, RollInv, [Next]_vars, ~Fold
  PROVE  RollInv'
<1>1. /\ Seen' \subseteq Seen /\ DOMAIN activity' \subseteq DOMAIN activity
      /\ \A row \in DOMAIN activity' : activity'[row] = activity[row]
      /\ \A row \in DOMAIN activity :
           Fresh(activity[row].last, KeepActivity) => row \in DOMAIN activity'
      /\ unrolled' = unrolled /\ now \in Int /\ now' \in Int /\ now <= now'
  BY ActivityKept, SeenKept
<1>2. faults' = 0 => faults = 0 /\ Seen' = Seen
  BY SeenKept, FaultsKept DEF AttachedInv
<1>3. \A r : /\ Session(r)' = Session(r) /\ RowKey(r)' = RowKey(r)
  BY DEF Session, RowKey
<1>4. \A row : SeenOf(row)' \subseteq SeenOf(row) /\ (Seen' = Seen => SeenOf(row)' = SeenOf(row))
  BY <1>1, <1>3 DEF SeenOf
<1>5. ASSUME NEW r \in Seen, Due(r)' PROVE Due(r)
  <2>1. Session(r).last \in Int
    BY SeenTypes
  <2>2. r \notin unrolled /\ now' - Session(r).last <= KeepActivity
    BY <1>1, <1>5 DEF Due, Fresh, Session
  <2>3. KeepActivity \in Int
    BY MemoryAssumption
  <2> QED
    BY <1>1, <2>1, <2>2, <2>3 DEF Due, Fresh, Session
<1>6. \A row : DueOf(row)' \subseteq DueOf(row)
  <2>1. \A row : \A r \in SeenOf(row) : r \in Seen
    BY DEF SeenOf
  <2> QED
    BY <1>4, <1>5, <2>1 DEF DueOf
<1>7. IsFiniteSet(Seen)'
  BY <1>1, FS_Subset DEF RollInv
<1>8. RowTypes'
  BY <1>1 DEF RollInv, RowTypes
<1>9. ASSUME NEW row \in DOMAIN activity'
      PROVE  /\ Cardinality(DueOf(row)') <= activity'[row].sessions
             /\ faults' = 0 => activity'[row].sessions <= Cardinality(SeenOf(row)')
  <2>1. /\ Cardinality(DueOf(row)) \in Nat /\ Cardinality(DueOf(row)') \in Nat
        /\ Cardinality(DueOf(row)') <= Cardinality(DueOf(row))
    BY <1>6, SeenOfFinite DEF RollInv
  <2>2. /\ Cardinality(DueOf(row)) <= activity'[row].sessions
        /\ activity'[row].sessions \in Int
        /\ faults = 0 => activity'[row].sessions <= Cardinality(SeenOf(row))
    BY <1>1 DEF RollInv, RowCounts, RowTypes
  <2> QED
    BY <1>2, <1>4, <2>1, <2>2
<1>10. RowCounts'
  BY <1>9 DEF RowCounts
<1>11. ASSUME NEW r \in Seen', Session(r).profiled, Due(r)' PROVE Covers(r)'
  <2>1. r \in Seen /\ Due(r) /\ Covers(r)
    BY <1>1, <1>5, <1>11 DEF RollInv
  <2>2. Fresh(activity[RowKey(r)].last, KeepActivity)
    <3>1. Fresh(Session(r).last, KeepActivity)
      BY <2>1 DEF Due, Session
    <3>2. /\ Session(r).last \in Int /\ activity[RowKey(r)].last \in Int
          /\ Session(r).last <= activity[RowKey(r)].last
      BY <2>1, SeenTypes DEF RollInv, RowTypes, Covers
    <3> QED
      BY <1>1, <3>1, <3>2, MemoryAssumption DEF Fresh
  <2> QED
    BY <1>1, <1>3, <2>1, <2>2 DEF Covers
<1>12. \A r \in Seen' : Session(r)'.profiled /\ Due(r)' => Covers(r)'
  BY <1>3, <1>11
<1> QED
  BY <1>7, <1>8, <1>10, <1>12 DEF RollInv

(* Folding a session: it is seen, once, and its row is there, counts it and   *)
(* covers it and all it covered (upsert_attacker_activity).                   *)
LEMMA FoldSeen ==
  ASSUME MemoryInv, Fold
  PROVE  /\ w \in DOMAIN Windows /\ next \in DOMAIN Windows[w]
         /\ Windows[w][next] \in Sessions
         /\ <<w, next>> \notin Seen /\ Seen' = Seen \cup {<<w, next>>}
<1>1. /\ w' = w /\ next' = next + 1 /\ pc = "fold" /\ pc' = "fold" /\ next <= Len(Windows[w])
  BY DEF Fold
<1>2. /\ w \in DOMAIN Windows /\ DOMAIN Windows[w] = 1..Len(Windows[w]) /\ w \in Nat
      /\ Len(Windows[w]) \in Nat /\ next \in DOMAIN Windows[w] /\ next \in Nat \ {0}
  BY <1>1, WindowTypes DEF MemoryInv, PlaceInv, Between
<1>3. Read' = Read
  BY <1>1 DEF Read
<1>4. FoldedNow = {<<w, j>> : j \in 1..next - 1} /\ FoldedNow' = {<<w, j>> : j \in 1..next}
  <2>1. next' - 1 = next
    BY <1>1, <1>2
  <2> QED
    BY <1>1, <2>1 DEF FoldedNow, Between
<1>5. \A j : j \in 1..next <=> j \in 1..next - 1 \/ j = next
  BY <1>2
<1>6. FoldedNow' = FoldedNow \cup {<<w, next>>}
  BY <1>4, <1>5
<1>7. <<w, next>> \notin FoldedNow
  BY <1>2, <1>4
<1>8. <<w, next>> \notin Read
  BY <1>2 DEF Read
<1> QED
  BY <1>2, <1>3, <1>6, <1>7, <1>8, WindowTypes DEF Seen

LEMMA FoldRow ==
  ASSUME MemoryInv, RollInv, NEW s \in Sessions, s.first \in Int, s.last \in Int
  PROVE  LET row == <<s.ip, s.parser>>
             new == Activity(s)
         IN /\ new.first \in Int /\ new.last \in Int /\ new.sessions \in Int
            /\ new.first <= s.first /\ s.last <= new.last /\ (s.substantive => new.substantive)
            /\ row \in DOMAIN activity =>
                 /\ new.sessions = activity[row].sessions + 1
                 /\ new.first <= activity[row].first /\ activity[row].last <= new.last
                 /\ activity[row].substantive => new.substantive
            /\ row \notin DOMAIN activity => new.sessions = 1
<1> DEFINE row == <<s.ip, s.parser>>
           old == IF row \in DOMAIN activity THEN activity[row]
                  ELSE [sessions |-> 0, first |-> s.first, last |-> s.last, substantive |-> FALSE]
<1>1. Activity(s) = [sessions |-> old.sessions + 1,
                     first |-> Smaller(old.first, s.first), last |-> Larger(old.last, s.last),
                     substantive |-> old.substantive \/ s.substantive]
  BY DEF Activity
<1>2. old.sessions \in Int /\ old.first \in Int /\ old.last \in Int
  BY DEF RollInv, RowTypes
<1>3. /\ row \in DOMAIN activity => old = activity[row]
      /\ row \notin DOMAIN activity => old.sessions = 0
  OBVIOUS
<1> HIDE DEF old
<1>4. /\ Activity(s).sessions = old.sessions + 1
      /\ Activity(s).first = Smaller(old.first, s.first)
      /\ Activity(s).last = Larger(old.last, s.last)
      /\ Activity(s).substantive = (old.substantive \/ s.substantive)
  BY <1>1
<1>5. (old.substantive \/ s.substantive) => Activity(s).substantive
  BY <1>4, Zenon
<1> QED
  BY <1>2, <1>3, <1>4, <1>5 DEF Smaller, Larger

LEMMA RollFold == MemoryInv /\ AttachedInv /\ RollInv /\ Fold => RollInv'
<1> SUFFICES ASSUME MemoryInv, AttachedInv, RollInv, Fold PROVE RollInv'
  OBVIOUS
<1>0. PICK s, at : s = Windows[w][next] /\ at = <<w, next>>
  OBVIOUS
<1>1. /\ s \in Sessions /\ at \notin Seen /\ Seen' = Seen \cup {at} /\ Session(at) = s
      /\ s.first \in Int /\ s.last \in Int
  BY <1>0, FoldSeen, MemoryAssumption DEF Session
<1>2. PICK row : row = <<s.ip, s.parser>>
  OBVIOUS
<1>3. PICK new : new = Activity(s)
  OBVIOUS
<1>4. /\ new.first \in Int /\ new.last \in Int /\ new.sessions \in Int
      /\ new.first <= s.first /\ s.last <= new.last /\ (s.substantive => new.substantive)
      /\ row \in DOMAIN activity =>
           /\ new.sessions = activity[row].sessions + 1
           /\ new.first <= activity[row].first /\ activity[row].last <= new.last
           /\ activity[row].substantive => new.substantive
      /\ row \notin DOMAIN activity => new.sessions = 1
  BY <1>1, <1>2, <1>3, FoldRow
<1>5. PICK written \in BOOLEAN :
        /\ written => s.profiled /\ activity' = [r \in DOMAIN activity \cup {row} |->
                                      IF r = row THEN new ELSE activity[r]]
        /\ ~written => activity' = activity /\ (~s.profiled \/ at \in unrolled')
        /\ faults' = 0 => faults = 0 /\ (s.profiled => written)
        /\ \A r \in Seen : r \in unrolled' <=> r \in unrolled
        /\ now' = now
  <2>1. PICK rolled \in {TRUE, ~s.profiled}, kept \in SUBSET s.artifacts :
          /\ (rolled /\ kept = s.artifacts) \/ faults < MaxFaults
          /\ faults' = IF rolled /\ kept = s.artifacts THEN faults ELSE faults + 1
          /\ activity' = IF ~rolled \/ ~s.profiled THEN activity
                         ELSE [r \in DOMAIN activity \cup {row} |->
                                 IF r = row THEN new ELSE activity[r]]
          /\ unrolled' = IF rolled THEN unrolled \ {at} ELSE unrolled \cup {at}
    BY <1>0, <1>2, <1>3 DEF Fold
  <2>2. faults \in Nat
    BY DEF AttachedInv
  <2>3. faults' = 0 => faults = 0 /\ rolled
    BY <2>1, <2>2
  <2>4. \A r \in Seen : r \in unrolled' <=> r \in unrolled
    BY <1>1, <2>1
  <2>5. now' = now
    BY DEF Fold
  <2>6. CASE rolled /\ s.profiled
    BY <2>1, <2>3, <2>4, <2>5, <2>6
  <2>7. CASE ~(rolled /\ s.profiled)
    <3>1. activity' = activity /\ (~s.profiled \/ at \in unrolled')
      BY <2>1, <2>7
    <3>2. faults' = 0 => faults = 0 /\ ~s.profiled
      BY <2>3, <2>7
    <3> QED
      BY <2>4, <2>5, <3>1, <3>2
  <2> QED
    BY <2>6, <2>7
<1>6. \A r : Session(r)' = Session(r) /\ RowKey(r)' = RowKey(r)
  BY DEF Session, RowKey
<1>7. RowKey(at) = row
  BY <1>1, <1>2 DEF RowKey
<1>8. IsFiniteSet(Seen)'
  BY <1>1, FS_AddElement DEF RollInv
<1>9. \A k : SeenOf(k)' = SeenOf(k) \cup (IF s.profiled /\ k = row THEN {at} ELSE {})
  BY <1>1, <1>6, <1>7 DEF SeenOf
<1>10. at \notin SeenOf(row) /\ at \notin DueOf(row)
  BY <1>1 DEF SeenOf, DueOf
<1>11. s.profiled => Cardinality(SeenOf(row)') = Cardinality(SeenOf(row)) + 1
  BY <1>9, <1>10, SeenOfFinite, FS_AddElement DEF RollInv
<1>12. /\ \A r \in Seen : Due(r)' = Due(r)
       /\ ~written /\ s.profiled => ~Due(at)'
  BY <1>5 DEF Due, Fresh
<1>13. \A k : DueOf(k)' \subseteq DueOf(k) \cup (IF written /\ k = row THEN {at} ELSE {})
  <2> SUFFICES ASSUME NEW k, NEW r \in DueOf(k)'
               PROVE  r \in DueOf(k) \/ (written /\ k = row /\ r = at)
    OBVIOUS
  <2>1. r \in SeenOf(k)' /\ Due(r)'
    BY DEF DueOf
  <2>2. CASE r \in SeenOf(k)
    BY <1>12, <2>1, <2>2 DEF DueOf, SeenOf
  <2>3. CASE r \notin SeenOf(k)
    BY <1>9, <1>12, <2>1, <2>3
  <2> QED
    BY <2>2, <2>3
<1>14. row \notin DOMAIN activity => DueOf(row) = {}
  BY DEF RollInv, DueOf, SeenOf, Covers
<1>15. RowTypes'
  BY <1>4, <1>5 DEF RollInv, RowTypes
<1>16. ASSUME NEW k \in DOMAIN activity'
       PROVE  /\ Cardinality(DueOf(k)') <= activity'[k].sessions
              /\ faults' = 0 => activity'[k].sessions <= Cardinality(SeenOf(k)')
  <2>0. /\ Cardinality(SeenOf(k)) \in Nat /\ Cardinality(DueOf(k)) \in Nat
        /\ IsFiniteSet(DueOf(k))
    BY SeenOfFinite DEF RollInv
  <2>1. CASE written /\ k = row
    <3>1. activity'[k].sessions = new.sessions /\ s.profiled
      BY <1>5, <2>1
    <3>2. /\ IsFiniteSet(DueOf(k) \cup {at})
          /\ Cardinality(DueOf(k) \cup {at}) = Cardinality(DueOf(k)) + 1
      BY <1>10, <2>0, <2>1, FS_AddElement
    <3>3. DueOf(k)' \subseteq DueOf(k) \cup {at}
      BY <1>13, <2>1
    <3>4. Cardinality(DueOf(k)') <= Cardinality(DueOf(k)) + 1 /\ Cardinality(DueOf(k)') \in Nat
      BY <3>2, <3>3, FS_Subset, FS_CardinalityType
    <3>5. CASE row \in DOMAIN activity
      <4>1. /\ activity[k].sessions \in Int
            /\ Cardinality(DueOf(k)) <= activity[k].sessions
            /\ faults = 0 => activity[k].sessions <= Cardinality(SeenOf(k))
        BY <2>1, <3>5 DEF RollInv, RowTypes, RowCounts
      <4> QED
        BY <1>4, <1>5, <1>11, <2>0, <2>1, <3>1, <3>4, <3>5, <4>1
    <3>6. CASE row \notin DOMAIN activity
      <4>1. Cardinality(DueOf(k)) = 0
        BY <1>14, <2>1, <3>6, FS_EmptySet
      <4> QED
        BY <1>4, <1>11, <2>0, <2>1, <3>1, <3>4, <3>6, <4>1
    <3> QED
      BY <3>5, <3>6
  <2>2. CASE ~(written /\ k = row)
    <3>1. k \in DOMAIN activity /\ activity'[k] = activity[k]
      BY <1>5, <2>2
    <3>2. Cardinality(DueOf(k)') <= Cardinality(DueOf(k)) /\ Cardinality(DueOf(k)') \in Nat
      BY <1>13, <2>2, SeenOfFinite DEF RollInv
    <3>3. /\ activity[k].sessions \in Int
          /\ Cardinality(DueOf(k)) <= activity[k].sessions
          /\ faults = 0 => activity[k].sessions <= Cardinality(SeenOf(k))
      BY <3>1 DEF RollInv, RowTypes, RowCounts
    <3>4. faults' = 0 => faults = 0 /\ SeenOf(k)' = SeenOf(k)
      BY <1>5, <1>9, <2>2
    <3> QED
      BY <2>0, <3>1, <3>2, <3>3, <3>4
  <2> QED
    BY <2>1, <2>2
<1>17. RowCounts'
  BY <1>16 DEF RowCounts
<1>18. ASSUME NEW r \in Seen', Session(r).profiled, Due(r)' PROVE Covers(r)'
  <2>1. CASE r = at
    <3>1. written
      BY <1>1, <1>12, <1>18, <2>1
    <3> QED
      BY <1>1, <1>4, <1>5, <1>6, <1>7, <2>1, <3>1 DEF Covers
  <2>2. CASE r # at
    <3>1. /\ RowKey(r) \in DOMAIN activity
          /\ activity[RowKey(r)].first <= Session(r).first
          /\ Session(r).last <= activity[RowKey(r)].last
          /\ Session(r).substantive => activity[RowKey(r)].substantive
      BY <1>1, <1>12, <1>18, <2>2 DEF RollInv, Covers
    <3>2. Session(r).first \in Int /\ Session(r).last \in Int
      BY <1>1, <2>2, SeenTypes
    <3>3. activity[RowKey(r)].first \in Int /\ activity[RowKey(r)].last \in Int
      BY <3>1 DEF RollInv, RowTypes
    <3>4. CASE written /\ RowKey(r) = row
      <4>1. activity'[RowKey(r)] = new /\ RowKey(r) \in DOMAIN activity'
        BY <1>5, <3>4
      <4> QED
        BY <1>4, <1>6, <3>1, <3>2, <3>3, <3>4, <4>1 DEF Covers
    <3>5. CASE ~(written /\ RowKey(r) = row)
      <4>1. activity'[RowKey(r)] = activity[RowKey(r)] /\ RowKey(r) \in DOMAIN activity'
        BY <1>5, <3>1, <3>5
      <4> QED
        BY <1>6, <3>1, <4>1 DEF Covers
    <3> QED
      BY <3>4, <3>5
  <2> QED
    BY <2>1, <2>2
<1>19. \A r \in Seen' : Session(r)'.profiled /\ Due(r)' => Covers(r)'
  BY <1>6, <1>18
<1> QED
  BY <1>8, <1>15, <1>17, <1>19 DEF RollInv

LEMMA RollStep == MemoryInv /\ AttachedInv /\ RollInv /\ [Next]_vars => RollInv'
BY RollFold, RollKept

LEMMA RollInit == Init => RollInv
<1> SUFFICES ASSUME Init PROVE RollInv
  OBVIOUS
<1>1. Seen = {}
  BY DEF Init, Seen, Read, FoldedNow, Between
<1>2. DOMAIN activity = {}
  BY DEF Init
<1> QED
  BY <1>1, <1>2, FS_EmptySet DEF RollInv, RowTypes, RowCounts

--------------------------------------------------------------------------------
(* The credentials an address tried: what the store knows of the windows left *)
(* behind and, once this cycle has stored its own, of the window in hand; and *)
(* what the note in OpenCTI says of them.                                     *)
IsStored == pc \in {"roll", "publish", "max", "once", "cursor"}
Tried(a, p) == Attempts(<<a, p>>) \cup (IF IsStored THEN Tries(w, a, p) ELSE {})
Success(T) == \E t \in T : Succeeded(t)
Answers(N, T, p) == T # {} => \E line \in N : line[1] = p /\ (Success(T) => line[2])
PairCounted(a, p) ==
  /\ IsFiniteSet(Tried(a, p))
  /\ Tried(a, p) # {} => <<a, p>> \in DOMAIN usage
  /\ UsageOf(<<a, p>>).tried \in Nat /\ UsageOf(<<a, p>>).accepted \in Nat
  /\ Cardinality(Tried(a, p)) <= UsageOf(<<a, p>>).tried
  /\ faults = 0 => UsageOf(<<a, p>>).tried = Cardinality(Tried(a, p))
  /\ Success(Tried(a, p)) => UsageOf(<<a, p>>).accepted > 0
PairTold(a, p) ==
  /\ Answers(told[a], Attempts(<<a, p>>), p)
  /\ pc \in {"max", "once", "cursor"} /\ clean => Answers(told[a], Tried(a, p), p)
  /\ pc \in {"roll", "publish"} /\ Tries(w, a, p) # {} =>
       Credentials(a) \in bundle /\ <<"ip", a>> \in bundle
UsageInv ==
  unstored = {} =>
    \A a \in Addresses, p \in Pairs : PairCounted(a, p) /\ PairTold(a, p)

LEMMA OntoFinite ==
  ASSUME NEW S, IsFiniteSet(S), NEW T, NEW f \in [S -> T], \A t \in T : \E x \in S : t = f[x]
  PROVE  IsFiniteSet(T)
<1>1. f \in Surjection(S, T)
  BY DEF Surjection
<1> QED
  BY <1>1, FS_Surjection

LEMMA TriesFinite ==
  ASSUME NEW i \in DOMAIN Windows, NEW a, NEW p
  PROVE  IsFiniteSet(Tries(i, a, p)) /\ \A t \in Tries(i, a, p) : t[1] = i
<1> DEFINE D(j) == DOMAIN Windows[i][j].tried
           S == {{i} \X {j} \X D(j) : j \in DOMAIN Windows[i]}
           g == [j \in DOMAIN Windows[i] |-> {i} \X {j} \X D(j)]
<1>1. IsFiniteSet(DOMAIN Windows[i])
  <2>1. DOMAIN Windows[i] = 1..Len(Windows[i]) /\ Len(Windows[i]) \in Nat
    BY WindowTypes
  <2> QED
    BY <2>1, FS_Interval
<1>2. g \in [DOMAIN Windows[i] -> S] /\ \A t \in S : \E j \in DOMAIN Windows[i] : t = g[j]
  OBVIOUS
<1>3. IsFiniteSet(S)
  <2> HIDE DEF S, g
  <2> QED
    BY <1>1, <1>2, OntoFinite
<1>4. ASSUME NEW j \in DOMAIN Windows[i] PROVE IsFiniteSet({i} \X {j} \X D(j))
  <2> DEFINE h == [k \in D(j) |-> <<i, j, k>>]
  <2>1. IsFiniteSet(D(j))
    <3>1. Windows[i][j].tried \in Seq(Range(Windows[i][j].tried))
      BY MemoryAssumption
    <3>2. D(j) = 1..Len(Windows[i][j].tried) /\ Len(Windows[i][j].tried) \in Nat
      BY <3>1
    <3>3. IsFiniteSet(1..Len(Windows[i][j].tried))
      BY <3>2, FS_Interval
    <3> QED
      BY <3>2, <3>3
  <2>2. /\ h \in [D(j) -> {i} \X {j} \X D(j)]
        /\ \A t \in {i} \X {j} \X D(j) : \E k \in D(j) : t = h[k]
    <3>1. \A t \in {i} \X {j} \X D(j) : t[3] \in D(j) /\ t = <<i, j, t[3]>>
      OBVIOUS
    <3> QED
      BY <3>1
  <2> QED
    <3> HIDE DEF h, D
    <3> QED
      BY <2>1, <2>2, OntoFinite
<1>5. IsFiniteSet(UNION S)
  BY <1>3, <1>4, FS_UNION
<1>6. Tries(i, a, p) \subseteq UNION S
  BY DEF Tries
<1>7. \A t \in UNION S : t[1] = i
  OBVIOUS
<1> QED
  BY <1>5, <1>6, <1>7, FS_Subset

LEMMA AttemptsNext ==
  ASSUME w \in DOMAIN Windows, NEW row
  PROVE  /\ UNION {Tries(i, row[1], row[2]) : i \in 1..w}
              = Attempts(row) \cup Tries(w, row[1], row[2])
         /\ Attempts(row) \cap Tries(w, row[1], row[2]) = {}
<1>1. w \in Nat \ {0} /\ DOMAIN Windows = 1..Len(Windows) /\ Len(Windows) \in Nat
  BY WindowTypes, MemoryAssumption
<1>2. \A i : i \in 1..w <=> i \in 1..w - 1 \/ i = w
  BY <1>1
<1>3. ASSUME NEW t \in Attempts(row) PROVE t[1] # w
  <2>1. PICK i \in 1..w - 1 : t \in Tries(i, row[1], row[2])
    BY <1>3 DEF Attempts
  <2>2. i \in DOMAIN Windows /\ i # w
    BY <1>1
  <2> QED
    BY <2>1, <2>2, TriesFinite
<1>4. \A t \in Tries(w, row[1], row[2]) : t[1] = w
  BY TriesFinite
<1> QED
  BY <1>2, <1>3, <1>4 DEF Attempts

(* What a step other than the store does to the attempts accounted for.       *)
LEMMA TriedKept ==
  ASSUME MemoryInv, AttachedInv, [Next]_vars, ~StoreCredentials, NEW a, NEW p
  PROVE  /\ Tried(a, p)' \subseteq Tried(a, p) /\ (faults' = 0 => Tried(a, p)' = Tried(a, p))
         /\ w' = w => Attempts(<<a, p>>)' = Attempts(<<a, p>>)
<1>0. faults' \in Nat /\ faults <= faults' /\ faults \in Nat
  BY FaultsKept DEF AttachedInv
<1>1. \A i : Tries(i, a, p)' = Tries(i, a, p)
  BY DEF Tries
<1>2. ASSUME w' = w PROVE Attempts(<<a, p>>)' = Attempts(<<a, p>>)
  BY <1>1, <1>2 DEF Attempts
<1>3. CASE MoveCursor
  <2>1. /\ pc = "cursor" /\ pc' = "prune"
        /\ w' = w + 1 \/ (w' = w /\ (~clean \/ faults' = faults + 1))
    BY <1>3 DEF MoveCursor
  <2>2. w \in DOMAIN Windows /\ w \in Nat
    BY <2>1, WindowTypes DEF MemoryInv, PlaceInv, Between
  <2>3. Tried(a, p)' = Attempts(<<a, p>>)' /\ Tried(a, p) = Attempts(<<a, p>>) \cup Tries(w, a, p)
    BY <2>1 DEF Tried, IsStored
  <2>4. CASE w' = w + 1
    <3>1. w' - 1 = w
      BY <2>2, <2>4
    <3>2. Attempts(<<a, p>>)' = UNION {Tries(i, a, p) : i \in 1..w}
      BY <1>1, <3>1 DEF Attempts
    <3> QED
      BY <1>2, <2>2, <2>3, <3>2, AttemptsNext
  <2>5. CASE w' = w /\ (~clean \/ faults' = faults + 1)
    <3>1. ~clean => faults # 0
      BY <2>1 DEF AttachedInv, AttachInv
    <3>2. faults' # 0
      BY <1>0, <2>5, <3>1
    <3> QED
      BY <1>2, <2>3, <2>5, <3>2
  <2> QED
    BY <2>1, <2>4, <2>5
<1>4. CASE Crash \/ WithholdPublish
  <2>1. w' = w /\ pc' \in {"idle", "prune"} /\ faults' # 0
    BY <1>0, <1>4 DEF Crash, WithholdPublish
  <2> QED
    BY <1>2, <2>1 DEF Tried, IsStored
<1>5. ASSUME w' = w, IsStored' = IsStored PROVE Tried(a, p)' = Tried(a, p)
  BY <1>1, <1>2, <1>5 DEF Tried
<1>6. CASE ~MoveCursor /\ ~Crash /\ ~WithholdPublish
  <2>1. IsStored' = IsStored
    <3>1. CASE StartCycle \/ Fold \/ EndFold
      BY <3>1 DEF IsStored, StartCycle, Fold, EndFold
    <3>2. CASE EmitCampaign \/ EmitNote \/ EmitSummary
      BY <3>2 DEF IsStored, EmitCampaign, EmitNote, EmitSummary
    <3>3. CASE Publish \/ StoreMax
      <4>1. Publish => pc = "publish" /\ pc' = "max"
        BY DEF Publish
      <4>2. StoreMax => pc = "max" /\ pc' = "once"
        BY DEF StoreMax
      <4> QED
        BY <3>3, <4>1, <4>2 DEF IsStored
    <3>5. CASE MarkOnce \/ Prune
      BY <3>5 DEF IsStored, MarkOnce, Prune
    <3>4. CASE LoseEdge \/ ClearLedger \/ UNCHANGED vars
      BY <3>4 DEF IsStored, LoseEdge, ClearLedger, vars
    <3> QED
      BY <1>6, <3>1, <3>2, <3>3, <3>4, <3>5 DEF Next, AllRead
  <2> QED
    BY <1>2, <1>5, <1>6, <2>1, WindowKept
<1> QED
  BY <1>2, <1>3, <1>4, <1>6

LEMMA UsageKept ==
  ASSUME [Next]_vars, ~StoreCredentials
  PROVE  UNCHANGED <<usage, unstored>>
<1> USE DEF memory, missing
<1>1. CASE UNCHANGED vars
  BY <1>1 DEF vars
<1>2. CASE StartCycle \/ Fold \/ EndFold
  BY <1>2 DEF StartCycle, Fold, EndFold
<1>3. CASE EmitCampaign \/ EmitNote \/ EmitSummary
  BY <1>3 DEF EmitCampaign, EmitNote, EmitSummary
<1>4. CASE Publish \/ WithholdPublish \/ StoreMax \/ MarkOnce \/ MoveCursor \/ Prune
  BY <1>4 DEF Publish, WithholdPublish, StoreMax, MarkOnce, MoveCursor, Prune
<1>5. CASE Crash \/ LoseEdge \/ ClearLedger \/ AllRead
  BY <1>5 DEF Crash, LoseEdge, ClearLedger, AllRead, vars
<1> QED
  BY <1>1, <1>2, <1>3, <1>4, <1>5 DEF Next

LEMMA CountedKept ==
  ASSUME MemoryInv, AttachedInv, [Next]_vars, ~StoreCredentials, NEW a, NEW p, PairCounted(a, p)
  PROVE  PairCounted(a, p)'
<1>1. UsageOf(<<a, p>>)' = UsageOf(<<a, p>>) /\ usage' = usage
  BY UsageKept DEF UsageOf
<1>2. Tried(a, p)' \subseteq Tried(a, p)
      /\ (faults' = 0 => faults = 0 /\ Tried(a, p)' = Tried(a, p))
  <2>1. faults' = 0 => faults = 0
    BY FaultsKept DEF AttachedInv
  <2> QED
    BY <2>1, TriedKept
<1>3. /\ IsFiniteSet(Tried(a, p)') /\ Cardinality(Tried(a, p)') \in Nat
      /\ Cardinality(Tried(a, p)) \in Nat
      /\ Cardinality(Tried(a, p)') <= Cardinality(Tried(a, p))
  BY <1>2, FS_Subset, FS_CardinalityType DEF PairCounted
<1>4. Success(Tried(a, p))' => Success(Tried(a, p))
  BY <1>2 DEF Success, Succeeded
<1> QED
  BY <1>1, <1>2, <1>3, <1>4 DEF PairCounted

(* The store takes the window's attempts, each once, with the note it makes   *)
(* due (record_attempts).                                                     *)
LEMMA StoreUsage ==
  ASSUME MemoryInv, BuiltInv, AttachedInv, UsageInv, StoreCredentials, unstored' = {},
         NEW a \in Addresses, NEW p \in Pairs
  PROVE  PairCounted(a, p)' /\ PairTold(a, p)'
<1> DEFINE row == <<a, p>>
           T == Tries(w, a, p)
<1>1. /\ unstored = {} /\ usage' = Used /\ pc = "store" /\ pc' = "roll"
      /\ bundle' = bundle \cup {Credentials(s.ip) : s \in {t \in Range(Windows[w]) : t.tried # <<>>}}
      /\ UNCHANGED <<w, next, faults, told, platform>>
  BY DEF StoreCredentials, opencti
<1>2. w \in DOMAIN Windows
  BY <1>1 DEF MemoryInv, PlaceInv, Between
<1>3. PairCounted(a, p) /\ PairTold(a, p)
  BY <1>1 DEF UsageInv
<1>4. Tried(a, p) = Attempts(row) /\ Tried(a, p)' = Attempts(row) \cup T
  <2>1. Tries(w, a, p)' = T
    BY <1>1 DEF Tries
  <2>2. \A i : Tries(i, a, p)' = Tries(i, a, p)
    BY DEF Tries
  <2>3. Attempts(row)' = Attempts(row)
    BY <1>1, <2>2 DEF Attempts
  <2> QED
    BY <1>1, <2>1, <2>3 DEF Tried, IsStored
<1>5. /\ IsFiniteSet(T) /\ IsFiniteSet(Attempts(row)) /\ Attempts(row) \cap T = {}
      /\ Cardinality(T) \in Nat /\ Cardinality(Attempts(row)) \in Nat
  BY <1>2, <1>3, <1>4, TriesFinite, AttemptsNext, FS_CardinalityType DEF PairCounted
<1>6. /\ IsFiniteSet(Attempts(row) \cup T)
      /\ Cardinality(Attempts(row) \cup T) = Cardinality(Attempts(row)) + Cardinality(T)
  <2>1. Cardinality(Attempts(row) \cap T) = 0
    BY <1>5, FS_EmptySet
  <2> DEFINE A == Attempts(row)
  <2> HIDE DEF T, row, A
  <2>2. IsFiniteSet(A \cup T)
        /\ Cardinality(A \cup T) = Cardinality(A) + Cardinality(T) - Cardinality(A \cap T)
    BY <1>5, FS_Union DEF A
  <2> QED
    BY <1>5, <2>1, <2>2 DEF A
<1> DEFINE G == {t \in T : Succeeded(t)}
<1>7. IsFiniteSet(G) /\ Cardinality(G) \in Nat /\ (G # {} => Cardinality(G) > 0)
  <2>1. G \subseteq T
    OBVIOUS
  <2> HIDE DEF G, T
  <2>2. IsFiniteSet(G)
    BY <1>5, <2>1, FS_Subset
  <2>3. Cardinality(G) \in Nat /\ (G # {} => Cardinality(G) # 0)
    BY <2>2, FS_CardinalityType, FS_EmptySet
  <2> QED
    BY <2>2, <2>3
<1>8. /\ row \in DOMAIN usage' <=> row \in DOMAIN usage \/ T # {}
      /\ row \in DOMAIN usage' =>
           usage'[row] = [tried |-> UsageOf(row).tried + Cardinality(T),
                          accepted |-> UsageOf(row).accepted + Cardinality(G)]
  <2>1. row[1] = a /\ row[2] = p /\ row \in Addresses \X Pairs
    OBVIOUS
  <2> QED
    BY <1>1, <2>1 DEF Used
<1>9. T = {} => Cardinality(T) = 0 /\ Cardinality(G) = 0
  BY FS_EmptySet
<1>10. /\ UsageOf(row)'.tried = UsageOf(row).tried + Cardinality(T)
       /\ UsageOf(row)'.accepted = UsageOf(row).accepted + Cardinality(G)
  <2> HIDE DEF row, T, G
  <2>1. CASE row \in DOMAIN usage'
    <3>1. UsageOf(row)' = usage'[row]
      BY <2>1 DEF UsageOf, row
    <3> QED
      BY <1>8, <2>1, <3>1
  <2>2. CASE row \notin DOMAIN usage'
    <3>1. /\ UsageOf(row) = [tried |-> 0, accepted |-> 0]
          /\ UsageOf(row)' = [tried |-> 0, accepted |-> 0]
      BY <1>8, <2>2 DEF UsageOf, row
    <3> QED
      BY <1>8, <1>9, <2>2, <3>1
  <2> QED
    BY <2>1, <2>2
<1>11. PairCounted(a, p)'
  <2>1. IsFiniteSet(Tried(a, p)')
    BY <1>4, <1>6
  <2>2. Tried(a, p)' # {} => row \in DOMAIN usage'
    BY <1>3, <1>4, <1>8 DEF PairCounted
  <2>3. /\ UsageOf(row).tried \in Nat /\ UsageOf(row).accepted \in Nat
        /\ Cardinality(Attempts(row)) <= UsageOf(row).tried
        /\ faults = 0 => UsageOf(row).tried = Cardinality(Attempts(row))
        /\ Success(Attempts(row)) => UsageOf(row).accepted > 0
    BY <1>3, <1>4 DEF PairCounted
  <2>4. Success(Tried(a, p)') => Success(Attempts(row)) \/ G # {}
    BY <1>4 DEF Success
  <2>5. Success(Tried(a, p))' = Success(Tried(a, p)')
    BY DEF Success, Succeeded
  <2> HIDE DEF row, T, G
  <2>6. UsageOf(row)'.tried \in Nat /\ UsageOf(row)'.accepted \in Nat
    BY <1>5, <1>7, <1>10, <2>3
  <2>7. /\ Cardinality(Tried(a, p)') <= UsageOf(row)'.tried
        /\ faults' = 0 => UsageOf(row)'.tried = Cardinality(Tried(a, p)')
    BY <1>1, <1>4, <1>5, <1>6, <1>10, <2>3
  <2>8. Success(Tried(a, p)') => UsageOf(row)'.accepted > 0
    BY <1>7, <1>10, <2>3, <2>4
  <2> QED
    BY <2>1, <2>2, <2>5, <2>6, <2>7, <2>8 DEF PairCounted, row
<1>12. PairTold(a, p)'
  <2>1. Answers(told[a], Attempts(row), p)
    BY <1>3 DEF PairTold
  <2>2. Attempts(row)' = Attempts(row)
    BY <1>1 DEF Attempts, Tries
  <2>3. Answers(told[a], Attempts(row), p)'
    BY <1>1, <2>1, <2>2 DEF Answers, Success, Succeeded
  <2>4. ASSUME NEW t \in T PROVE Credentials(a) \in bundle' /\ <<"ip", a>> \in bundle'
    <3>1. PICK j \in DOMAIN Windows[w] : /\ Windows[w][j].ip = a
                                         /\ t[3] \in DOMAIN Windows[w][j].tried
      BY <2>4 DEF Tries
    <3>2. Windows[w][j].tried # <<>>
      BY <3>1
    <3>3. Windows[w][j] \in Range(Windows[w])
      BY <3>1 DEF Range
    <3>4. next = Len(Windows[w]) + 1 /\ Len(Windows[w]) \in Nat /\ j \in 1..Len(Windows[w])
      BY <1>1, <1>2, <3>1, WindowTypes DEF MemoryInv, PlaceInv, Folded
    <3>5. j \in 1..next - 1
      BY <3>4
    <3>6. <<"ip", a>> \in bundle
      BY <1>1, <3>1, <3>5 DEF BuiltInv, Built, Between
    <3> QED
      BY <1>1, <3>1, <3>2, <3>3, <3>6
  <2>5. Tries(w, a, p)' = T
    BY <1>1 DEF Tries
  <2> QED
    BY <1>1, <2>3, <2>4, <2>5 DEF PairTold
<1> QED
  BY <1>11, <1>12

LEMMA AnswersFewer ==
  ASSUME NEW N, NEW T, NEW S \in SUBSET T, NEW p, Answers(N, T, p)
  PROVE  Answers(N, S, p)
BY DEF Answers, Success

(* The note an address gets says of every pair the store knows whether it was *)
(* ever accepted (build_ip_credential_note).                                  *)
LEMMA NoteAnswers ==
  ASSUME NEW a, NEW p, PairCounted(a, p)
  PROVE  Answers(Note(a), Tried(a, p), p)
<1> SUFFICES ASSUME Tried(a, p) # {}
             PROVE  \E line \in Note(a) : line[1] = p /\ (Success(Tried(a, p)) => line[2])
  BY DEF Answers
<1> DEFINE row == <<a, p>>
           line == <<p, usage[row].accepted > 0>>
<1>1. row \in DOMAIN usage /\ row[1] = a /\ row[2] = p
  BY DEF PairCounted
<1>2. line \in Note(a)
  BY <1>1 DEF Note
<1>3. Success(Tried(a, p)) => usage[row].accepted > 0
  BY <1>1 DEF PairCounted, UsageOf
<1>4. line[1] = p /\ line[2] = (usage[row].accepted > 0)
  OBVIOUS
<1> HIDE DEF line
<1>5. Success(Tried(a, p)) => line[2]
  BY <1>3, <1>4, Zenon
<1> QED
  BY <1>2, <1>4, <1>5

(* A publish either leaves the note of an address as it was or replaces it by *)
(* all the store knows; a clean one replaces it where the window has          *)
(* something new to tell.                                                     *)
LEMMA ToldPublish ==
  ASSUME AttachedInv, Publish, NEW a \in Addresses, NEW p \in Pairs,
         PairCounted(a, p), PairTold(a, p)
  PROVE  PairTold(a, p)'
<1>1. pc = "publish" /\ pc' = "max" /\ UNCHANGED <<w, usage>>
  BY DEF Publish, memory
<1>2. PICK landed \in SUBSET Outgoing :
        /\ clean' = (Outgoing \subseteq landed)
        /\ told' = [b \in Addresses |-> IF Credentials(b) \in landed THEN Note(b) ELSE told[b]]
  BY PublishDelivers
<1>3. Tried(a, p)' = Tried(a, p) /\ Attempts(<<a, p>>)' = Attempts(<<a, p>>)
  BY <1>1 DEF Tried, IsStored, Attempts, Tries
<1>4. Tried(a, p) = Attempts(<<a, p>>) \cup Tries(w, a, p)
  BY <1>1 DEF Tried, IsStored
<1>5. Answers(told'[a], Attempts(<<a, p>>), p)
  <2>1. CASE Credentials(a) \in landed
    BY <1>2, <1>4, <2>1, NoteAnswers, AnswersFewer
  <2>2. CASE Credentials(a) \notin landed
    BY <1>2, <2>2 DEF PairTold
  <2> QED
    BY <2>1, <2>2
<1>6. ASSUME clean' PROVE Answers(told'[a], Tried(a, p), p)
  <2>1. CASE Tries(w, a, p) # {}
    <3>1. Credentials(a) \in bundle /\ <<"ip", a>> \in bundle
      BY <1>1, <2>1 DEF PairTold
    <3>2. /\ Endpoints(Credentials(a)) = {} /\ Credentials(a) \notin Immutable
          /\ Subjects(Credentials(a)) = {<<"ip", a>>}
      <4>1. Credentials(a)[1] = "credentials" /\ Credentials(a)[2] = a
        BY DEF Credentials
      <4>2. Credentials(a) \notin Immutable
        BY DEF Credentials, Immutable, BasedOn
      <4> QED
        BY <4>1, <4>2, MemoryAssumption DEF Endpoints, Subjects, Cadences
    <3>3. Credentials(a) \in Outgoing
      BY <3>1, <3>2 DEF Outgoing, Resolvable
    <3> QED
      BY <1>2, <1>6, <3>3, NoteAnswers
  <2>2. CASE Tries(w, a, p) = {}
    BY <1>4, <1>5, <2>2
  <2> QED
    BY <2>1, <2>2
<1>7. Answers(told[a], Attempts(<<a, p>>), p)' = Answers(told'[a], Attempts(<<a, p>>), p)
  BY <1>3 DEF Answers, Success, Succeeded
<1>8. Answers(told[a], Tried(a, p), p)' = Answers(told'[a], Tried(a, p), p)
  BY <1>3 DEF Answers, Success, Succeeded
<1> QED
  BY <1>1, <1>5, <1>6, <1>7, <1>8 DEF PairTold

LEMMA ToldKept ==
  ASSUME MemoryInv, AttachedInv, [Next]_vars, ~StoreCredentials, ~Publish, NEW a, NEW p,
         PairTold(a, p)
  PROVE  PairTold(a, p)'
<1> USE DEF memory, cycle, opencti
<1>1. told' = told
  BY PlatformKept DEF LoseEdge
<1>2. Tried(a, p)' \subseteq Tried(a, p)
  BY TriedKept
<1>3. \A T : Answers(told[a], T, p)' = Answers(told[a], T', p)
  BY <1>1 DEF Answers, Success, Succeeded
<1>4. Answers(told[a], Attempts(<<a, p>>), p)'
  <2>1. CASE w' = w
    <3>1. Attempts(<<a, p>>)' = Attempts(<<a, p>>)
      BY <2>1, TriedKept
    <3> QED
      BY <1>1, <3>1 DEF PairTold, Answers, Success, Succeeded
  <2>2. CASE w' # w
    <3>1. MoveCursor /\ clean
      BY <2>2, WindowKept DEF MoveCursor
    <3>2. Attempts(<<a, p>>)' \subseteq Tried(a, p)'
      BY DEF Tried
    <3>3. Answers(told[a], Tried(a, p), p)
      BY <3>1 DEF MoveCursor, PairTold
    <3>4. Answers(told[a], Attempts(<<a, p>>)', p)
      BY <1>2, <3>2, <3>3, AnswersFewer
    <3> QED
      BY <1>1, <3>4 DEF Answers, Success, Succeeded
  <2> QED
    BY <2>1, <2>2
<1>5. ASSUME pc' \in {"max", "once", "cursor"}, clean' PROVE Answers(told[a], Tried(a, p), p)'
  <2>1. pc \in {"max", "once", "cursor"} /\ (clean' = clean \/ clean' = FALSE)
    BY <1>5 DEF Next, vars, StartCycle, Fold, EndFold, EmitCampaign, EmitNote, EmitSummary,
       WithholdPublish, StoreMax, MarkOnce, MoveCursor, Prune, Crash, LoseEdge, ClearLedger, AllRead
  <2>2. clean
    BY <1>5, <2>1, Zenon
  <2>3. Answers(told[a], Tried(a, p)', p)
    BY <1>2, <2>1, <2>2, AnswersFewer DEF PairTold
  <2> QED
    BY <1>1, <2>3 DEF Answers, Success, Succeeded
<1>6. ASSUME pc' \in {"roll", "publish"}, Tries(w, a, p)' # {}
      PROVE  Credentials(a) \in bundle' /\ <<"ip", a>> \in bundle'
  <2>1. pc \in {"roll", "publish"} /\ ~StartCycle /\ ~Fold
    BY <1>6 DEF Next, vars, StartCycle, Fold, EndFold, EmitCampaign, EmitNote, EmitSummary,
       WithholdPublish, StoreMax, MarkOnce, MoveCursor, Prune, Crash, LoseEdge, ClearLedger, AllRead
  <2>2. w' = w /\ bundle \subseteq bundle'
    BY <1>6, <2>1, BundleKept DEF Between
  <2>3. Tries(w, a, p) # {}
    BY <1>6, <2>2 DEF Tries
  <2> QED
    BY <2>1, <2>2, <2>3 DEF PairTold
<1> QED
  BY <1>4, <1>5, <1>6 DEF PairTold

LEMMA UsageStep ==
  MemoryInv /\ BuiltInv /\ AttachedInv /\ UsageInv /\ [Next]_vars => UsageInv'
<1> SUFFICES ASSUME MemoryInv, BuiltInv, AttachedInv, UsageInv, [Next]_vars, unstored' = {},
                    NEW a \in Addresses, NEW p \in Pairs
             PROVE  PairCounted(a, p)' /\ PairTold(a, p)'
  BY DEF UsageInv
<1>1. CASE StoreCredentials
  BY <1>1, StoreUsage
<1>2. CASE ~StoreCredentials
  <2>1. PairCounted(a, p) /\ PairTold(a, p)
    BY <1>2, UsageKept DEF UsageInv
  <2>2. PairCounted(a, p)'
    BY <1>2, <2>1, CountedKept
  <2>3. PairTold(a, p)'
    BY <1>2, <2>1, ToldPublish, ToldKept
  <2> QED
    BY <2>2, <2>3
<1> QED
  BY <1>1, <1>2

LEMMA UsageInit == Init => UsageInv
<1> SUFFICES ASSUME Init, NEW a \in Addresses, NEW p \in Pairs
             PROVE  PairCounted(a, p) /\ PairTold(a, p)
  BY DEF UsageInv
<1>1. Attempts(<<a, p>>) = {} /\ Tried(a, p) = {}
  BY DEF Init, Attempts, Tried, IsStored
<1>2. UsageOf(<<a, p>>) = [tried |-> 0, accepted |-> 0]
  BY DEF Init, UsageOf
<1> QED
  BY <1>1, <1>2, FS_EmptySet DEF Init, PairCounted, PairTold, Answers, Success

(* Between cycles the roll-up covers every session left behind that could be  *)
(* written and ended in the last 90 days, in whichever order they were folded *)
(* and however many cycles failed: no row is pruned with a recent session in  *)
(* it.  It counts each of them at least once, and none twice when no cycle    *)
(* failed; the credentials are counted likewise and never pruned, and the     *)
(* note in OpenCTI tells of every pair and whether it was ever accepted       *)
(* (upsert_attacker_activity, prune_attacker_activity, record_attempts,       *)
(* build_ip_credential_note).                                                 *)
THEOREM NothingForgotten == Spec => []RollupComplete
<1>1. MemoryInv /\ RollInv /\ UsageInv => RollupComplete
  <2> SUFFICES ASSUME MemoryInv, RollInv, UsageInv, pc = "idle" PROVE RollupComplete
    BY DEF RollupComplete
  <2>1. Seen = Read
    BY DEF Seen, FoldedNow, Between
  <2>2. \A row : SeenOf(row) = Of(row)
    BY <2>1 DEF SeenOf, Of, Session, RowKey
  <2>3. ASSUME NEW r \in Read, Windows[r[1]][r[2]].profiled, Due(r)
        PROVE  LET s == Windows[r[1]][r[2]] IN
                 /\ <<s.ip, s.parser>> \in DOMAIN activity
                 /\ LET row == activity[<<s.ip, s.parser>>] IN
                      /\ row.first <= s.first /\ s.last <= row.last
                      /\ s.substantive => row.substantive
    BY <2>1, <2>3 DEF RollInv, Covers, Session, RowKey
  <2>4. \A row \in DOMAIN activity :
          /\ Cardinality({r \in Of(row) : Due(r)}) <= activity[row].sessions
          /\ faults = 0 => activity[row].sessions <= Cardinality(Of(row))
    BY <2>2 DEF RollInv, RowCounts, DueOf
  <2>5. ASSUME unstored = {}, NEW a \in Addresses, NEW pair \in Pairs,
               Attempts(<<a, pair>>) # {}
        PROVE  /\ usage[<<a, pair>>].tried >= Cardinality(Attempts(<<a, pair>>))
               /\ faults = 0 => usage[<<a, pair>>].tried = Cardinality(Attempts(<<a, pair>>))
               /\ \E line \in told[a] :
                    /\ line[1] = pair
                    /\ (\E t \in Attempts(<<a, pair>>) : Succeeded(t)) => line[2]
    <3>1. Tried(a, pair) = Attempts(<<a, pair>>)
      BY DEF Tried, IsStored
    <3>2. PairCounted(a, pair) /\ PairTold(a, pair)
      BY <2>5 DEF UsageInv
    <3>3. UsageOf(<<a, pair>>) = usage[<<a, pair>>]
      BY <2>5, <3>1, <3>2 DEF PairCounted, UsageOf
    <3>4. /\ Cardinality(Attempts(<<a, pair>>)) \in Nat
          /\ usage[<<a, pair>>].tried \in Nat
          /\ Cardinality(Attempts(<<a, pair>>)) <= usage[<<a, pair>>].tried
          /\ faults = 0 => usage[<<a, pair>>].tried = Cardinality(Attempts(<<a, pair>>))
      BY <3>1, <3>2, <3>3, FS_CardinalityType DEF PairCounted
    <3> QED
      BY <2>5, <3>2, <3>4 DEF PairTold, Answers, Success
  <2> QED
    BY <2>3, <2>4, <2>5 DEF RollupComplete
<1> QED
  BY <1>1, MemoryInvInit, MemoryInvStep, EdgeInvInit, BuiltStep, AttachedInit, AttachedStep,
     RollInit, RollStep, UsageInit, UsageStep, PTL DEF Spec
=============================================================================
