----------------------------- MODULE IntakeProofs -----------------------------
(* Nothing is left behind the cursor of the intake, every document read is    *)
(* counted once, what a genuine attacker's documents say reaches the sessions,*)
(* and the sessions are what the parsers call one, for any documents and any  *)
(* sizes of pages and windows.                                                *)
EXTENDS Intake, FiniteSetTheorems, TLAPS

(* The keys of documents are in a strict order. *)
LEMMA KeysOrdered ==
  /\ \A d \in Documents : ~Before(Key(d), Key(d))
  /\ \A d, e \in Documents : d = e \/ Before(Key(d), Key(e)) \/ Before(Key(e), Key(d))
  /\ \A d, e, f \in Documents :
       Before(Key(d), Key(e)) /\ Before(Key(e), Key(f)) => Before(Key(d), Key(f))
  BY IntakeAssumption, SMT DEF Before, Key

(* How many hits come before a document; FirstOf takes them by this rank. *)
Earlier(hits, d) == {e \in hits : Before(Key(e), Key(d))}
Rank(hits, d) == Cardinality(Earlier(hits, d))

LEMMA EarlierRanksLower ==
  ASSUME NEW hits \in SUBSET Documents, NEW d \in hits, NEW e \in hits
  PROVE  /\ Rank(hits, d) \in Nat
         /\ Before(Key(e), Key(d)) <=> Rank(hits, e) < Rank(hits, d)
         /\ Rank(hits, e) = Rank(hits, d) => e = d
         /\ Rank(hits, d) < Cardinality(hits)
<1>1. IsFiniteSet(hits) /\ Cardinality(hits) \in Nat
  BY IntakeAssumption, FS_Subset, FS_CardinalityType
<1>2. \A f \in hits : IsFiniteSet(Earlier(hits, f)) /\ Rank(hits, f) \in Nat
  BY <1>1, FS_Subset, FS_CardinalityType DEF Earlier, Rank
<1>3. ASSUME NEW f \in hits, NEW g \in hits, Before(Key(f), Key(g))
      PROVE  Rank(hits, f) < Rank(hits, g)
  <2>1. Earlier(hits, f) \in SUBSET Earlier(hits, g)
    BY <1>3, KeysOrdered DEF Earlier
  <2>2. f \in Earlier(hits, g) /\ f \notin Earlier(hits, f)
    BY <1>3, KeysOrdered DEF Earlier
  <2>3. /\ Cardinality(Earlier(hits, f)) <= Cardinality(Earlier(hits, g))
        /\ Cardinality(Earlier(hits, f)) # Cardinality(Earlier(hits, g))
    BY <1>2, <2>1, <2>2, FS_Subset
  <2> QED
    BY <1>2, <2>3 DEF Rank
<1>4. d = e \/ Before(Key(d), Key(e)) \/ Before(Key(e), Key(d))
  BY KeysOrdered
<1>5. Rank(hits, d) < Cardinality(hits)
  <2>1. Earlier(hits, d) \in SUBSET hits /\ d \notin Earlier(hits, d)
    BY KeysOrdered DEF Earlier
  <2>2. /\ Cardinality(Earlier(hits, d)) <= Cardinality(hits)
        /\ Cardinality(Earlier(hits, d)) # Cardinality(hits)
    BY <1>1, <2>1, FS_Subset
  <2> QED
    BY <1>1, <1>2, <2>2 DEF Rank
<1>6. Before(Key(d), Key(e)) => Rank(hits, d) < Rank(hits, e)
  BY <1>3
<1>7. Before(Key(e), Key(d)) => Rank(hits, e) < Rank(hits, d)
  BY <1>3
<1>8. Rank(hits, d) \in Nat /\ Rank(hits, e) \in Nat
  BY <1>2
<1>9. ~Before(Key(d), Key(d))
  BY KeysOrdered
<1> QED
  BY <1>4, <1>5, <1>6, <1>7, <1>8, <1>9

(* Every rank below the number of hits is some hit's. *)
LEMMA EveryRankTaken ==
  ASSUME NEW hits \in SUBSET Documents, NEW k \in 0..Cardinality(hits) - 1
  PROVE  \E d \in hits : Rank(hits, d) = k
<1>1. IsFiniteSet(hits) /\ Cardinality(hits) \in Nat
  BY IntakeAssumption, FS_Subset, FS_CardinalityType
<1> DEFINE N == Cardinality(hits)
           T == 0..N - 1
           f == [d \in hits |-> Rank(hits, d)]
<1>2. f \in Injection(hits, T)
  <2>1. \A d \in hits : Rank(hits, d) \in T
    BY <1>1, EarlierRanksLower
  <2>2. \A d, e \in hits : f[d] = f[e] => d = e
    BY EarlierRanksLower
  <2> QED
    BY <2>1, <2>2 DEF Injection, IsInjective
<1>3. IsFiniteSet(T) /\ Cardinality(T) = N
  BY <1>1, FS_Interval
<1>4. f \in Surjection(hits, T)
  <2> HIDE DEF f, T
  <2> QED
    BY <1>2, <1>3, FS_Injection
<1> QED
  BY <1>4 DEF Surjection

(* A page is the first hits in order, up to its size. *)
LEMMA PageOfHits ==
  ASSUME NEW hits \in SUBSET Documents
  PROVE  /\ FirstOf(hits) \in Seq(hits)
         /\ \A i, j \in 1..Len(FirstOf(hits)) :
              i < j => Before(Key(FirstOf(hits)[i]), Key(FirstOf(hits)[j]))
         /\ FirstOf(hits) = <<>> => hits = {}
         /\ Len(FirstOf(hits)) < PageSize => hits \subseteq Range(FirstOf(hits))
         /\ \A i \in 1..Len(FirstOf(hits)), d \in hits :
              ~Before(Key(FirstOf(hits)[i]), Key(d)) => d \in Range(FirstOf(hits))
<1>1. IsFiniteSet(hits) /\ Cardinality(hits) \in Nat
  BY IntakeAssumption, FS_Subset, FS_CardinalityType
<1>2. PageSize \in Nat \ {0}
  BY IntakeAssumption
<1> DEFINE N == Cardinality(hits)
           size == IF N < PageSize THEN N ELSE PageSize
           page_(i) == CHOOSE d \in hits : Rank(hits, d) = i - 1
           P == FirstOf(hits)
<1>3. P = [i \in 1..size |-> page_(i)]
  BY DEF FirstOf, Rank, Earlier
<1>4. size \in Nat /\ size <= N /\ size <= PageSize
  BY <1>1, <1>2
<1>5. \A i \in 1..size : page_(i) \in hits /\ Rank(hits, page_(i)) = i - 1
  <2> TAKE i \in 1..size
  <2>1. i - 1 \in 0..N - 1
    BY <1>1, <1>4
  <2>2. \E d \in hits : Rank(hits, d) = i - 1
    BY <2>1, EveryRankTaken
  <2> QED
    BY <2>2
<1> HIDE DEF page_, size, P, N
<1>6. P \in Seq(hits) /\ Len(P) = size /\ DOMAIN P = 1..size
  BY <1>3, <1>4, <1>5
<1>7. \A i \in 1..size : P[i] \in hits /\ Rank(hits, P[i]) = i - 1
  BY <1>3, <1>5
<1>8. \A i, j \in 1..size : i < j => Before(Key(P[i]), Key(P[j]))
  <2> SUFFICES ASSUME NEW i \in 1..size, NEW j \in 1..size, i < j
               PROVE  Before(Key(P[i]), Key(P[j]))
    OBVIOUS
  <2>1. Rank(hits, P[i]) < Rank(hits, P[j])
    BY <1>4, <1>7
  <2> QED
    BY <1>7, <2>1, EarlierRanksLower
<1>9. ASSUME NEW d \in hits, Rank(hits, d) < size
      PROVE  d \in Range(P)
  <2>1. Rank(hits, d) \in Nat
    BY EarlierRanksLower
  <2>2. Rank(hits, d) + 1 \in 1..size
    BY <1>4, <1>9, <2>1
  <2> DEFINE i == Rank(hits, d) + 1
  <2>3. Rank(hits, P[i]) = Rank(hits, d)
    BY <1>7, <2>1, <2>2
  <2>4. P[i] = d
    BY <1>7, <2>2, <2>3, EarlierRanksLower
  <2> QED
    BY <1>6, <2>2, <2>4 DEF Range
<1>10. size = 0 => hits = {}
  BY <1>1, <1>2, FS_EmptySet DEF size, N
<1>11. size < PageSize => size = N
  BY <1>1, <1>2 DEF size
<1>12. ASSUME NEW i \in 1..size, NEW d \in hits, ~Before(Key(P[i]), Key(d))
       PROVE  d \in Range(P)
  <2>1. Rank(hits, d) <= Rank(hits, P[i])
    BY <1>7, <1>12, EarlierRanksLower
  <2>2. Rank(hits, d) \in Nat
    BY EarlierRanksLower
  <2>3. Rank(hits, d) < size
    BY <1>4, <1>7, <2>1, <2>2
  <2> QED
    BY <1>9, <2>3
<1>13. size < PageSize => hits \subseteq Range(P)
  <2> SUFFICES ASSUME size = N, NEW d \in hits
               PROVE  d \in Range(P)
    BY <1>11
  <2>1. Rank(hits, d) < N
    BY EarlierRanksLower DEF N
  <2> QED
    BY <1>9, <2>1
<1>14. P = <<>> => hits = {}
  BY <1>6, <1>10
<1> QED
  BY <1>6, <1>8, <1>12, <1>13, <1>14 DEF P

--------------------------------------------------------------------------------
(* Everything in the index that its window's read was in time for is either   *)
(* still to come, on the page at hand, or taken by the gates.                 *)
InTime == index \ overdue
Seen(d) == ended \/ ~Before(after, Key(d))
Streaming == pc = "stream"
Collected == pc \in {"correlate", "publish"}

IntakeType ==
  /\ now \in Nat /\ cursor \in Nat /\ from \in Nat /\ to \in Nat
  /\ 1 <= cursor /\ cursor <= now /\ from <= to /\ to <= now /\ (~Idle => from = cursor)
  /\ cycle \in 0..FattEvery - 1 /\ pc \in {"idle", "stream", "correlate", "publish"}
  /\ index \subseteq Documents /\ page \in Seq(Documents)
  /\ after \in Nat \X Nat /\ ended \in BOOLEAN
  /\ Idle => page = <<>> /\ after = NoKey /\ ended = FALSE

PageInOrder ==
  /\ \A i, j \in 1..Len(page) : i < j => Before(Key(page[i]), Key(page[j]))
  /\ Streaming => \A i \in 1..Len(page) :
       page[i].ts < to /\ ~Before(after, Key(page[i]))

ReadInOrder ==
  Streaming => \A d \in InTime : Matches(d) /\ Seen(d) => d \in taken \cup Range(page)

AllTaken == Collected => \A d \in InTime : Matches(d) => d \in taken

IntakeInv == IntakeType /\ PageInOrder /\ ReadInOrder /\ AllTaken /\ NothingLeftBehind

LEMMA IntakeInit == Init => IntakeInv
<1> SUFFICES ASSUME Init PROVE IntakeInv
  OBVIOUS
<1>1. 0 \in 0..FattEvery - 1
  BY IntakeAssumption
<1>2. IntakeType
  <2>1. page \in Seq(Documents) /\ after \in Nat \X Nat
    BY DEF Init, NoKey
  <2>2. /\ now = 1 /\ cursor = 1 /\ from = 1 /\ to = 1 /\ cycle = 0 /\ pc = "idle" /\ index = {}
        /\ ended \in BOOLEAN
    BY DEF Init
  <2>3. Idle => page = <<>> /\ after = NoKey /\ ended = FALSE
    BY DEF Init
  <2> QED
    BY <1>1, <2>1, <2>2, <2>3 DEF IntakeType, Idle
<1>3. PageInOrder
  <2>1. Len(page) = 0
    BY DEF Init
  <2> QED
    BY <2>1 DEF PageInOrder
<1>4. ReadInOrder /\ AllTaken /\ NothingLeftBehind
  BY DEF Init, ReadInOrder, AllTaken, NothingLeftBehind, Streaming, Collected, InTime
<1> QED
  BY <1>2, <1>3, <1>4 DEF IntakeInv

(* A step that leaves the window, the page and the index alone *)
Still == <<now, index, cursor, cycle, from, to, page, after, ended, taken, done, overdue>>

LEMMA IntakeStill ==
  ASSUME IntakeInv, UNCHANGED Still,
         pc' = pc \/ (Collected /\ Collected')
  PROVE  IntakeInv'
<1>1. Idle' = Idle /\ (pc' = pc \/ (~Idle /\ ~Streaming' /\ pc' \in {"correlate", "publish"}))
  BY DEF IntakeInv, IntakeType, Collected, Idle, Streaming
<1>2. IntakeType'
  BY <1>1 DEF IntakeInv, IntakeType, Still, Idle
<1>3. PageInOrder'
  BY <1>1 DEF IntakeInv, PageInOrder, Still, Streaming
<1>4. ReadInOrder'
  BY <1>1 DEF IntakeInv, ReadInOrder, Still, Streaming, InTime, Seen, Matches, Ignored,
              FattThisCycle
<1>5. AllTaken'
  BY DEF IntakeInv, AllTaken, Still, Collected, InTime, Matches, Ignored, FattThisCycle
<1>6. NothingLeftBehind'
  BY DEF IntakeInv, NothingLeftBehind, Still
<1> QED
  BY <1>2, <1>3, <1>4, <1>5, <1>6 DEF IntakeInv

(* A document passes a gate: it moves from the page to those taken. *)
LEMMA IntakeGate ==
  ASSUME IntakeInv, Streaming, page # <<>>, Taken
  PROVE  IntakeInv'
<1>1. /\ page \in Seq(Documents) /\ page' = Tail(page) /\ taken' = taken \cup {Head(page)}
      /\ UNCHANGED <<now, index, cursor, cycle, pc, from, to, after, ended, done, overdue>>
  BY DEF IntakeInv, IntakeType, Taken, window, history
<1>2. /\ page' \in Seq(Documents) /\ Len(page') = Len(page) - 1 /\ Len(page) \in Nat
      /\ \A i \in 1..Len(page') : i + 1 \in 1..Len(page) /\ page'[i] = page[i + 1]
  BY <1>1
<1>3. IntakeType'
  BY <1>1, <1>2 DEF IntakeInv, IntakeType, Streaming, Idle
<1>4. PageInOrder'
  <2>1. \A i, j \in 1..Len(page') : i < j => Before(Key(page'[i]), Key(page'[j]))
    <3> SUFFICES ASSUME NEW i \in 1..Len(page'), NEW j \in 1..Len(page'), i < j
                 PROVE  Before(Key(page'[i]), Key(page'[j]))
      OBVIOUS
    <3>1. i + 1 \in 1..Len(page) /\ j + 1 \in 1..Len(page) /\ i + 1 < j + 1
      BY <1>2
    <3>2. Before(Key(page[i + 1]), Key(page[j + 1]))
      BY <3>1 DEF IntakeInv, PageInOrder
    <3> QED
      BY <1>2, <3>2
  <2>2. \A i \in 1..Len(page') : page'[i].ts < to' /\ ~Before(after', Key(page'[i]))
    BY <1>1, <1>2 DEF IntakeInv, PageInOrder, Streaming
  <2>3. \A i, j \in 1..Len(page') : Key(page[i])' = Key(page'[i])
    BY DEF Key
  <2> QED
    BY <2>1, <2>2 DEF PageInOrder, Key, Before
<1>5. Range(page) \subseteq {Head(page)} \cup Range(page')
  <2> SUFFICES ASSUME NEW i \in 1..Len(page), i # 1
               PROVE  page[i] \in Range(page')
    BY <1>1 DEF Range
  <2>1. i - 1 \in 1..Len(page') /\ page'[i - 1] = page[i]
    BY <1>2
  <2>2. DOMAIN page' = 1..Len(page')
    BY <1>2
  <2> QED
    BY <2>1, <2>2 DEF Range
<1>6. ReadInOrder'
  BY <1>1, <1>5 DEF IntakeInv, ReadInOrder, Streaming, InTime, Seen, Matches, Ignored,
                    FattThisCycle
<1>7. AllTaken'
  BY <1>1 DEF AllTaken, Streaming, Collected
<1>8. NothingLeftBehind'
  BY <1>1 DEF IntakeInv, NothingLeftBehind
<1> QED
  BY <1>3, <1>4, <1>6, <1>7, <1>8 DEF IntakeInv

(* The next page: the hits after the last one at hand *)
LEMMA IntakePage ==
  ASSUME IntakeInv, FetchPage
  PROVE  IntakeInv'
<1> DEFINE hits == {d \in index : Matches(d) /\ Before(after, Key(d))}
<1>1. /\ Streaming /\ page = <<>> /\ ~ended
      /\ page' = FirstOf(hits)
      /\ ended' = (Len(FirstOf(hits)) < PageSize)
      /\ after' = IF FirstOf(hits) = <<>> THEN after ELSE Key(Last(FirstOf(hits)))
      /\ UNCHANGED <<now, index, cursor, cycle, pc, from, to, taken, done, overdue>>
  BY DEF FetchPage, Page, Streaming, window, tally, history
<1>2. hits \in SUBSET Documents
  BY DEF IntakeInv, IntakeType
<1> HIDE DEF hits
<1>3. /\ page' \in Seq(hits)
      /\ \A i, j \in 1..Len(page') : i < j => Before(Key(page'[i]), Key(page'[j]))
      /\ page' = <<>> => hits = {}
      /\ ended' => hits \subseteq Range(page')
      /\ \A i \in 1..Len(page'), d \in hits :
           ~Before(Key(page'[i]), Key(d)) => d \in Range(page')
  BY <1>1, <1>2, PageOfHits
<1>4. /\ Len(page') \in Nat /\ page' \in Seq(Documents)
      /\ \A i \in 1..Len(page') : page'[i] \in hits
      /\ page' # <<>> => Len(page') \in 1..Len(page')
  BY <1>2, <1>3
<1>5. after' = IF page' = <<>> THEN after ELSE Key(page'[Len(page')])
  BY <1>1 DEF Last
<1>6. IntakeType'
  <2>1. after' \in Nat \X Nat
    BY <1>2, <1>4, <1>5, IntakeAssumption DEF IntakeInv, IntakeType, Key
  <2>2. ended' \in BOOLEAN
    BY <1>1
  <2> QED
    BY <1>1, <1>4, <2>1, <2>2 DEF IntakeInv, IntakeType, Streaming, Idle
<1>7. \A i \in 1..Len(page') : page'[i].ts < to' /\ ~Before(after', Key(page'[i]))
  <2> SUFFICES ASSUME NEW i \in 1..Len(page')
               PROVE  page'[i].ts < to' /\ ~Before(after', Key(page'[i]))
    OBVIOUS
  <2>1. page'[i].ts < to'
    BY <1>1, <1>4 DEF hits, Matches
  <2>2. page' # <<>>
    BY <1>4
  <2>3. i = Len(page') \/ Before(Key(page'[i]), Key(page'[Len(page')]))
    BY <1>3, <1>4, <2>2
  <2>4. page'[i] \in Documents /\ page'[Len(page')] \in Documents
    BY <1>2, <1>4, <2>2
  <2>5. ~Before(Key(page'[Len(page')]), Key(page'[i]))
    BY <2>3, <2>4, KeysOrdered
  <2> QED
    BY <1>5, <2>1, <2>2, <2>5
<1>8. PageInOrder'
  BY <1>3, <1>7 DEF PageInOrder, Key, Before
<1>9. ASSUME NEW d \in index \ overdue, Matches(d), ended' \/ ~Before(after', Key(d))
      PROVE  d \in taken \cup Range(page')
  <2>1. CASE ~Before(after, Key(d))
    BY <1>1, <1>9, <2>1 DEF IntakeInv, ReadInOrder, Seen, InTime, Range
  <2>2. CASE Before(after, Key(d))
    <3>1. d \in hits
      BY <1>9, <2>2 DEF hits
    <3>2. CASE ended'
      BY <1>3, <3>1, <3>2
    <3>3. CASE ~Before(after', Key(d))
      <4>1. page' # <<>>
        BY <1>3, <3>1
      <4> QED
        BY <1>3, <1>4, <1>5, <3>1, <3>3, <4>1
    <3> QED
      BY <1>9, <3>2, <3>3
  <2> QED
    BY <2>1, <2>2
<1>10. ReadInOrder'
  BY <1>1, <1>9 DEF ReadInOrder, InTime, Seen, Matches, Ignored, FattThisCycle, Key, Before
<1>11. AllTaken' /\ NothingLeftBehind'
  BY <1>1 DEF IntakeInv, AllTaken, NothingLeftBehind, Streaming, Collected
<1> QED
  BY <1>6, <1>8, <1>10, <1>11 DEF IntakeInv

(* The cap: what is earlier than the document that trips it has been taken. *)
LEMMA IntakeCap ==
  ASSUME IntakeInv, StopAtCap
  PROVE  IntakeInv'
<1> DEFINE h == page[1]
<1>1. /\ Streaming /\ page # <<>> /\ h = Head(page) /\ h.ts > from
      /\ to' = h.ts /\ pc' = "correlate"
      /\ UNCHANGED <<now, index, cursor, cycle, from, page, after, ended, taken, done, overdue>>
  BY DEF StopAtCap, AtCap, Cut, Streaming, stream, history
<1>2. /\ page \in Seq(Documents) /\ Len(page) \in Nat /\ 1 \in 1..Len(page) /\ h \in Documents
      /\ h.ts < to /\ ~Before(after, Key(h))
  BY <1>1 DEF IntakeInv, IntakeType, PageInOrder
<1>3. h.ts \in Nat
  BY <1>2, IntakeAssumption
<1> HIDE DEF h
<1>4. IntakeType'
  BY <1>1, <1>2, <1>3 DEF IntakeInv, IntakeType, Streaming, Idle
<1>5. PageInOrder'
  BY <1>1 DEF IntakeInv, PageInOrder, Streaming, Key, Before
<1>6. ASSUME NEW d \in InTime, Matches(d), d.ts < h.ts
      PROVE  d \in taken
  <2>1. d \in Documents /\ d.ts \in Nat /\ d.pos \in Nat
    BY IntakeAssumption DEF InTime, IntakeInv, IntakeType
  <2>2. Before(Key(d), Key(h))
    BY <1>6 DEF Before, Key
  <2>3. ~Before(after, Key(d))
    <3>1. after \in Nat \X Nat
      BY DEF IntakeInv, IntakeType
    <3>2. h.pos \in Nat
      BY <1>2, IntakeAssumption
    <3> QED
      BY <1>2, <1>3, <1>6, <2>1, <3>1, <3>2 DEF Before, Key
  <2>4. d \in taken \cup Range(page)
    BY <1>1, <1>6, <2>3 DEF IntakeInv, ReadInOrder, Seen
  <2>5. \A i \in 1..Len(page) : page[i] # d
    <3> SUFFICES ASSUME NEW i \in 1..Len(page), page[i] = d
                 PROVE  FALSE
      OBVIOUS
    <3>1. i = 1 \/ Before(Key(h), Key(d))
      BY <1>2 DEF IntakeInv, PageInOrder, h
    <3>2. i # 1
      BY <1>2, <2>2, KeysOrdered DEF h
    <3> QED
      BY <1>2, <2>1, <2>2, <3>1, <3>2, KeysOrdered
  <2> QED
    BY <1>2, <2>4, <2>5 DEF Range
<1>7. ReadInOrder'
  BY <1>1 DEF ReadInOrder, Streaming
<1>8. AllTaken'
  <2> SUFFICES ASSUME NEW d \in InTime', Matches(d)'
               PROVE  d \in taken'
    BY DEF AllTaken
  <2>1. d \in InTime /\ d.ts < h.ts
    BY <1>1 DEF InTime, Matches
  <2>2. d \in Documents
    BY <2>1 DEF InTime, IntakeInv, IntakeType
  <2>3. d.ts < to
    BY <1>2, <1>3, <2>1, <2>2, IntakeAssumption DEF IntakeInv, IntakeType
  <2>4. Matches(d)
    BY <1>1, <2>3 DEF Matches, Ignored, FattThisCycle
  <2> QED
    BY <1>1, <1>6, <2>1, <2>4
<1>9. NothingLeftBehind'
  BY <1>1 DEF IntakeInv, NothingLeftBehind
<1> QED
  BY <1>4, <1>5, <1>7, <1>8, <1>9 DEF IntakeInv

LEMMA WantedMatches ==
  ASSUME IntakeType, NEW d \in Documents, Wanted(d), from <= d.ts, d.ts < to
  PROVE  Matches(d)
<1>1. d.type = "Fatt" => cycle = 0
  BY IntakeAssumption DEF IntakeType, Wanted
<1> QED
  BY <1>1 DEF Wanted, Matches, Ignored, FattThisCycle

(* What ends a cycle: the cursor is moved or the window is given up. *)
LEMMA IntakeEnd ==
  ASSUME IntakeInv, ~Idle, EndCycle, UNCHANGED <<now, index, cycle, overdue>>,
         \/ UNCHANGED <<cursor, done>>
         \/ Collected /\ cursor' = to /\ done' = done \cup {d \in taken : d.ts < to}
  PROVE  IntakeInv'
<1>1. /\ pc' = "idle" /\ from' = cursor' /\ to' = cursor' /\ page' = <<>> /\ after' = NoKey
      /\ ended' = FALSE
  BY DEF EndCycle
<1>2. cursor' \in Nat /\ 1 <= cursor' /\ cursor' <= now
  BY DEF IntakeInv, IntakeType
<1>3. IntakeType'
  <2>1. page' \in Seq(Documents) /\ after' \in Nat \X Nat /\ ended' \in BOOLEAN
    <3>1. page' = <<>> /\ after' = <<0, 0>> /\ ended' = FALSE
      BY <1>1 DEF NoKey
    <3>2. page' \in Seq(Documents)
      BY <3>1
    <3>3. after' \in Nat \X Nat
      BY <3>1
    <3>4. ended' \in BOOLEAN
      BY <3>1
    <3> QED
      BY <3>2, <3>3, <3>4
  <2>2. Idle' => page' = <<>> /\ after' = NoKey' /\ ended' = FALSE
    BY <1>1 DEF NoKey
  <2>3. pc' = "idle" /\ from' = cursor' /\ to' = cursor'
    BY <1>1
  <2>4. cycle' \in 0..FattEvery - 1 /\ now' = now /\ now \in Nat /\ index' \subseteq Documents
    BY DEF IntakeInv, IntakeType
  <2> QED
    BY <1>2, <2>1, <2>2, <2>3, <2>4 DEF IntakeType, Idle
<1>4. PageInOrder'
  <2>1. Len(page') = 0
    BY <1>1
  <2> QED
    BY <2>1 DEF PageInOrder
<1>5. ReadInOrder' /\ AllTaken'
  BY <1>1 DEF ReadInOrder, AllTaken, Streaming, Collected
<1>6. NothingLeftBehind'
  <2> SUFFICES ASSUME NEW d \in index \ overdue, Wanted(d), d.ts < cursor'
               PROVE  d \in done'
    BY DEF NothingLeftBehind, Wanted
  <2>1. d \in Documents /\ d.ts \in Nat
    BY IntakeAssumption DEF IntakeInv, IntakeType
  <2>2. CASE UNCHANGED <<cursor, done>>
    BY <2>2 DEF IntakeInv, NothingLeftBehind
  <2>3. CASE Collected /\ cursor' = to /\ done' = done \cup {c \in taken : c.ts < to}
    <3>1. CASE d.ts < cursor
      BY <2>3, <3>1 DEF IntakeInv, NothingLeftBehind
    <3>2. CASE ~(d.ts < cursor)
      <4>1. from <= d.ts /\ d.ts < to
        BY <2>1, <2>3, <3>2 DEF IntakeInv, IntakeType, Idle
      <4>2. Matches(d)
        BY <2>1, <4>1, WantedMatches DEF IntakeInv
      <4> QED
        BY <2>3, <4>1, <4>2 DEF IntakeInv, AllTaken, InTime
    <3> QED
      BY <3>1, <3>2
  <2> QED
    BY <2>2, <2>3
<1> QED
  BY <1>3, <1>4, <1>5, <1>6 DEF IntakeInv

LEMMA IntakeStart ==
  ASSUME IntakeInv, StartCycle
  PROVE  IntakeInv'
<1>1. /\ Idle /\ cursor < now /\ cycle' = (cycle + 1) % FattEvery /\ from' = cursor
      /\ to' = IF now - cursor > MaxWindow THEN cursor + MaxWindow ELSE now
      /\ pc' = "stream"
      /\ UNCHANGED <<now, index, cursor, page, after, ended, taken, done, overdue>>
  BY DEF StartCycle, stream, tally, history
<1>2. page = <<>> /\ after = NoKey /\ ended = FALSE
  BY <1>1 DEF IntakeInv, IntakeType
<1>3. to' \in Nat /\ from' <= to' /\ to' <= now
  BY <1>1, IntakeAssumption DEF IntakeInv, IntakeType
<1>4. cycle' \in 0..FattEvery - 1
  <2>1. FattEvery \in Nat \ {0} /\ cycle \in Nat
    BY IntakeAssumption DEF IntakeInv, IntakeType
  <2> QED
    BY <1>1, <2>1
<1>5. IntakeType'
  BY <1>1, <1>2, <1>3, <1>4 DEF IntakeInv, IntakeType, Idle
<1>6. PageInOrder'
  <2>1. Len(page') = 0
    BY <1>1, <1>2
  <2> QED
    BY <2>1 DEF PageInOrder
<1>7. ReadInOrder'
  <2> SUFFICES ASSUME NEW d \in InTime', Matches(d)', Seen(d)'
               PROVE  FALSE
    BY DEF ReadInOrder
  <2>1. d \in Documents /\ d.ts \in Nat /\ d.pos \in Nat
    BY <1>1, IntakeAssumption DEF InTime, IntakeInv, IntakeType
  <2>2. d.ts >= 1
    BY <1>1, <2>1 DEF Matches, IntakeInv, IntakeType
  <2>3. Before(NoKey, Key(d))
    BY <2>1, <2>2 DEF Before, NoKey, Key
  <2> QED
    BY <1>1, <1>2, <2>3 DEF Seen, Key, Before
<1>8. AllTaken' /\ NothingLeftBehind'
  BY <1>1 DEF IntakeInv, AllTaken, NothingLeftBehind, Collected
<1> QED
  BY <1>5, <1>6, <1>7, <1>8 DEF IntakeInv

(* The clock and the sensors: what is new lies outside the window at hand. *)
LEMMA IntakeArrivals ==
  ASSUME IntakeInv, now' \in Nat, now <= now', index' \subseteq Documents,
         overdue \subseteq overdue',
         UNCHANGED <<cursor, cycle, pc, from, to, page, after, ended, taken, done>>,
         \A d \in index' \ index :
           d \in overdue' \/ ~(d.ts < IF Idle THEN cursor ELSE to)
  PROVE  IntakeInv'
<1>1. IntakeType'
  BY DEF IntakeInv, IntakeType, Idle
<1>2. PageInOrder'
  BY DEF IntakeInv, PageInOrder, Streaming, Key, Before
<1>3. \A d \in InTime' : d \in InTime \/ ~(d.ts < IF Idle THEN cursor ELSE to)
  BY DEF InTime
<1>4. ReadInOrder'
  BY <1>3 DEF IntakeInv, ReadInOrder, Streaming, Idle, Seen, Matches, Ignored, FattThisCycle,
              Key, Before
<1>5. AllTaken'
  BY <1>3 DEF IntakeInv, AllTaken, Collected, Idle, Matches, Ignored, FattThisCycle
<1>6. NothingLeftBehind'
  <2> SUFFICES ASSUME NEW d \in InTime', Wanted(d), d.ts < cursor
               PROVE  d \in done
    BY DEF NothingLeftBehind, InTime, Wanted
  <2>1. d \in Documents /\ d.ts \in Nat
    BY IntakeAssumption DEF InTime
  <2>2. Idle \/ cursor <= to
    BY DEF IntakeInv, IntakeType
  <2>3. d.ts < IF Idle THEN cursor ELSE to
    BY <2>1, <2>2 DEF IntakeInv, IntakeType
  <2> QED
    BY <1>3, <2>3 DEF IntakeInv, NothingLeftBehind, InTime
<1> QED
  BY <1>1, <1>2, <1>4, <1>5, <1>6 DEF IntakeInv

LEMMA IntakeStep == IntakeInv /\ [Next]_vars => IntakeInv'
<1> SUFFICES ASSUME IntakeInv, [Next]_vars
             PROVE  IntakeInv'
  OBVIOUS
<1>1. CASE StartCycle
  BY <1>1, IntakeStart
<1>2. CASE FetchPage
  BY <1>2, IntakePage
<1>3. CASE EndOfStream
  <2>1. /\ pc' = "correlate" /\ UNCHANGED Still
        /\ Streaming /\ page = <<>> /\ ended
    BY <1>3 DEF EndOfStream, Still, Streaming, window, stream, tally, history
  <2>2. IntakeType'
    BY <2>1 DEF IntakeInv, IntakeType, Still, Streaming, Idle
  <2>3. PageInOrder' /\ ReadInOrder'
    BY <2>1 DEF IntakeInv, PageInOrder, ReadInOrder, Still, Streaming, Key, Before
  <2>4. AllTaken'
    <3>1. Range(page) = {}
      BY <2>1 DEF Range
    <3> QED
      BY <2>1, <3>1 DEF IntakeInv, AllTaken, ReadInOrder, Still, InTime, Seen, Matches, Ignored,
                        FattThisCycle
  <2>5. NothingLeftBehind'
    BY <2>1 DEF IntakeInv, NothingLeftBehind, Still
  <2> QED
    BY <2>2, <2>3, <2>4, <2>5 DEF IntakeInv
<1>4. CASE StopAtCap
  BY <1>4, IntakeCap
<1>5. CASE Unparsed \/ RejectSource \/ OwnSource \/ ScreenKnown \/ ScreenByName
  <2>1. Streaming /\ page # <<>> /\ Taken
    BY <1>5 DEF Unparsed, RejectSource, OwnSource, ScreenKnown, ScreenByName, Screened, Next_,
                Streaming
  <2> QED
    BY <2>1, IntakeGate
<1>6. CASE CorrelateAll
  BY <1>6, IntakeStill DEF CorrelateAll, Still, Collected, window, stream, tally, history
<1>7. CASE Complete
  BY <1>7, IntakeEnd DEF Complete, Collected, Idle
<1>8. CASE Fail \/ FetchFails
  BY <1>8, IntakeEnd DEF Fail, FetchFails, Idle, history
<1>9. CASE Tick
  <2>1. /\ now' = now + 1 /\ index' = index \cup {d \in Documents \ Late : d.ts = now}
        /\ UNCHANGED <<overdue, cursor, cycle, pc, from, to, page, after, ended, taken, done>>
    BY <1>9 DEF Tick, window, stream, tally, history
  <2>2. now' \in Nat /\ now <= now' /\ index' \subseteq Documents
    BY <2>1 DEF IntakeInv, IntakeType
  <2>3. \A d \in index' \ index : ~(d.ts < IF Idle THEN cursor ELSE to)
    BY <2>1 DEF IntakeInv, IntakeType
  <2> QED
    BY <2>1, <2>2, <2>3, IntakeArrivals
<1>10. ASSUME NEW d \in Documents, Arrive(d) PROVE IntakeInv'
  <2>1. /\ index' = index \cup {d}
        /\ overdue' = IF d.ts < (IF Idle THEN cursor ELSE to) THEN overdue \cup {d} ELSE overdue
        /\ UNCHANGED <<now, cursor, cycle, pc, from, to, page, after, ended, taken, done>>
    BY <1>10 DEF Arrive, window, stream, tally
  <2>2. now' \in Nat /\ now <= now' /\ index' \subseteq Documents /\ overdue \subseteq overdue'
    BY <2>1 DEF IntakeInv, IntakeType
  <2>3. \A c \in index' \ index : c \in overdue' \/ ~(c.ts < IF Idle THEN cursor ELSE to)
    BY <2>1
  <2> QED
    BY <2>1, <2>2, <2>3, IntakeArrivals
<1>11. CASE \E a \in Addresses : Forget(a)
  BY <1>11, IntakeStill DEF Forget, Still, window, stream, tally, history
<1>12. CASE UNCHANGED vars
  BY <1>12, IntakeStill DEF vars, Still, window, stream, tally, history
<1> QED
  BY <1>1, <1>2, <1>3, <1>4, <1>5, <1>6, <1>7, <1>8, <1>9, <1>10, <1>11, <1>12
     DEF Next, CycleStep

(* No document is lost between the sensors and the gates: whatever the cap    *)
(* cuts off, wherever pages end and however often a cycle fails, what was in  *)
(* the index when its window was read is behind the cursor only after a       *)
(* completed cycle has taken it (stream_events, _run_cycle_locked).           *)
THEOREM CursorLeavesNothing == Spec => []NothingLeftBehind
<1>1. IntakeInv => NothingLeftBehind
  BY DEF IntakeInv
<1> QED
  BY <1>1, IntakeInit, IntakeStep, PTL DEF Spec

--------------------------------------------------------------------------------
(* What a cycle takes is within one window.                                   *)
WindowInv ==
  /\ Streaming => /\ to <= from + MaxWindow
                  /\ \A d \in Range(page) : d \in index /\ from <= d.ts /\ d.ts < to
  /\ \A d \in taken : d \in index /\ from <= d.ts /\ d.ts < from + MaxWindow
  /\ Idle => taken = {}

LEMMA WindowInit == Init => WindowInv
  BY DEF Init, WindowInv, Streaming, Idle

LEMMA WindowStep == IntakeInv /\ WindowInv /\ [Next]_vars => WindowInv'
<1> SUFFICES ASSUME IntakeInv, WindowInv, [Next]_vars
             PROVE  WindowInv'
  OBVIOUS
<1>0. /\ from \in Nat /\ to \in Nat /\ now \in Nat /\ cursor \in Nat /\ MaxWindow \in Nat
      /\ page \in Seq(Documents) /\ index \subseteq Documents /\ (~Idle => from = cursor)
      /\ \A d \in Documents : d.ts \in Nat
  BY IntakeAssumption DEF IntakeInv, IntakeType
<1>1. CASE StartCycle
  <2>1. /\ from' = cursor /\ taken' = taken /\ page' = page /\ index' = index /\ Idle
        /\ to' = IF now - cursor > MaxWindow THEN cursor + MaxWindow ELSE now
    BY <1>1 DEF StartCycle, stream, tally
  <2>2. to' <= from' + MaxWindow
    BY <1>0, <2>1
  <2>3. page = <<>> /\ taken = {}
    BY <2>1 DEF IntakeInv, IntakeType, WindowInv
  <2> QED
    BY <2>1, <2>2, <2>3 DEF StartCycle, WindowInv, Range, Idle
<1>2. CASE FetchPage
  <2> DEFINE hits == {d \in index : Matches(d) /\ Before(after, Key(d))}
  <2>1. /\ Streaming /\ page' = FirstOf(hits)
        /\ UNCHANGED <<index, pc, from, to, taken>>
    BY <1>2 DEF FetchPage, Page, Streaming, window, tally
  <2>2. hits \in SUBSET Documents /\ \A d \in hits : d \in index /\ from <= d.ts /\ d.ts < to
    BY <1>0 DEF Matches
  <2> HIDE DEF hits
  <2>3. page' \in Seq(hits)
    BY <2>1, <2>2, PageOfHits
  <2>4. Range(page') \subseteq hits
    BY <2>3 DEF Range
  <2> QED
    BY <2>1, <2>2, <2>4 DEF WindowInv, Streaming, Idle
<1>3. CASE Unparsed \/ RejectSource \/ OwnSource \/ ScreenKnown \/ ScreenByName
  <2>1. Streaming /\ page # <<>> /\ Taken
    BY <1>3 DEF Unparsed, RejectSource, OwnSource, ScreenKnown, ScreenByName, Screened, Next_,
                Streaming
  <2>2. /\ page' = Tail(page) /\ taken' = taken \cup {Head(page)}
        /\ UNCHANGED <<index, pc, from, to>>
    BY <2>1 DEF Taken, window
  <2>3. Head(page) \in Range(page)
    BY <1>0, <2>1 DEF Range
  <2>4. Range(page') \subseteq Range(page)
    <3>1. \A i \in 1..Len(page') : i + 1 \in 1..Len(page) /\ page'[i] = page[i + 1]
      BY <1>0, <2>1, <2>2
    <3>2. DOMAIN page' = 1..Len(page') /\ DOMAIN page = 1..Len(page)
      BY <1>0, <2>1, <2>2
    <3> QED
      BY <3>1, <3>2 DEF Range
  <2>5. Range(page) \subseteq Documents
    BY <1>0 DEF Range
  <2>6. /\ Head(page) \in Documents /\ Head(page) \in index /\ from <= Head(page).ts
        /\ Head(page).ts < to /\ to <= from + MaxWindow
    BY <2>1, <2>3, <2>5 DEF WindowInv
  <2>7. Head(page).ts < from + MaxWindow
    BY <1>0, <2>6
  <2> QED
    BY <2>1, <2>2, <2>4, <2>6, <2>7 DEF WindowInv, Streaming, Idle
<1>4. CASE EndOfStream \/ StopAtCap \/ CorrelateAll
  <2>1. UNCHANGED <<index, from, taken>> /\ pc' \notin {"stream", "idle"}
    BY <1>4 DEF EndOfStream, StopAtCap, CorrelateAll, window, tally
  <2> QED
    BY <2>1 DEF WindowInv, Streaming, Idle
<1>5. CASE Complete \/ Fail \/ FetchFails
  <2>1. taken' = {} /\ pc' = "idle"
    BY <1>5 DEF Complete, Fail, FetchFails, EndCycle
  <2> QED
    BY <2>1 DEF WindowInv, Streaming, Idle
<1>6. CASE Tick \/ (\E d \in Documents : Arrive(d)) \/ (\E a \in Addresses : Forget(a))
           \/ UNCHANGED vars
  <2>1. UNCHANGED <<pc, from, to, page, taken>> /\ index \subseteq index'
    BY <1>6 DEF Tick, Arrive, Forget, window, stream, tally, vars
  <2> QED
    BY <2>1 DEF WindowInv, Streaming, Idle
<1> QED
  BY <1>1, <1>2, <1>3, <1>4, <1>5, <1>6 DEF Next, CycleStep

--------------------------------------------------------------------------------
(* Every document read is in exactly one counter. *)
TallyInv ==
  /\ read \in Nat /\ dropped \in [Reasons -> Nat] /\ capped \in BOOLEAN
  /\ parsed \in Seq({Event(d) : d \in Documents})
  /\ capped => pc \in {"correlate", "publish"}
  /\ read = Len(parsed) + Dropped + (IF capped THEN 1 ELSE 0)

LEMMA TallyInit == Init => TallyInv
<1> SUFFICES ASSUME Init PROVE TallyInv
  OBVIOUS
<1>1. /\ read = 0 /\ parsed = <<>> /\ dropped = [r \in Reasons |-> 0] /\ capped = FALSE
  BY DEF Init
<1>2. Dropped = 0 /\ Len(parsed) = 0
  BY <1>1 DEF Dropped, Reasons
<1>3. parsed \in Seq({Event(d) : d \in Documents}) /\ dropped \in [Reasons -> Nat]
  BY <1>1
<1>4. read \in Nat /\ capped \in BOOLEAN /\ (capped => pc \in {"correlate", "publish"})
  BY <1>1
<1>5. read = Len(parsed) + Dropped + (IF capped THEN 1 ELSE 0)
  BY <1>1, <1>2
<1> QED
  BY <1>3, <1>4, <1>5, Zenon DEF TallyInv

LEMMA TallyEnds ==
  ASSUME EndCycle
  PROVE  TallyInv'
<1>1. /\ read' = 0 /\ parsed' = <<>> /\ dropped' = [r \in Reasons |-> 0] /\ capped' = FALSE
  BY DEF EndCycle
<1>2. Dropped' = 0 /\ Len(parsed') = 0
  BY <1>1 DEF Dropped, Reasons
<1>3. parsed' \in Seq({Event(d) : d \in Documents}) /\ dropped' \in [Reasons -> Nat]
  BY <1>1
<1>4. read' \in Nat /\ capped' \in BOOLEAN /\ (capped' => pc' \in {"correlate", "publish"})
  BY <1>1
<1>5. read' = Len(parsed') + Dropped' + (IF capped' THEN 1 ELSE 0)
  BY <1>1, <1>2
<1> QED
  BY <1>3, <1>4, <1>5, Zenon DEF TallyInv

LEMMA DropCounts ==
  ASSUME TallyInv, pc = "stream", pc' = pc, capped' = capped, read' = read + 1,
         NEW r \in Reasons, Drop(r)
  PROVE  TallyInv'
<1>1. dropped' \in [Reasons -> Nat] /\ dropped' = [dropped EXCEPT ![r] = @ + 1]
  BY DEF TallyInv, Drop
<1>2. Dropped' = Dropped + 1
  <2>1. \A q \in Reasons : dropped[q] \in Nat
    BY DEF TallyInv
  <2>2. \A q \in Reasons : dropped'[q] = IF q = r THEN dropped[q] + 1 ELSE dropped[q]
    BY <1>1 DEF TallyInv
  <2>3. r \in {"unparsed", "src_ip_rejected", "self_or_internal", "benign_scanner"}
    BY DEF Reasons
  <2> QED
    BY <2>1, <2>2, <2>3 DEF Dropped, Reasons
<1>3. Dropped \in Nat /\ Len(parsed) \in Nat
  BY DEF Dropped, Reasons, TallyInv
<1>4. parsed' = parsed /\ capped = FALSE /\ capped' = FALSE
  BY DEF Drop, TallyInv
<1>5. read = Len(parsed) + Dropped
  BY <1>3, <1>4 DEF TallyInv
<1>6. read' = Len(parsed') + Dropped'
  BY <1>2, <1>3, <1>4, <1>5
<1> QED
  BY <1>1, <1>4, <1>5, <1>6, <1>3, <1>2 DEF TallyInv

LEMMA KeepCounts ==
  ASSUME TallyInv, pc = "stream", pc' = pc, capped' = capped, read' = read + 1,
         NEW d \in Documents, Keep(d)
  PROVE  TallyInv'
<1>1. /\ parsed' \in Seq({Event(e) : e \in Documents}) /\ Len(parsed') = Len(parsed) + 1
      /\ dropped' = dropped /\ Len(parsed) \in Nat
  BY DEF TallyInv, Keep
<1>2. Dropped' = Dropped /\ Dropped \in Nat
  BY <1>1 DEF Dropped, Reasons, TallyInv
<1>3. capped = FALSE /\ capped' = FALSE
  BY DEF TallyInv
<1>4. read = Len(parsed) + Dropped
  BY <1>1, <1>2, <1>3 DEF TallyInv
<1>5. read' = Len(parsed') + Dropped'
  BY <1>1, <1>2, <1>4
<1> QED
  BY <1>1, <1>2, <1>3, <1>4, <1>5 DEF TallyInv

LEMMA TallyStep == TallyInv /\ [Next]_vars => TallyInv'
<1> SUFFICES ASSUME TallyInv, [Next]_vars
             PROVE  TallyInv'
  OBVIOUS
<1>1. CASE StartCycle \/ FetchPage \/ EndOfStream \/ CorrelateAll
  <2>1. UNCHANGED <<read, dropped, parsed, capped>>
        /\ (pc \in {"correlate", "publish"} => pc' = "publish")
    BY <1>1 DEF StartCycle, FetchPage, EndOfStream, CorrelateAll, tally, Idle
  <2> QED
    BY <2>1 DEF TallyInv, Dropped
<1>2. CASE StopAtCap
  <2>1. /\ pc = "stream" /\ read' = read + 1 /\ capped' = TRUE /\ pc' = "correlate"
        /\ UNCHANGED <<parsed, dropped>>
    BY <1>2 DEF StopAtCap
  <2>2. Dropped' = Dropped /\ Dropped \in Nat /\ Len(parsed) \in Nat /\ capped = FALSE
    BY <2>1 DEF TallyInv, Dropped, Reasons
  <2>3. read = Len(parsed) + Dropped
    BY <2>2 DEF TallyInv
  <2> QED
    BY <2>1, <2>2, <2>3 DEF TallyInv
<1>3. ASSUME NEW d \in Documents, Taken, pc = "stream",
             (\E r \in Reasons : Drop(r)) \/ Keep(d)
      PROVE  TallyInv'
  <2>1. read' = read + 1 /\ capped' = capped /\ pc' = pc
    BY <1>3 DEF Taken
  <2> QED
    BY <1>3, <2>1, DropCounts, KeepCounts
<1>4. CASE Unparsed \/ RejectSource \/ OwnSource
  BY <1>3, <1>4 DEF Unparsed, RejectSource, BadSource, OwnSource, Next_, Reasons
<1>5. CASE ScreenKnown \/ ScreenByName
  BY <1>3, <1>5 DEF ScreenKnown, ScreenByName, Screened, Next_, Verdict, Reasons
<1>6. CASE Complete \/ Fail \/ FetchFails
  BY <1>6, TallyEnds DEF Complete, Fail, FetchFails
<1>7. CASE Tick \/ (\E d \in Documents : Arrive(d)) \/ (\E a \in Addresses : Forget(a))
           \/ UNCHANGED vars
  <2>1. UNCHANGED <<read, dropped, parsed, capped, pc>>
    BY <1>7 DEF Tick, Arrive, Forget, tally, vars
  <2> QED
    BY <2>1 DEF TallyInv, Dropped
<1> QED
  BY <1>1, <1>2, <1>4, <1>5, <1>6, <1>7 DEF Next, CycleStep

(* What the operator reads at the end of a cycle adds up: events read are     *)
(* events parsed plus those each gate dropped, plus the one that tripped the  *)
(* cap, in every cycle, complete or cut short (the loop of _run_cycle_locked).*)
THEOREM EveryReadIsCounted == Spec => []ReadAccounted
<1>1. TallyInv => ReadAccounted
  BY DEF TallyInv, ReadAccounted
<1> QED
  BY <1>1, TallyInit, TallyStep, PTL DEF Spec
--------------------------------------------------------------------------------
(* Events stand in a strict order, of their timestamps first. *)
Events == {Event(d) : d \in Documents}

LEMMA EventTyped ==
  ASSUME NEW e \in Events
  PROVE  /\ e.at \in Nat /\ IsFiniteSet(e.facts) /\ \A f \in e.facts : f.value \in Nat
<1>1. PICK d \in Documents : e = Event(d)
  BY DEF Events
<1>2. e.at = d.at /\ e.facts \subseteq d.facts
  BY <1>1 DEF Event
<1> QED
  BY <1>2, IntakeAssumption, FS_Subset

LEMMA EventsOrdered ==
  /\ \A e \in Events : ~Precedes(e, e)
  /\ \A e, f \in Events : e = f \/ Precedes(e, f) \/ Precedes(f, e)
  /\ \A e, f, g \in Events : Precedes(e, f) /\ Precedes(f, g) => Precedes(e, g)
  /\ \A e, f \in Events :
       (e.at < f.at => Precedes(e, f)) /\ (Precedes(e, f) => e.at <= f.at)
<1>1. \A e \in Events : e.at \in Nat /\ \E d \in Documents : e = Event(d) /\ e.place = Key(d)
  BY EventTyped DEF Events, Event
<1>2. \A e, f \in Events :
        Before(e.place, f.place) \/ Before(f.place, e.place) \/ e = f
  BY <1>1, KeysOrdered
<1>3. \A e \in Events : ~Before(e.place, e.place)
  BY <1>1, KeysOrdered
<1>4. \A e, f, g \in Events :
        Before(e.place, f.place) /\ Before(f.place, g.place) => Before(e.place, g.place)
  BY <1>1, KeysOrdered
<1>5. \A e, f \in Events : e = f \/ Precedes(e, f) \/ Precedes(f, e)
  BY <1>1, <1>2 DEF Precedes
<1>6. \A e, f, g \in Events : Precedes(e, f) /\ Precedes(f, g) => Precedes(e, g)
  BY <1>1, <1>4 DEF Precedes
<1>7. \A e, f \in Events :
       (e.at < f.at => Precedes(e, f)) /\ (Precedes(e, f) => e.at <= f.at)
  BY <1>1 DEF Precedes
<1>8. \A e \in Events : ~Precedes(e, e)
  BY <1>1, <1>3 DEF Precedes
<1> QED
  BY <1>5, <1>6, <1>7, <1>8

(* Events that are finitely many have an earliest and a latest one. *)
LEMMA EarliestFirst ==
  ASSUME NEW S \in SUBSET Events, IsFiniteSet(S), S # {}
  PROVE  Earliest(S) \in S /\ \A f \in S : ~Precedes(f, Earliest(S))
<1> DEFINE Ahead(e) == {f \in S : Precedes(f, e)}
           Aheads == {Ahead(e) : e \in S}
<1>1. Aheads \subseteq FiniteSubsetsOf(S) /\ Aheads # {}
  <2>1. FiniteSubsetsOf(S) = SUBSET S
    BY FS_FiniteSubsetsOfFinite
  <2>2. Aheads \subseteq SUBSET S
    OBVIOUS
  <2>3. Aheads # {}
    OBVIOUS
  <2> QED
    BY <2>1, <2>2, <2>3
<1>2. PICK A \in Aheads : \A B \in Aheads : ~(<<B, A>> \in StrictSubsetOrdering(S))
  <2> HIDE DEF Aheads
  <2> QED
    BY <1>1, WFMin, FS_StrictSubsetOrderingWellFounded
<1>3. PICK e \in S : A = Ahead(e)
  OBVIOUS
<1>4. ASSUME NEW f \in S, Precedes(f, e) PROVE FALSE
  <2>1. Ahead(f) \in Aheads
    OBVIOUS
  <2>2. \A g \in S : Precedes(g, f) => Precedes(g, e)
    BY <1>4, EventsOrdered
  <2>3. Ahead(f) \subseteq Ahead(e) /\ f \in Ahead(e) /\ f \notin Ahead(f)
    BY <1>4, <2>2, EventsOrdered
  <2>4. <<Ahead(f), A>> \in StrictSubsetOrdering(S)
    BY <1>3, <2>3 DEF StrictSubsetOrdering
  <2> QED
    BY <1>2, <2>1, <2>4
<1>5. \E m \in S : \A f \in S : ~Precedes(f, m)
  BY <1>4
<1> QED
  BY <1>5, Zenon DEF Earliest

LEMMA LatestLast ==
  ASSUME NEW S \in SUBSET Events, IsFiniteSet(S), S # {}
  PROVE  Latest(S) \in S /\ \A f \in S : ~Precedes(Latest(S), f)
<1> DEFINE Behind(e) == {f \in S : Precedes(e, f)}
           Behinds == {Behind(e) : e \in S}
<1>1. Behinds \subseteq FiniteSubsetsOf(S) /\ Behinds # {}
  <2>1. FiniteSubsetsOf(S) = SUBSET S
    BY FS_FiniteSubsetsOfFinite
  <2>2. Behinds \subseteq SUBSET S
    OBVIOUS
  <2>3. Behinds # {}
    OBVIOUS
  <2> QED
    BY <2>1, <2>2, <2>3
<1>2. PICK A \in Behinds : \A B \in Behinds : ~(<<B, A>> \in StrictSubsetOrdering(S))
  <2> HIDE DEF Behinds
  <2> QED
    BY <1>1, WFMin, FS_StrictSubsetOrderingWellFounded
<1>3. PICK e \in S : A = Behind(e)
  OBVIOUS
<1>4. ASSUME NEW f \in S, Precedes(e, f) PROVE FALSE
  <2>1. Behind(f) \in Behinds
    OBVIOUS
  <2>2. \A g \in S : Precedes(f, g) => Precedes(e, g)
    BY <1>4, EventsOrdered
  <2>3. Behind(f) \subseteq Behind(e) /\ f \in Behind(e) /\ f \notin Behind(f)
    BY <1>4, <2>2, EventsOrdered
  <2>4. <<Behind(f), A>> \in StrictSubsetOrdering(S)
    BY <1>3, <2>3 DEF StrictSubsetOrdering
  <2> QED
    BY <1>2, <2>1, <2>4
<1>5. \E m \in S : \A f \in S : ~Precedes(m, f)
  BY <1>4
<1> QED
  BY <1>5, Zenon DEF Latest

(* Groups that divide a batch: none is empty, each is one actor's, and every  *)
(* event of the batch is in exactly one.                                      *)
Divide(groups, batch) ==
  /\ \A g \in groups : g \subseteq batch /\ g # {} /\ \A e, f \in g : Actor(e) = Actor(f)
  /\ \A e \in batch : \E g \in groups : e \in g
  /\ \A g, h \in groups : \A e \in g \cap h : g = h

LEMMA OnePerEventDivides ==
  ASSUME NEW batch
  PROVE  Divide(OnePerEvent(batch), batch)
  BY DEF Divide, OnePerEvent

LEMMA SessionIdDivides ==
  ASSUME NEW batch
  PROVE  Divide(BySessionId(batch), batch)
<1> DEFINE named == {e \in batch : HasId(e)}
           Same(e) == {f \in named : f.sid = e.sid /\ Actor(f) = Actor(e)}
           G == BySessionId(batch)
<1>1. \A g : g \in G <=> (\E e \in named : g = Same(e)) \/ (\E e \in batch \ named : g = {e})
  BY DEF BySessionId, OnePerEvent
<1>2. \A e \in named : e \in Same(e) /\ Same(e) \subseteq named
  OBVIOUS
<1>3. \A e \in named : \A f \in Same(e) : Actor(f) = Actor(e) /\ f.sid = e.sid
  OBVIOUS
<1>4. \A e, f \in named : f.sid = e.sid /\ Actor(f) = Actor(e) => Same(e) = Same(f)
  OBVIOUS
<1>5. named \subseteq batch
  OBVIOUS
<1> HIDE DEF G, Same, named
<1>6. \A g \in G : g \subseteq batch /\ g # {} /\ \A e, f \in g : Actor(e) = Actor(f)
  BY <1>1, <1>2, <1>3, <1>5
<1>7. \A e \in batch : \E g \in G : e \in g
  BY <1>1, <1>2
<1>8. ASSUME NEW g \in G, NEW h \in G, NEW e \in g \cap h PROVE g = h
  <2>1. CASE e \in named
    <3>1. \A k \in G : e \in k => k = Same(e)
      BY <1>1, <1>3, <1>4, <1>2, <2>1
    <3> QED
      BY <3>1
  <2>2. CASE e \notin named
    <3>1. \A k \in G : e \in k => k = {e}
      BY <1>1, <1>2, <2>2
    <3> QED
      BY <3>1
  <2> QED
    BY <2>1, <2>2
<1>9. Divide(G, batch)
  BY <1>6, <1>7, <1>8 DEF Divide
<1> QED
  BY <1>9 DEF G

(* The events of one actor up to an event, and the one that opened its burst. *)
LEMMA BurstOfEvent ==
  ASSUME NEW batch \in SUBSET Events, IsFiniteSet(batch), NEW e \in batch
  PROVE  \E o \in batch : Opens(o, batch) /\ e \in Burst(o, batch)
<1> DEFINE Openers == {o \in batch : Actor(o) = Actor(e) /\ Opens(o, batch) /\ ~Precedes(e, o)}
           Mine == {f \in batch : Actor(f) = Actor(e)}
<1>1. Earliest(Mine) \in Openers
  <2>1. Mine \subseteq Events /\ IsFiniteSet(Mine) /\ e \in Mine
    BY FS_Subset
  <2>2. Earliest(Mine) \in Mine /\ \A f \in Mine : ~Precedes(f, Earliest(Mine))
    BY <2>1, EarliestFirst
  <2>3. Opens(Earliest(Mine), batch)
    BY <2>2 DEF Opens
  <2> QED
    BY <2>1, <2>2, <2>3
<1>2. Openers \subseteq Events /\ IsFiniteSet(Openers) /\ Openers # {}
  BY <1>1, FS_Subset
<1>3. /\ Latest(Openers) \in Openers
      /\ \A o \in Openers : ~Precedes(Latest(Openers), o)
  BY <1>2, LatestLast
<1>4. PICK o \in Openers : \A n \in Openers : ~Precedes(o, n)
  BY <1>3
<1>5. \A n \in batch : Actor(n) = Actor(o) /\ Opens(n, batch) /\ Precedes(o, n) => Precedes(e, n)
  BY <1>4
<1>6. e \in Burst(o, batch)
  BY <1>4, <1>5 DEF Burst
<1> QED
  BY <1>4, <1>6

LEMMA WindowDivides ==
  ASSUME NEW batch \in SUBSET Events, IsFiniteSet(batch)
  PROVE  Divide(ByWindow(batch), batch)
<1>1. \A g : g \in ByWindow(batch) <=> \E o \in batch : Opens(o, batch) /\ g = Burst(o, batch)
  BY DEF ByWindow
<1>2. \A o \in batch : \A e \in Burst(o, batch) :
        e \in batch /\ Actor(e) = Actor(o) /\ ~Precedes(e, o)
  BY DEF Burst
<1>3. \A o \in batch : \A e \in Burst(o, batch) : \A n \in batch :
        Actor(n) = Actor(o) /\ Opens(n, batch) /\ Precedes(o, n) => Precedes(e, n)
  BY DEF Burst
<1>4. \A o \in batch : o \in Burst(o, batch)
  BY EventsOrdered DEF Burst
<1>5. ASSUME NEW o \in batch, NEW n \in batch, Opens(o, batch), Opens(n, batch),
             NEW e \in Burst(o, batch) \cap Burst(n, batch)
      PROVE  o = n
  <2>1. e \in batch /\ Actor(o) = Actor(n) /\ ~Precedes(e, o) /\ ~Precedes(e, n)
    BY <1>2
  <2>2. ~Precedes(o, n) /\ ~Precedes(n, o)
    BY <2>1, <1>3, <1>5
  <2> QED
    BY <2>2, EventsOrdered
<1>6. \A e \in batch : \E g \in ByWindow(batch) : e \in g
  BY <1>1, BurstOfEvent
<1>7. \A g \in ByWindow(batch) :
        g \subseteq batch /\ g # {} /\ \A e, f \in g : Actor(e) = Actor(f)
  BY <1>1, <1>2, <1>4
<1>8. \A g, h \in ByWindow(batch) : \A e \in g \cap h : g = h
  BY <1>1, <1>5
<1> QED
  BY <1>6, <1>7, <1>8 DEF Divide

(* Every parser groups in one of five ways. *)
LEMMA FiveWays == \A t : Parser(t).groups \in {"one", "id", "window", "any", "all"}
<1>1. \A t \in DOMAIN Registry : Registry[t].groups \in {"one", "id", "window", "any", "all"}
  BY DEF Registry, Reader, Single, Adbhoney, Ciscoasa, Dicompot, Dionaea, ElasticPot, Galah,
         H0neytr4p, Honeyaml, Ipphoney, Medpot, Miniprint, Nginx, Redis, Sentrypeer, Suricata,
         Tanner, Wordpot, Cowrie, Conpot, Heralding, RDPHoneypot, Beelzebub, Fatt, Honeytrap,
         Mailoney, Router
<1>2. Fallback.groups = "one"
  BY DEF Fallback, Single, Reader
<1> QED
  BY <1>1, <1>2 DEF Parser

LEMMA GroupsDivide ==
  ASSUME NEW batch \in SUBSET Events, IsFiniteSet(batch), NEW t
  PROVE  Divide(Groups(Parser(t), batch), batch)
<1>1. Groups(Parser(t), batch) \in {OnePerEvent(batch), BySessionId(batch), ByWindow(batch)}
  BY FiveWays DEF Groups, MailoneyCorrelate, RouterCorrelate
<1> QED
  BY <1>1, OnePerEventDivides, SessionIdDivides, WindowDivides

(* Two events share a session by id just when they share id and actor.        *)
Together(groups, e, f) == \E g \in groups : {e, f} \subseteq g

LEMMA IdTogether ==
  ASSUME NEW batch, NEW e \in batch, NEW f \in batch, e # f
  PROVE  Together(BySessionId(batch), e, f) <=>
           HasId(e) /\ e.sid = f.sid /\ Actor(e) = Actor(f)
<1> DEFINE named == {x \in batch : HasId(x)}
           Same(x) == {y \in named : y.sid = x.sid /\ Actor(y) = Actor(x)}
           G == BySessionId(batch)
<1>1. \A g : g \in G <=> (\E x \in named : g = Same(x)) \/ (\E x \in batch \ named : g = {x})
  BY DEF BySessionId, OnePerEvent
<1>2. ASSUME NEW g \in G, e \in g, f \in g
      PROVE  HasId(e) /\ e.sid = f.sid /\ Actor(e) = Actor(f)
  <2>1. PICK x \in named : g = Same(x)
    BY <1>1, <1>2
  <2> QED
    BY <1>2, <2>1
<1>3. ASSUME HasId(e), e.sid = f.sid, Actor(e) = Actor(f)
      PROVE  Same(e) \in G /\ {e, f} \subseteq Same(e)
  <2>1. e \in named /\ f \in named
    BY <1>3 DEF HasId
  <2> QED
    BY <1>1, <1>3, <2>1
<1> HIDE DEF Same
<1>4. Together(G, e, f) <=> HasId(e) /\ e.sid = f.sid /\ Actor(e) = Actor(f)
  <2> HIDE DEF G
  <2> QED
    BY <1>2, <1>3 DEF Together
<1> QED
  BY <1>4

(* Industrial events are ConPot's and Heralding's, and grouped by id.         *)
LEMMA IndustrialById ==
  ASSUME NEW e \in Events, Industrial(e)
  PROVE  Parser(e.type).groups = "id"
<1> DEFINE Fits(p) == "ics" \in p.reads => p.groups = "id"
<1>6. /\ Fits(Adbhoney) /\ Fits(Ciscoasa) /\ Fits(Dicompot) /\ Fits(Dionaea) /\ Fits(ElasticPot)
      /\ Fits(Galah) /\ Fits(H0neytr4p) /\ Fits(Honeyaml) /\ Fits(Ipphoney) /\ Fits(Medpot)
  BY DEF Reader, Single, Adbhoney, Ciscoasa, Dicompot, Dionaea, ElasticPot, Galah, H0neytr4p,
         Honeyaml, Ipphoney, Medpot
<1>7. /\ Fits(Miniprint) /\ Fits(Nginx) /\ Fits(Redis) /\ Fits(Sentrypeer) /\ Fits(Suricata)
      /\ Fits(Tanner) /\ Fits(Wordpot)
  BY DEF Reader, Single, Miniprint, Nginx, Redis, Sentrypeer, Suricata, Tanner, Wordpot
<1>8. Fits(Cowrie) /\ Fits(Beelzebub) /\ Fits(Fatt) /\ Fits(Honeytrap)
  BY DEF Reader, Cowrie, Beelzebub, Fatt, Honeytrap
<1>9. Fits(RDPHoneypot) /\ Fits(Mailoney) /\ Fits(Router)
  BY DEF Reader, RDPHoneypot, Mailoney, Router
<1>10. Fits(Conpot) /\ Fits(Heralding) /\ Conpot.groups = "id"
  BY DEF Reader, Conpot, Heralding
<1> HIDE DEF Fits
<1>11. \A t \in DOMAIN Registry : Fits(Registry[t])
  BY <1>6, <1>7, <1>8, <1>9, <1>10 DEF Registry
<1>1. /\ \A t \in DOMAIN Registry : "ics" \in Registry[t].reads => Registry[t].groups = "id"
      /\ "ConPot" \in DOMAIN Registry /\ Registry["ConPot"].groups = "id"
  <2>1. "ConPot" \in DOMAIN Registry /\ Registry["ConPot"] = Conpot
    BY DEF Registry
  <2> QED
    BY <1>10, <1>11, <2>1 DEF Fits
<1>2. "ics" \notin Fallback.reads
  BY DEF Fallback, Single, Reader
<1>3. PICK d \in Documents : e = Event(d)
  BY DEF Events
<1>4. e.type = TypeOf(d) /\ \A f \in e.facts : f.kind \in Parser(TypeOf(d)).reads
  BY <1>3 DEF Event
<1>5. e.type = "ConPot" \/ "ics" \in Parser(e.type).reads
  BY <1>4 DEF Industrial
<1> QED
  BY <1>1, <1>2, <1>5 DEF Parser
--------------------------------------------------------------------------------
(* What a session says. *)
LEMMA LongestExists ==
  ASSUME NEW S, IsFiniteSet(S), S # {}, \A f \in S : f.value \in Nat
  PROVE  \E f \in S : \A g \in S : f.value >= g.value
<1> DEFINE Longer(f) == {g \in S : g.value > f.value}
           All == {Longer(f) : f \in S}
<1>1. All \subseteq FiniteSubsetsOf(S) /\ All # {}
  <2>1. FiniteSubsetsOf(S) = SUBSET S
    BY FS_FiniteSubsetsOfFinite
  <2>2. All \subseteq SUBSET S
    OBVIOUS
  <2>3. All # {}
    OBVIOUS
  <2> QED
    BY <2>1, <2>2, <2>3
<1>2. PICK A \in All : \A B \in All : ~(<<B, A>> \in StrictSubsetOrdering(S))
  <2> HIDE DEF All
  <2> QED
    BY <1>1, WFMin, FS_StrictSubsetOrderingWellFounded
<1>3. PICK f \in S : A = Longer(f)
  OBVIOUS
<1>4. ASSUME NEW g \in S, g.value > f.value PROVE FALSE
  <2>1. Longer(g) \in All
    OBVIOUS
  <2>2. \A h \in S : h.value > g.value => h.value > f.value
    BY <1>4
  <2>3. Longer(g) \subseteq Longer(f) /\ g \in Longer(f) /\ g \notin Longer(g)
    BY <1>4, <2>2
  <2>4. <<Longer(g), A>> \in StrictSubsetOrdering(S)
    BY <1>3, <2>3 DEF StrictSubsetOrdering
  <2> QED
    BY <1>2, <2>1, <2>4
<1>5. \A g \in S : f.value >= g.value
  BY <1>4
<1> QED
  BY <1>5

LEMMA HeldSays ==
  ASSUME NEW p, NEW group \in SUBSET Events, IsFiniteSet(group),
         NEW kind, \E e \in group : \E f \in e.facts : f.kind = kind
  PROVE  \E g \in Held(p, kind, group) :
           g.kind = kind /\ \E h \in group : g \in h.facts
<1>0. PICK e \in group : \E f \in e.facts : f.kind = kind
  OBVIOUS
<1> DEFINE of(x) == {g \in x.facts : g.kind = kind}
           having == {x \in group : of(x) # {}}
           all == UNION {of(x) : x \in group}
           longest == CHOOSE g \in all : \A h \in all : g.value >= h.value
           Says(g) == g.kind = kind /\ \E h \in group : g \in h.facts
<1>1. Held(p, kind, group) =
        CASE having = {} -> {}
          [] having # {} /\ p.slots[kind] = "first" -> of(Earliest(having))
          [] having # {} /\ p.slots[kind] = "last"  -> of(Latest(having))
          [] OTHER -> {longest}
  BY DEF Held
<1>2. e \in having /\ having \subseteq Events /\ IsFiniteSet(having)
  BY <1>0, FS_Subset
<1>3. Earliest(having) \in having /\ Latest(having) \in having
  BY <1>2, EarliestFirst, LatestLast
<1>4. \A x \in having : \E g \in of(x) : Says(g)
  OBVIOUS
<1>5. longest \in all
  <2>1. IsFiniteSet(all)
    <3>1. \A x \in group : IsFiniteSet(of(x))
      BY EventTyped, FS_Subset
    <3> DEFINE T == {of(x) : x \in group}
               pick == [x \in group |-> of(x)]
    <3>2. pick \in Surjection(group, T)
      <4> HIDE DEF of
      <4> QED
        BY DEF Surjection
    <3>3. IsFiniteSet(T)
      <4> HIDE DEF T, pick
      <4> QED
        BY <3>2, FS_Surjection
    <3>4. \A X \in T : IsFiniteSet(X)
      BY <3>1
    <3>5. IsFiniteSet(UNION T)
      <4> HIDE DEF T
      <4> QED
        BY <3>3, <3>4, FS_UNION
    <3> QED
      BY <3>5
  <2>2. all # {} /\ \A g \in all : g.value \in Nat
    BY <1>0, EventTyped
  <2>3. \E g \in all : \A h \in all : g.value >= h.value
    <3> HIDE DEF all
    <3> QED
      BY <2>1, <2>2, LongestExists
  <2> QED
    BY <2>3
<1>6. \A g \in all : Says(g)
  OBVIOUS
<1> HIDE DEF of, having, all, longest, Says
<1>7. \/ Held(p, kind, group) \in {of(Earliest(having)), of(Latest(having))}
      \/ Held(p, kind, group) = {longest}
  BY <1>1, <1>2
<1>8. \E g \in Held(p, kind, group) : Says(g)
  BY <1>3, <1>4, <1>5, <1>6, <1>7
<1> QED
  BY <1>8 DEF Says

(* What a session leaves unsaid of its events: all, when no aggregator was    *)
(* asked, and what the industrial one does not look at.                       *)
Unsaid(p, batch, group, f) ==
  \/ Bare(p, batch, group)
  \/ (\E x \in group : Industrial(x)) /\ f.kind \notin {"request", "ics"}

(* A session says the rest, or holds another of a kind it keeps one of.       *)
LEMMA SessionSays ==
  ASSUME NEW p, NEW batch, NEW group \in SUBSET Events, IsFiniteSet(group),
         \A x, y \in group : Actor(x) = Actor(y),
         NEW e \in group, NEW f \in e.facts, ~Unsaid(p, batch, group, f)
  PROVE  /\ Session(p, batch, group).src = e.src
         /\ \E g \in Session(p, batch, group).facts :
              \/ g = f
              \/ /\ f.kind \in DOMAIN p.slots /\ g.kind = f.kind
                 /\ \E h \in group : g \in h.facts
<1>1. Earliest(group) \in group
  BY EarliestFirst
<1>2. Session(p, batch, group).src = Earliest(group).src
      /\ Session(p, batch, group).facts = Aggregate(p, group)
  BY DEF Session, Unsaid
<1>3. Earliest(group).src = e.src
  BY <1>1 DEF Actor
<1> DEFINE industrial == \E x \in group : Industrial(x)
<1>7. CASE industrial
  <2>1. f \in Aggregate(p, group)
    BY <1>7 DEF Aggregate, Unsaid
  <2> QED
    BY <1>2, <1>3, <2>1
<1>8. ASSUME ~industrial
      PROVE  Aggregate(p, group) =
               (UNION {{g \in x.facts : g.kind \notin DOMAIN p.slots} : x \in group})
                 \cup (UNION {Held(p, k, group) : k \in DOMAIN p.slots})
  BY <1>8, Zenon DEF Aggregate
<1> HIDE DEF industrial
<1>4. ~industrial =>
        \A k \in DOMAIN p.slots : \A g \in Held(p, k, group) : g \in Aggregate(p, group)
  BY <1>8, Zenon
<1>5. CASE ~industrial /\ f.kind \in DOMAIN p.slots
  <2> DEFINE kind == f.kind
  <2>1. PICK g \in Held(p, kind, group) : g.kind = kind /\ \E h \in group : g \in h.facts
    <3>1. \E x \in group : \E y \in x.facts : y.kind = kind
      OBVIOUS
    <3> HIDE DEF kind
    <3> QED
      BY <3>1, HeldSays
  <2>2. g \in Aggregate(p, group)
    BY <1>4, <1>5
  <2> QED
    BY <1>2, <1>3, <1>5, <2>1, <2>2
<1>6. CASE ~industrial /\ f.kind \notin DOMAIN p.slots
  <2>1. f \in UNION {{g \in x.facts : g.kind \notin DOMAIN p.slots} : x \in group}
    BY <1>6
  <2>2. f \in Aggregate(p, group)
    BY <1>6, <1>8, <2>1
  <2> QED
    BY <1>2, <1>3, <2>2
<1> QED
  BY <1>5, <1>6, <1>7
--------------------------------------------------------------------------------
(* From the gates to the sessions: what has been taken and is genuine has been*)
(* parsed, what has been parsed has been taken, no cached name lies, and the  *)
(* sessions say what the parsed events say, but for those skipped.            *)
Stands(g, f, t) ==
  \/ g = f
  \/ /\ g.kind = f.kind /\ f.kind \in DOMAIN Parser(t).slots
     /\ \E c \in Documents : g \in Event(c).facts

NamesTrue    == \A a \in DOMAIN names : names[a] => a \in ByName
ParsedTaken  == taken \subseteq Documents /\ Range(parsed) \subseteq {Event(d) : d \in taken}
GenuineKept  == \A d \in taken : Genuine(d) => Event(d) \in Range(parsed)
Skipped(e, f) ==
  \/ /\ ~HasId(e) /\ ~Industrial(e)
     /\ \/ Parser(e.type).groups = "id"
        \/ Parser(e.type).groups = "any" /\ \E h \in OfType(e.type) : HasId(h)
  \/ /\ f.kind \notin {"request", "ics"}
     /\ \E x \in OfType(e.type) :
          Industrial(x) /\ (x = e \/ (HasId(e) /\ x.sid = e.sid /\ Actor(x) = Actor(e)))
SessionsTell ==
  pc = "publish" =>
    \A e \in Range(parsed) \ broken : \A f \in e.facts :
      \/ Skipped(e, f)
      \/ \E s \in sessions : s.src = e.src /\ \E g \in s.facts : Stands(g, f, e.type)
Carried ==
  \A d \in done \ lost : Genuine(d) => \A f \in Event(d).facts :
    \/ PassedOver(d, f)
    \/ \E g : <<Source(d), g>> \in published /\ Stands(g, f, TypeOf(d))

CarriedInv ==
  /\ parsed \in Seq(Events) /\ done \subseteq Documents
  /\ NamesTrue /\ ParsedTaken /\ GenuineKept /\ SessionsTell /\ Carried

LEMMA CarriedInit == Init => CarriedInv
<1> SUFFICES ASSUME Init PROVE CarriedInv
  OBVIOUS
<1>1. /\ names = [a \in {} |-> FALSE] /\ parsed = <<>> /\ taken = {} /\ done = {}
      /\ pc = "idle"
  BY DEF Init
<1>2. NamesTrue
  BY <1>1 DEF NamesTrue
<1>3. Range(parsed) = {} /\ parsed \in Seq(Events)
  BY <1>1 DEF Range
<1> QED
  BY <1>1, <1>2, <1>3 DEF CarriedInv, ParsedTaken, GenuineKept, SessionsTell, Carried

(* What is passed over stays so while documents arrive. *)
LEMMA PassedStays ==
  ASSUME index \subseteq index', NEW d, NEW f, PassedOver(d, f)
  PROVE  PassedOver(d, f)'
<1>1. Nearby(d) \subseteq Nearby(d)'
  BY DEF Nearby
<1>2. Nameless(d) => Nameless(d)'
  BY <1>1 DEF Nameless
<1> QED
  BY <1>2 DEF PassedOver, Emulated

(* What a cycle skips, the documents it read account for. *)
LEMMA SkippedPassed ==
  ASSUME IntakeType, WindowInv, ParsedTaken, NEW d \in taken, NEW f, Skipped(Event(d), f)
  PROVE  PassedOver(d, f)
<1>1. Event(d).sid = SessionId(d) /\ Event(d).type = TypeOf(d)
  BY DEF Event
<1>2. ASSUME NEW h \in OfType(TypeOf(d))
      PROVE  \E c \in taken : h = Event(c) /\ TypeOf(c) = TypeOf(d) /\ h.sid = SessionId(c)
  <2>1. h \in Range(parsed) /\ h.type = TypeOf(d)
    BY <1>2 DEF OfType
  <2>2. PICK c \in taken : h = Event(c)
    BY <2>1 DEF ParsedTaken
  <2>3. h.type = TypeOf(c) /\ h.sid = SessionId(c)
    BY <2>2 DEF Event
  <2> QED
    BY <2>1, <2>2, <2>3
<1>3. ASSUME NEW c \in taken, TypeOf(c) = TypeOf(d) PROVE c \in Nearby(d)
  <2>1. /\ c.ts \in Nat /\ d.ts \in Nat /\ from \in Nat /\ MaxWindow \in Nat
    BY IntakeAssumption DEF ParsedTaken, IntakeType
  <2>2. /\ c \in index /\ from <= c.ts /\ c.ts < from + MaxWindow
        /\ from <= d.ts /\ d.ts < from + MaxWindow
    BY DEF WindowInv
  <2> QED
    BY <1>3, <2>1, <2>2 DEF Nearby
<1>4. CASE /\ ~HasId(Event(d)) /\ ~Industrial(Event(d))
           /\ \/ Parser(TypeOf(d)).groups = "id"
              \/ Parser(TypeOf(d)).groups = "any" /\ \E h \in OfType(TypeOf(d)) : HasId(h)
  <2>1. SessionId(d) = NoId
    BY <1>1, <1>4 DEF HasId
  <2>2. (\E h \in OfType(TypeOf(d)) : HasId(h)) => \E c \in Nearby(d) : SessionId(c) # NoId
    BY <1>2, <1>3 DEF HasId
  <2>3. Nameless(d)
    BY <1>4, <2>1, <2>2 DEF Nameless
  <2> QED
    BY <2>3 DEF PassedOver
<1>5. CASE /\ f.kind \notin {"request", "ics"}
           /\ \E x \in OfType(TypeOf(d)) :
                /\ Industrial(x)
                /\ \/ x = Event(d)
                   \/ HasId(Event(d)) /\ x.sid = Event(d).sid /\ Actor(x) = Actor(Event(d))
  <2>1. PICK x \in OfType(TypeOf(d)) :
          /\ Industrial(x)
          /\ \/ x = Event(d)
             \/ HasId(Event(d)) /\ x.sid = Event(d).sid /\ Actor(x) = Actor(Event(d))
    BY <1>5
  <2>2. PICK c \in taken : x = Event(c) /\ TypeOf(c) = TypeOf(d) /\ x.sid = SessionId(c)
    BY <1>2
  <2>3. c \in Documents /\ d \in Documents
    BY DEF ParsedTaken
  <2>4. Emulated(d)
    BY <1>1, <2>1, <2>2, <2>3 DEF Emulated, HasId
  <2> QED
    BY <1>5, <2>4 DEF PassedOver
<1> QED
  BY <1>1, <1>4, <1>5 DEF Skipped

(* A gate takes a document; the genuine ones pass it. *)
LEMMA CarriedGate ==
  ASSUME CarriedInv, NEW d \in Documents, d = Head(page), Taken, pc = "stream",
         Keep(d) \/ (~Genuine(d) /\ \E r \in Reasons : Drop(r)),
         NamesTrue'
  PROVE  CarriedInv'
<1>1. /\ taken' = taken \cup {d} /\ done' = done /\ lost' = lost /\ published' = published
      /\ pc' = "stream" /\ index' = index
  BY DEF Taken, history
<1>5. \A c, f : PassedOver(c, f) => PassedOver(c, f)'
  BY <1>1, PassedStays
<1>2. Event(d) \in Events
  BY DEF Events
<1>3. CASE Keep(d)
  <2>1. parsed' = Append(parsed, Event(d)) /\ parsed \in Seq(Events)
    BY <1>3 DEF Keep, CarriedInv
  <2>2. /\ parsed' \in Seq(Events) /\ Len(parsed') = Len(parsed) + 1 /\ Len(parsed) \in Nat
        /\ DOMAIN parsed' = 1..Len(parsed) + 1 /\ DOMAIN parsed = 1..Len(parsed)
        /\ parsed'[Len(parsed) + 1] = Event(d)
        /\ \A i \in 1..Len(parsed) : parsed'[i] = parsed[i]
    BY <2>1, <1>2
  <2>3. Range(parsed') = Range(parsed) \cup {Event(d)}
    BY <2>2 DEF Range
  <2> QED
    BY <1>1, <1>5, <2>2, <2>3 DEF CarriedInv, ParsedTaken, GenuineKept, SessionsTell, Carried
<1>4. CASE ~Genuine(d) /\ \E r \in Reasons : Drop(r)
  <2>1. parsed' = parsed
    BY <1>4 DEF Drop
  <2> QED
    BY <1>1, <1>4, <1>5, <2>1 DEF CarriedInv, ParsedTaken, GenuineKept, SessionsTell, Carried
<1> QED
  BY <1>3, <1>4

(* What is parsed in a cycle is finitely many events. *)
LEMMA ParsedFinite ==
  ASSUME parsed \in Seq(Events)
  PROVE  Range(parsed) \subseteq Events /\ IsFiniteSet(Range(parsed))
<1>1. Len(parsed) \in Nat /\ DOMAIN parsed = 1..Len(parsed)
  OBVIOUS
<1>2. parsed \in Surjection(1..Len(parsed), Range(parsed))
  BY <1>1 DEF Surjection, Range
<1>3. IsFiniteSet(1..Len(parsed))
  BY <1>1, FS_Interval
<1> QED
  BY <1>1, <1>2, <1>3, FS_Surjection DEF Range

(* A group leaves unsaid what is skipped. *)
LEMMA UnsaidSkipped ==
  ASSUME parsed \in Seq(Events), NEW e \in Range(parsed), NEW f,
         NEW k \in Groups(Parser(e.type), OfType(e.type)), e \in k, k \subseteq OfType(e.type),
         Unsaid(Parser(e.type), OfType(e.type), k, f)
  PROVE  Skipped(e, f)
<1>1. CASE Bare(Parser(e.type), OfType(e.type), k)
  BY <1>1 DEF Bare, Skipped
<1>2. CASE (\E x \in k : Industrial(x)) /\ f.kind \notin {"request", "ics"}
  <2>1. PICK x \in k : Industrial(x)
    BY <1>2
  <2>2. x \in OfType(e.type) /\ e \in OfType(e.type) /\ x \in Events /\ x.type = e.type
    BY <2>1, ParsedFinite DEF OfType
  <2>3. Groups(Parser(e.type), OfType(e.type)) = BySessionId(OfType(e.type))
    <3>1. Parser(x.type).groups = "id"
      BY <2>1, <2>2, IndustrialById
    <3> QED
      BY <2>2, <3>1 DEF Groups
  <2>4. CASE x = e
    BY <1>2, <2>1, <2>2, <2>4 DEF Skipped
  <2>5. CASE x # e
    <3>1. Together(BySessionId(OfType(e.type)), e, x)
      BY <2>3 DEF Together
    <3>2. HasId(e) /\ e.sid = x.sid /\ Actor(e) = Actor(x)
      BY <2>2, <2>5, <3>1, IdTogether
    <3> QED
      BY <1>2, <2>1, <2>2, <3>2 DEF Skipped
  <2> QED
    BY <2>4, <2>5
<1> QED
  BY <1>1, <1>2 DEF Unsaid

(* Every event has a session, which says what is not skipped. *)
LEMMA EventTold ==
  ASSUME parsed \in Seq(Events), NEW e \in Range(parsed), NEW f \in e.facts
  PROVE  \E s \in Correlate(e.type, OfType(e.type)) :
           /\ e \in s.events
           /\ \/ Skipped(e, f)
              \/ s.src = e.src /\ \E g \in s.facts : Stands(g, f, e.type)
<1> DEFINE B == OfType(e.type)
           G == Groups(Parser(e.type), B)
<1>1. B \in SUBSET Events /\ IsFiniteSet(B) /\ e \in B
  BY ParsedFinite, FS_Subset DEF OfType
<1>2. Divide(G, B)
  BY <1>1, GroupsDivide
<1>3. PICK k \in G : e \in k
  BY <1>1, <1>2 DEF Divide
<1>4. /\ k \in SUBSET Events /\ IsFiniteSet(k) /\ \A x, y \in k : Actor(x) = Actor(y)
      /\ k \subseteq B
  BY <1>1, <1>2, <1>3, FS_Subset DEF Divide
<1> DEFINE s == Session(Parser(e.type), B, k)
<1>5. s \in Correlate(e.type, B) /\ s.events = k
  BY <1>3 DEF Correlate, Session
<1>6. CASE Unsaid(Parser(e.type), B, k, f)
  BY <1>3, <1>4, <1>5, <1>6, UnsaidSkipped
<1>7. CASE ~Unsaid(Parser(e.type), B, k, f)
  <2>1. /\ s.src = e.src
        /\ \E g \in s.facts :
             \/ g = f
             \/ /\ f.kind \in DOMAIN Parser(e.type).slots /\ g.kind = f.kind
                /\ \E h \in k : g \in h.facts
    BY <1>3, <1>4, <1>7, SessionSays
  <2>2. \A h \in k : \E c \in Documents : h = Event(c)
    BY <1>4 DEF Events
  <2> HIDE DEF s
  <2>3. \E g \in s.facts : Stands(g, f, e.type)
    BY <2>1, <2>2 DEF Stands
  <2> QED
    BY <1>3, <1>5, <2>1, <2>3
<1> QED
  BY <1>6, <1>7

(* The three ways correlation can go. *)
Types == {e.type : e \in Range(parsed)}
LEMMA CorrelateCases ==
  ASSUME CorrelateAll
  PROVE  \/ sessions' = Correlated(Types) /\ broken' = {}
         \/ \E t \in Types : sessions' = Correlated(Types \ {t}) /\ broken' = OfType(t)
         \/ \E s \in Correlated(Types) : \E said :
              /\ sessions' = (Correlated(Types) \ {s}) \cup {[s EXCEPT !.facts = said]}
              /\ broken' = s.events
  BY Zenon DEF CorrelateAll, Types

LEMMA CarriedSessions ==
  ASSUME CarriedInv, CorrelateAll
  PROVE  CarriedInv'
<1>1. /\ pc' = "publish" /\ UNCHANGED <<index, parsed, taken, names, done, lost, published>>
  BY DEF CorrelateAll, tally, history
<1>2. parsed \in Seq(Events)
  BY DEF CarriedInv
<1>3. ASSUME NEW e \in Range(parsed) \ broken', NEW f \in e.facts, ~Skipped(e, f)
      PROVE  \E s \in sessions' : s.src = e.src /\ \E g \in s.facts : Stands(g, f, e.type)
  <2>1. PICK s \in Correlate(e.type, OfType(e.type)) :
          e \in s.events /\ s.src = e.src /\ \E g \in s.facts : Stands(g, f, e.type)
    BY <1>2, <1>3, EventTold
  <2>2. e.type \in Types /\ e \in OfType(e.type)
    BY DEF Types, OfType
  <2>3. \A T : e.type \in T => s \in Correlated(T)
    BY <2>1 DEF Correlated
  <2>4. s \in sessions'
    <3>1. CASE sessions' = Correlated(Types) /\ broken' = {}
      BY <2>2, <2>3, <3>1
    <3>2. ASSUME NEW t \in Types, sessions' = Correlated(Types \ {t}), broken' = OfType(t)
          PROVE  s \in sessions'
      BY <1>3, <2>2, <2>3, <3>2
    <3>3. ASSUME NEW r \in Correlated(Types), NEW said, broken' = r.events,
                 sessions' = (Correlated(Types) \ {r}) \cup {[r EXCEPT !.facts = said]}
          PROVE  s \in sessions'
      <4>1. s # r
        BY <1>3, <2>1, <3>3
      <4> QED
        BY <2>2, <2>3, <3>3, <4>1
    <3> QED
      BY <3>1, <3>2, <3>3, CorrelateCases
  <2> QED
    BY <2>1, <2>4
<1>4. \A e, f : Skipped(e, f) => Skipped(e, f)'
  BY <1>1 DEF Skipped, OfType
<1>5. SessionsTell'
  BY <1>1, <1>3, <1>4 DEF SessionsTell
<1>6. \A d, f : PassedOver(d, f) => PassedOver(d, f)'
  BY <1>1, PassedStays
<1>7. Carried'
  BY <1>1, <1>6 DEF CarriedInv, Carried
<1> QED
  BY <1>1, <1>5, <1>7 DEF CarriedInv, NamesTrue, ParsedTaken, GenuineKept

LEMMA CarriedEnds ==
  ASSUME CarriedInv, EndCycle, names' = names, done' \subseteq Documents, Carried'
  PROVE  CarriedInv'
<1>1. parsed' = <<>> /\ taken' = {} /\ pc' = "idle"
  BY DEF EndCycle
<1>2. Range(parsed') = {} /\ parsed' \in Seq(Events)
  BY <1>1 DEF Range
<1> QED
  BY <1>1, <1>2 DEF CarriedInv, NamesTrue, ParsedTaken, GenuineKept, SessionsTell

LEMMA CarriedDone ==
  ASSUME IntakeType, WindowInv, CarriedInv, Complete
  PROVE  CarriedInv'
<1>1. /\ done' = done \cup {d \in taken : d.ts < to} /\ EndCycle /\ names' = names
      /\ lost' = lost \cup {d \in taken : d.ts < to /\ Event(d) \in broken}
      /\ index' = index
      /\ published' = published \cup UNION {{<<s.src, f>> : f \in s.facts} : s \in sessions}
      /\ pc = "publish"
  BY DEF Complete
<1>2. \A s \in sessions : \A f \in s.facts : <<s.src, f>> \in published'
  BY <1>1
<1>3. ASSUME NEW d \in taken, Event(d) \notin broken, Genuine(d), NEW f \in Event(d).facts
      PROVE  \/ PassedOver(d, f)
             \/ \E g : <<Source(d), g>> \in published' /\ Stands(g, f, TypeOf(d))
  <2>1. Event(d) \in Range(parsed) /\ Event(d).src = Source(d) /\ Event(d).type = TypeOf(d)
    BY <1>3 DEF CarriedInv, GenuineKept, Event
  <2>2. CASE Skipped(Event(d), f)
    BY <2>2, SkippedPassed DEF CarriedInv
  <2>3. CASE ~Skipped(Event(d), f)
    <3>1. PICK s \in sessions : /\ s.src = Event(d).src
                                /\ \E g \in s.facts : Stands(g, f, Event(d).type)
      BY <1>1, <1>3, <2>1, <2>3 DEF CarriedInv, SessionsTell
    <3> QED
      BY <1>2, <2>1, <3>1
  <2> QED
    BY <2>2, <2>3
<1>4. published \subseteq published'
  BY <1>1
<1>5. \A d, f : PassedOver(d, f) => PassedOver(d, f)'
  BY <1>1, PassedStays
<1>6. Carried'
  <2> SUFFICES ASSUME NEW d \in done' \ lost', Genuine(d), NEW f \in Event(d).facts
               PROVE  \/ PassedOver(d, f)
                      \/ \E g : <<Source(d), g>> \in published' /\ Stands(g, f, TypeOf(d))
    BY <1>5 DEF Carried
  <2>1. (d \in done \ lost) \/ (d \in taken /\ Event(d) \notin broken)
    BY <1>1
  <2>2. CASE d \in done \ lost
    BY <1>4, <2>2 DEF CarriedInv, Carried
  <2> QED
    BY <1>3, <2>1, <2>2
<1>7. done' \subseteq Documents
  BY <1>1 DEF CarriedInv, ParsedTaken
<1> QED
  BY <1>1, <1>6, <1>7, CarriedEnds

LEMMA CarriedStep == IntakeInv /\ WindowInv /\ CarriedInv /\ [Next]_vars => CarriedInv'
<1> SUFFICES ASSUME IntakeInv, WindowInv, CarriedInv, [Next]_vars
             PROVE  CarriedInv'
  OBVIOUS
<1>1. CASE StartCycle \/ FetchPage \/ EndOfStream \/ StopAtCap \/ Tick
           \/ (\E d \in Documents : Arrive(d)) \/ UNCHANGED vars
  <2>1. UNCHANGED <<parsed, taken, names, done, lost, published>> /\ index \subseteq index'
        /\ (pc' = "publish" => pc = "publish" /\ UNCHANGED <<sessions, broken>>)
    BY <1>1 DEF StartCycle, FetchPage, EndOfStream, StopAtCap, Tick, Arrive, tally, correlated,
                history, vars
  <2>2. \A d, f : PassedOver(d, f) => PassedOver(d, f)'
    BY <2>1, PassedStays
  <2>3. \A e, f : Skipped(e, f) => Skipped(e, f)'
    BY <2>1 DEF Skipped, OfType
  <2>4. SessionsTell'
    BY <2>1, <2>3 DEF CarriedInv, SessionsTell
  <2> QED
    BY <2>1, <2>2, <2>4 DEF CarriedInv, NamesTrue, ParsedTaken, GenuineKept, Carried
<1>2. CASE \E a \in Addresses : Forget(a)
  <2>1. /\ UNCHANGED <<parsed, taken, done, lost, published, pc, index>>
        /\ pc' # "publish"
        /\ DOMAIN names' \subseteq DOMAIN names /\ \A b \in DOMAIN names' : names'[b] = names[b]
    BY <1>2 DEF Forget, tally, history
  <2>2. \A d, f : PassedOver(d, f) => PassedOver(d, f)'
    BY <2>1, PassedStays
  <2> QED
    BY <2>1, <2>2 DEF CarriedInv, NamesTrue, ParsedTaken, GenuineKept, SessionsTell, Carried
<1>3. CASE Unparsed \/ RejectSource \/ OwnSource
  <2>1. PICK d \in Documents :
          /\ Next_(d) /\ Taken /\ names' = names /\ \E r \in Reasons : Drop(r)
          /\ ~Accepted(d) \/ Unattributable(d) \/ Source(d) \in Own
    BY <1>3 DEF Unparsed, RejectSource, BadSource, OwnSource, Reasons
  <2>2. ~Genuine(d) \/ Source(d) = NoSource
    BY <2>1 DEF Genuine, Unattributable
  <2> QED
    BY <2>1, <2>2, CarriedGate DEF Genuine, Unattributable, Next_, CarriedInv, NamesTrue
<1>4. CASE ScreenKnown
  <2>1. PICK d \in Documents :
          /\ Screened(d) /\ Taken /\ names' = names
          /\ Verdict(d, Source(d) \in ByOrigin
                          \/ (Source(d) \in DOMAIN names /\ names[Source(d)]))
    BY <1>4 DEF ScreenKnown
  <2>2. Genuine(d) => ~(Source(d) \in ByOrigin
                          \/ (Source(d) \in DOMAIN names /\ names[Source(d)]))
    BY DEF Genuine, CarriedInv, NamesTrue
  <2>3. Keep(d) \/ (~Genuine(d) /\ \E r \in Reasons : Drop(r))
    BY <2>1, <2>2 DEF Verdict, Reasons
  <2> QED
    BY <2>1, <2>3, CarriedGate DEF Screened, Next_, CarriedInv, NamesTrue
<1>5. CASE ScreenByName
  <2>1. PICK d \in Documents, benign \in BOOLEAN :
          /\ Screened(d) /\ Taken /\ Verdict(d, benign) /\ (benign => Source(d) \in ByName)
          /\ names' = IF Source(d) = NoSource THEN names
                      ELSE [b \in DOMAIN names \cup {Source(d)} |->
                              IF b = Source(d) THEN benign ELSE names[b]]
    BY <1>5 DEF ScreenByName
  <2>2. Keep(d) \/ (~Genuine(d) /\ \E r \in Reasons : Drop(r))
    BY <2>1 DEF Verdict, Reasons, Genuine
  <2>3. NamesTrue'
    BY <2>1 DEF CarriedInv, NamesTrue
  <2> QED
    BY <2>1, <2>2, <2>3, CarriedGate DEF Screened, Next_
<1>6. CASE CorrelateAll
  BY <1>6, CarriedSessions
<1>7. CASE Complete
  BY <1>7, CarriedDone DEF IntakeInv
<1>8. CASE Fail \/ FetchFails
  <2>1. UNCHANGED <<index, names, done, lost, published>> /\ EndCycle
    BY <1>8 DEF Fail, FetchFails, history
  <2>2. \A d, f : PassedOver(d, f) => PassedOver(d, f)'
    BY <2>1, PassedStays
  <2>3. Carried'
    BY <2>1, <2>2 DEF CarriedInv, Carried
  <2> QED
    BY <2>1, <2>3, CarriedEnds DEF CarriedInv
<1> QED
  BY <1>1, <1>2, <1>3, <1>4, <1>5, <1>6, <1>7, <1>8 DEF Next, CycleStep

(* What a genuine attacker's documents say is not lost on the way: once the   *)
(* window they were read in is done, their facts have been published under    *)
(* their source, or another of a kind the parser keeps one of, whatever the   *)
(* gates cached, the budget allowed and the parsers grouped, unless           *)
(* correlation raised on them or nothing was ever going to hear them: an      *)
(* event without an id where events are grouped by id, and what an emulator   *)
(* hears besides requests (_run_cycle_locked, correlate_by_session_id,        *)
(* from_event, _aggregate_session).                                           *)
THEOREM NoEvidenceLost == Spec => []EvidenceCarried
<1>1. CarriedInv => EvidenceCarried
  <2> SUFFICES ASSUME CarriedInv, NEW d \in done \ lost, Genuine(d), NEW f \in Event(d).facts,
                      ~PassedOver(d, f)
               PROVE  \/ <<Source(d), f>> \in published
                      \/ /\ f.kind \in DOMAIN Parser(TypeOf(d)).slots
                         /\ \E c \in Documents : \E g \in Event(c).facts :
                              g.kind = f.kind /\ <<Source(d), g>> \in published
    BY DEF EvidenceCarried
  <2>1. PICK g : <<Source(d), g>> \in published /\ Stands(g, f, TypeOf(d))
    BY DEF CarriedInv, Carried
  <2> QED
    BY <2>1 DEF Stands
<1> QED
  BY <1>1, CarriedInit, CarriedStep, IntakeInit, IntakeStep, WindowInit, WindowStep, PTL DEF Spec

(* Two events of one actor are in one burst just when no opener lies between  *)
(* them, and none does just when no pause of more than Gap does.              *)
Mine(batch, e) == {g \in batch : Actor(g) = Actor(e)}
Linked(mine, e, f) ==
  \A g \in mine : e.at <= g.at /\ g.at < f.at => \E h \in mine : g.at < h.at /\ h.at <= g.at + Gap
OpenerBetween(batch, e, f) ==
  \E n \in Mine(batch, e) : Opens(n, batch) /\ Precedes(e, n) /\ ~Precedes(f, n)

LEMMA BurstUnbroken ==
  ASSUME NEW batch \in SUBSET Events, IsFiniteSet(batch), NEW e \in batch, NEW f \in batch,
         Actor(e) = Actor(f), Precedes(e, f)
  PROVE  Together(ByWindow(batch), e, f) <=> ~OpenerBetween(batch, e, f)
<1>1. ASSUME NEW o \in batch, {e, f} \subseteq Burst(o, batch), NEW n \in batch,
             Actor(n) = Actor(e), Opens(n, batch), Precedes(e, n), ~Precedes(f, n)
      PROVE  FALSE
  <2>1. /\ Actor(e) = Actor(o) /\ ~Precedes(e, o)
        /\ Precedes(o, n) => Precedes(f, n)
    BY <1>1 DEF Burst
  <2>2. o = n \/ Precedes(n, o)
    BY <1>1, <2>1, EventsOrdered
  <2>3. Precedes(e, o)
    BY <1>1, <2>2, EventsOrdered
  <2> QED
    BY <2>1, <2>3
<1>2. Together(ByWindow(batch), e, f) => ~OpenerBetween(batch, e, f)
  BY <1>1 DEF Together, OpenerBetween, ByWindow, Mine
<1>3. ASSUME ~OpenerBetween(batch, e, f)
      PROVE  Together(ByWindow(batch), e, f)
  <2>1. PICK o \in batch : Opens(o, batch) /\ e \in Burst(o, batch)
    BY BurstOfEvent
  <2>2. Actor(e) = Actor(o) /\ ~Precedes(e, o)
    BY <2>1 DEF Burst
  <2>3. ~Precedes(f, o)
    BY <2>2, EventsOrdered
  <2>4. ASSUME NEW n \in batch, Actor(n) = Actor(o), Opens(n, batch), Precedes(o, n)
        PROVE  Precedes(f, n)
    <3>1. Precedes(e, n)
      BY <2>1, <2>4 DEF Burst
    <3> QED
      BY <1>3, <2>2, <2>4, <3>1 DEF OpenerBetween, Mine
  <2>5. f \in Burst(o, batch)
    BY <2>2, <2>3, <2>4 DEF Burst
  <2>6. Burst(o, batch) \in ByWindow(batch)
    BY <2>1 DEF ByWindow
  <2> QED
    BY <2>1, <2>5, <2>6 DEF Together
<1> QED
  BY <1>2, <1>3

LEMMA OpenerAfterPause ==
  ASSUME NEW batch \in SUBSET Events, IsFiniteSet(batch), NEW e \in batch, NEW f \in batch,
         Actor(e) = Actor(f), Precedes(e, f)
  PROVE  OpenerBetween(batch, e, f) <=> ~Linked(Mine(batch, e), e, f)
<1> DEFINE M == Mine(batch, e)
<1>1. M \in SUBSET Events /\ IsFiniteSet(M) /\ e \in M /\ f \in M
  BY FS_Subset DEF Mine
<1>2. \A x \in M : x.at \in Nat
  BY <1>1, EventTyped
<1>3. Gap \in Nat
  BY IntakeAssumption
<1>4. \A n \in M : Opens(n, batch) <=> \A x \in M : Precedes(x, n) => n.at - x.at > Gap
  BY DEF Opens, Mine
<1>5. ASSUME NEW n \in M, Opens(n, batch), Precedes(e, n), ~Precedes(f, n), Linked(M, e, f)
      PROVE  FALSE
  <2>1. e.at < n.at /\ n.at <= f.at
    <3>1. n.at - e.at > Gap
      BY <1>1, <1>4, <1>5
    <3>2. f = n \/ Precedes(n, f)
      BY <1>1, <1>5, EventsOrdered
    <3>3. n.at <= f.at
      BY <1>1, <1>2, <3>2, EventsOrdered
    <3> QED
      BY <1>1, <1>2, <1>3, <3>1, <3>3
  <2> DEFINE P == {x \in M : x.at < n.at}
  <2>2. P \in SUBSET Events /\ IsFiniteSet(P) /\ e \in P
    BY <1>1, <2>1, FS_Subset
  <2> DEFINE g == Latest(P)
  <2>3. g \in P /\ \A x \in P : ~Precedes(g, x)
    BY <2>2, LatestLast
  <2> HIDE DEF g
  <2>4. g \in M /\ g.at < n.at /\ e.at <= g.at /\ g.at < f.at
    <3>1. ~(g.at < e.at)
      BY <1>1, <2>2, <2>3, EventsOrdered
    <3> QED
      BY <1>1, <1>2, <2>1, <2>3, <3>1
  <2>5. PICK h \in M : g.at < h.at /\ h.at <= g.at + Gap
    BY <1>5, <2>4 DEF Linked
  <2>6. ~(h.at < n.at)
    BY <1>1, <2>3, <2>5, EventsOrdered
  <2>7. n.at - g.at > Gap
    BY <1>1, <1>4, <1>5, <2>4, EventsOrdered
  <2> QED
    BY <1>2, <1>3, <2>4, <2>5, <2>6, <2>7
<1>6. ASSUME NEW g \in M, e.at <= g.at, g.at < f.at,
             \A h \in M : ~(g.at < h.at /\ h.at <= g.at + Gap)
      PROVE  \E n \in M : Opens(n, batch) /\ Precedes(e, n) /\ ~Precedes(f, n)
  <2> DEFINE H == {h \in M : g.at < h.at}
  <2>1. H \in SUBSET Events /\ IsFiniteSet(H) /\ f \in H
    BY <1>1, <1>6, FS_Subset
  <2> DEFINE n == Earliest(H)
  <2>2. n \in H /\ \A x \in H : ~Precedes(x, n)
    BY <2>1, EarliestFirst
  <2> HIDE DEF n
  <2>3. n \in M /\ g.at + Gap < n.at
    BY <1>2, <1>3, <1>6, <2>2
  <2>4. \A x \in M : Precedes(x, n) => x.at <= g.at
    BY <1>2, <2>2
  <2>5. \A x \in M : Precedes(x, n) => n.at - x.at > Gap
    BY <1>2, <1>3, <2>3, <2>4
  <2>6. e.at < n.at
    BY <1>1, <1>2, <1>3, <1>6, <2>3
  <2>7. Precedes(e, n) /\ ~Precedes(f, n)
    BY <1>1, <2>1, <2>2, <2>3, <2>6, EventsOrdered
  <2> QED
    BY <1>4, <2>3, <2>5, <2>7
<1> QED
  BY <1>5, <1>6 DEF OpenerBetween, Linked

LEMMA WindowTogether ==
  ASSUME NEW batch \in SUBSET Events, IsFiniteSet(batch), NEW e \in batch, NEW f \in batch,
         e # f
  PROVE  Together(ByWindow(batch), e, f) <=>
           /\ Actor(e) = Actor(f)
           /\ IF e.at <= f.at THEN Linked(Mine(batch, e), e, f)
              ELSE Linked(Mine(batch, e), f, e)
<1>1. e.at \in Nat /\ f.at \in Nat /\ \A g \in batch : g.at \in Nat
  BY EventTyped
<1>2. Together(ByWindow(batch), e, f) <=> Together(ByWindow(batch), f, e)
  BY DEF Together
<1>3. Together(ByWindow(batch), e, f) => Actor(e) = Actor(f)
  BY WindowDivides DEF Together, Divide
<1>4. Actor(e) = Actor(f) => Mine(batch, e) = Mine(batch, f)
  BY DEF Mine
<1>5. ASSUME e.at = f.at PROVE Linked(Mine(batch, e), e, f) /\ Linked(Mine(batch, e), f, e)
  BY <1>1, <1>5 DEF Linked, Mine
<1>6. CASE Precedes(e, f)
  <2>1. e.at <= f.at
    BY <1>6, EventsOrdered
  <2> QED
    BY <1>3, <1>6, <2>1, BurstUnbroken, OpenerAfterPause
<1>7. CASE Precedes(f, e)
  <2>1. f.at <= e.at
    BY <1>7, EventsOrdered
  <2>2. Actor(e) = Actor(f) =>
          (Together(ByWindow(batch), f, e) <=> Linked(Mine(batch, e), f, e))
    BY <1>4, <1>7, BurstUnbroken, OpenerAfterPause
  <2>3. e.at <= f.at => e.at = f.at
    BY <1>1, <2>1
  <2> QED
    BY <1>2, <1>3, <1>5, <2>2, <2>3
<1> QED
  BY <1>6, <1>7, EventsOrdered

(* A parser's groups are what Belong says of two of its events. *)
LEMMA BelongTogether ==
  ASSUME parsed \in Seq(Events), NEW e \in Range(parsed), NEW f \in Range(parsed)
  PROVE  Belong(e, f) <=>
           /\ e.type = f.type
           /\ Together(Groups(Parser(e.type), OfType(e.type)), e, f)
<1> DEFINE batch == OfType(e.type)
           ways == Parser(e.type).groups
           G == Groups(Parser(e.type), batch)
           byId == CASE ways = "any" -> \E g \in batch : HasId(g)
                     [] ways = "all" -> \A g \in batch : HasId(g)
                     [] OTHER -> ways = "id"
           inTime == IF e.at <= f.at THEN Linked(Mine(batch, e), e, f)
                     ELSE Linked(Mine(batch, e), f, e)
<1>1. batch \in SUBSET Events /\ IsFiniteSet(batch) /\ e \in batch
      /\ (e.type = f.type => f \in batch)
  BY ParsedFinite, FS_Subset DEF OfType
<1>2. ways \in {"one", "id", "window", "any", "all"}
  BY FiveWays
<1>3. Belong(e, f) <=>
        \/ e = f
        \/ /\ e.type = f.type /\ Actor(e) = Actor(f) /\ ways # "one"
           /\ IF byId THEN HasId(e) /\ e.sid = f.sid ELSE inTime
  BY Zenon DEF Belong, Mine, Linked
<1>4. CASE e = f
  BY <1>1, <1>3, <1>4, GroupsDivide DEF Divide, Together
<1>5. CASE e # f /\ e.type # f.type
  BY <1>3, <1>5
<1>6. CASE e # f /\ e.type = f.type
  <2>1. CASE ways = "one"
    <3>1. G = OnePerEvent(batch)
      BY <2>1 DEF Groups
    <3> QED
      BY <1>3, <1>6, <2>1, <3>1 DEF OnePerEvent, Together
  <2>2. CASE ways # "one" /\ byId
    <3>1. G = BySessionId(batch)
      BY <1>2, <2>2 DEF Groups, MailoneyCorrelate, RouterCorrelate
    <3> QED
      BY <1>1, <1>3, <1>6, <2>2, <3>1, IdTogether
  <2>3. CASE ways # "one" /\ ~byId
    <3>1. G = ByWindow(batch)
      BY <1>2, <2>3 DEF Groups, MailoneyCorrelate, RouterCorrelate
    <3>2. Together(G, e, f) <=> Actor(e) = Actor(f) /\ inTime
      BY <1>1, <1>6, <3>1, WindowTogether
    <3> QED
      BY <1>3, <1>6, <2>3, <3>2
  <2> QED
    BY <2>1, <2>2, <2>3
<1> QED
  BY <1>4, <1>5, <1>6
--------------------------------------------------------------------------------
(* The sessions that are published: one for each group, but for the groups of *)
(* a type whose correlation raised.                                           *)
Grouping(t) == Groups(Parser(t), OfType(t))
Omitted(t) == OfType(t) \subseteq broken /\ \A s \in sessions : s.events \cap OfType(t) = {}
SessionsOfParsed ==
  pc = "publish" =>
    /\ \A s \in sessions : \E e \in Range(parsed) : s.events \in Grouping(e.type)
    /\ \A r, s \in sessions : r.events = s.events => r = s
    /\ \A e \in Range(parsed) :
         Omitted(e.type) \/ \A g \in Grouping(e.type) : \E s \in sessions : s.events = g

LEMMA GroupingDivides ==
  ASSUME parsed \in Seq(Events), NEW t
  PROVE  /\ Divide(Grouping(t), OfType(t))
         /\ \A g \in Grouping(t) : g # {} /\ \A e \in g : e \in Range(parsed) /\ e.type = t
<1>1. OfType(t) \in SUBSET Events /\ IsFiniteSet(OfType(t))
  BY ParsedFinite, FS_Subset DEF OfType
<1>2. Divide(Grouping(t), OfType(t))
  BY <1>1, GroupsDivide DEF Grouping
<1> QED
  BY <1>2 DEF Divide, OfType

(* The sessions of some types: one for each of their groups. *)
LEMMA CorrelatedGroups ==
  ASSUME parsed \in Seq(Events), NEW T
  PROVE  /\ \A s \in Correlated(T) : \E t \in T : s.events \in Grouping(t)
         /\ \A r, s \in Correlated(T) : r.events = s.events => r = s
         /\ \A t \in T : \A g \in Grouping(t) : \E s \in Correlated(T) : s.events = g
<1>1. \A s : s \in Correlated(T) <=>
        \E t \in T : \E g \in Grouping(t) : s = Session(Parser(t), OfType(t), g)
  BY DEF Correlated, Correlate, Grouping
<1>2. \A p, batch, g : Session(p, batch, g).events = g
  BY DEF Session
<1>3. ASSUME NEW r \in Correlated(T), NEW s \in Correlated(T), r.events = s.events
      PROVE  r = s
  <2>1. PICK t \in T : \E g \in Grouping(t) : r = Session(Parser(t), OfType(t), g)
    BY <1>1
  <2>2. PICK u \in T : \E g \in Grouping(u) : s = Session(Parser(u), OfType(u), g)
    BY <1>1
  <2>3. /\ r.events \in Grouping(t) /\ r = Session(Parser(t), OfType(t), r.events)
        /\ s.events \in Grouping(u) /\ s = Session(Parser(u), OfType(u), s.events)
    BY <1>2, <2>1, <2>2
  <2>4. t = u
    BY <1>3, <2>3, GroupingDivides
  <2> QED
    BY <1>3, <2>3, <2>4
<1>4. \A s \in Correlated(T) : \E t \in T : s.events \in Grouping(t)
  BY <1>1, <1>2
<1>5. ASSUME NEW t \in T, NEW g \in Grouping(t)
      PROVE  \E s \in Correlated(T) : s.events = g
  <2>1. Session(Parser(t), OfType(t), g) \in Correlated(T)
    BY <1>1
  <2> QED
    BY <1>2, <2>1
<1> QED
  BY <1>3, <1>4, <1>5

LEMMA SessionsCorrelated ==
  ASSUME parsed \in Seq(Events), CorrelateAll
  PROVE  SessionsOfParsed'
<1>0. parsed' = parsed
  BY DEF CorrelateAll, tally
<1>1. \A t : Grouping(t)' = Grouping(t) /\ OfType(t)' = OfType(t)
  BY <1>0 DEF Grouping, OfType
<1>2. Types = {e.type : e \in Range(parsed)}
  BY DEF Types
<1>3. CASE sessions' = Correlated(Types) /\ broken' = {}
  <2>1. \A s \in sessions' : \E u \in Types : s.events \in Grouping(u)
    BY <1>3, CorrelatedGroups
  <2>2. \A r, s \in sessions' : r.events = s.events => r = s
    BY <1>3, CorrelatedGroups
  <2>3. \A u \in Types : \A g \in Grouping(u) : \E s \in sessions' : s.events = g
    BY <1>3, CorrelatedGroups
  <2> QED
    BY <1>0, <1>1, <1>2, <2>1, <2>2, <2>3 DEF SessionsOfParsed
<1>4. ASSUME NEW t \in Types, sessions' = Correlated(Types \ {t}), broken' = OfType(t)
      PROVE  SessionsOfParsed'
  <2>1. ASSUME NEW s \in sessions' PROVE s.events \cap OfType(t) = {}
    <3>1. PICK u \in Types \ {t} : s.events \in Grouping(u)
      BY <1>4, CorrelatedGroups
    <3>2. \A e \in s.events : e.type = u
      BY <3>1, GroupingDivides
    <3> QED
      BY <3>2 DEF OfType
  <2>2. Omitted(t)'
    BY <1>1, <1>4, <2>1 DEF Omitted
  <2>3. \A u \in Types : u # t => \A g \in Grouping(u) : \E s \in sessions' : s.events = g
    BY <1>4, CorrelatedGroups
  <2>4. \A s \in sessions' : \E u \in Types : s.events \in Grouping(u)
    BY <1>4, CorrelatedGroups
  <2>5. \A r, s \in sessions' : r.events = s.events => r = s
    BY <1>4, CorrelatedGroups
  <2> QED
    BY <1>0, <1>1, <1>2, <2>2, <2>3, <2>4, <2>5 DEF SessionsOfParsed
<1>5. ASSUME NEW r \in Correlated(Types), NEW said, broken' = r.events,
             sessions' = (Correlated(Types) \ {r}) \cup {[r EXCEPT !.facts = said]}
      PROVE  SessionsOfParsed'
  <2> DEFINE q == [r EXCEPT !.facts = said]
  <2>1. q.events = r.events
    <3>1. PICK t \in Types : \E g \in Grouping(t) : r = Session(Parser(t), OfType(t), g)
      BY DEF Correlated, Correlate, Grouping
    <3> QED
      BY <3>1 DEF Session
  <2> HIDE DEF q
  <2>2. sessions' = (Correlated(Types) \ {r}) \cup {q}
    BY <1>5 DEF q
  <2>3. \A s \in sessions' : \E u \in Types : s.events \in Grouping(u)
    BY <2>1, <2>2, CorrelatedGroups
  <2>4. \A u \in Types : \A g \in Grouping(u) : \E s \in sessions' : s.events = g
    BY <2>1, <2>2, CorrelatedGroups
  <2>5. \A x, y \in sessions' : x.events = y.events => x = y
    BY <2>1, <2>2, CorrelatedGroups
  <2> QED
    BY <1>0, <1>1, <1>2, <2>3, <2>4, <2>5 DEF SessionsOfParsed
<1> QED
  BY <1>3, <1>4, <1>5, CorrelateCases

LEMMA SessionsDivide ==
  ASSUME parsed \in Seq(Events), SessionsOfParsed
  PROVE  SessionsExact
<1> DEFINE grouped == UNION {s.events : s \in sessions}
<1> SUFFICES ASSUME pc = "publish"
             PROVE  /\ grouped \subseteq Range(parsed)
                    /\ \A e \in Range(parsed) \ grouped : OfType(e.type) \subseteq broken \ grouped
                    /\ \A e \in grouped : Cardinality({s \in sessions : e \in s.events}) = 1
                    /\ \A e, f \in grouped :
                         (\E s \in sessions : {e, f} \subseteq s.events) <=> Belong(e, f)
  BY DEF SessionsExact
<1>0. \A e : e \in grouped <=> \E s \in sessions : e \in s.events
  OBVIOUS
<1> HIDE DEF grouped
<1>1. ASSUME NEW s \in sessions
      PROVE  /\ \A e \in s.events : e \in Range(parsed) /\ s.events \in Grouping(e.type)
             /\ \A e, f \in s.events : e.type = f.type
  <2>1. PICK d \in Range(parsed) : s.events \in Grouping(d.type)
    BY DEF SessionsOfParsed
  <2>2. \A e \in s.events : e \in Range(parsed) /\ e.type = d.type
    BY <2>1, GroupingDivides
  <2> QED
    BY <2>1, <2>2
<1>2. ASSUME NEW e \in Range(parsed)
      PROVE  e \in OfType(e.type) /\ \E g \in Grouping(e.type) : e \in g
  <2>1. e \in OfType(e.type)
    BY DEF OfType
  <2> QED
    BY <2>1, GroupingDivides DEF Divide
<1>3. ASSUME NEW e \in grouped
      PROVE  \A g \in Grouping(e.type) : \E s \in sessions : s.events = g
  <2>1. PICK s \in sessions : e \in s.events
    BY <1>0
  <2>2. e \in Range(parsed)
    BY <1>1, <2>1
  <2>3. ~Omitted(e.type)
    BY <1>2, <2>1, <2>2 DEF Omitted
  <2> QED
    BY <2>2, <2>3 DEF SessionsOfParsed
<1>4. grouped \subseteq Range(parsed)
  BY <1>0, <1>1
<1>5. ASSUME NEW e \in Range(parsed) \ grouped PROVE OfType(e.type) \subseteq broken \ grouped
  <2>1. Omitted(e.type)
    BY <1>0, <1>2 DEF SessionsOfParsed
  <2> QED
    BY <1>0, <2>1 DEF Omitted
<1>6. ASSUME NEW e \in grouped
      PROVE  Cardinality({s \in sessions : e \in s.events}) = 1
  <2>1. PICK s \in sessions : e \in s.events
    BY <1>0
  <2>2. ASSUME NEW r \in sessions, e \in r.events PROVE r = s
    <3>1. r.events \in Grouping(e.type) /\ s.events \in Grouping(e.type)
      BY <1>1, <2>1, <2>2
    <3>2. r.events = s.events
      BY <2>1, <2>2, <3>1, GroupingDivides DEF Divide
    <3> QED
      BY <3>2 DEF SessionsOfParsed
  <2>3. {r \in sessions : e \in r.events} = {s}
    BY <2>1, <2>2
  <2> QED
    BY <2>3, FS_Singleton
<1>7. ASSUME NEW e \in grouped, NEW f \in grouped
      PROVE  (\E s \in sessions : {e, f} \subseteq s.events) <=> Belong(e, f)
  <2>1. Belong(e, f) <=> e.type = f.type /\ Together(Grouping(e.type), e, f)
    BY <1>4, BelongTogether DEF Grouping
  <2>2. ASSUME NEW s \in sessions, {e, f} \subseteq s.events
        PROVE  e.type = f.type /\ Together(Grouping(e.type), e, f)
    BY <1>1, <2>2 DEF Together
  <2>3. ASSUME Together(Grouping(e.type), e, f)
        PROVE  \E s \in sessions : {e, f} \subseteq s.events
    <3>1. PICK g \in Grouping(e.type) : {e, f} \subseteq g
      BY <2>3 DEF Together
    <3>2. PICK s \in sessions : s.events = g
      BY <1>3
    <3> QED
      BY <3>1, <3>2
  <2> QED
    BY <2>1, <2>2, <2>3
<1> QED
  BY <1>4, <1>5, <1>6, <1>7

LEMMA SessionsStep ==
  ASSUME parsed \in Seq(Events), SessionsOfParsed, [Next]_vars
  PROVE  SessionsOfParsed'
<1>1. CASE CorrelateAll
  BY <1>1, SessionsCorrelated
<1>2. CASE StartCycle \/ FetchPage \/ EndOfStream \/ StopAtCap \/ Tick
           \/ (\E d \in Documents : Arrive(d)) \/ (\E a \in Addresses : Forget(a))
           \/ UNCHANGED vars
  <2>1. pc' = "publish" => pc = "publish" /\ UNCHANGED <<sessions, broken, parsed>>
    BY <1>2 DEF StartCycle, FetchPage, EndOfStream, StopAtCap, Tick, Arrive, Forget, tally,
                correlated, vars
  <2>2. parsed' = parsed => \A t : Grouping(t)' = Grouping(t) /\ OfType(t)' = OfType(t)
    BY DEF Grouping, OfType
  <2> QED
    BY <2>1, <2>2 DEF SessionsOfParsed, Omitted
<1>3. CASE Unparsed \/ RejectSource \/ OwnSource \/ ScreenKnown \/ ScreenByName
  <2>1. pc' = "stream"
    BY <1>3 DEF Unparsed, RejectSource, OwnSource, ScreenKnown, ScreenByName, Screened, Next_,
                Taken
  <2> QED
    BY <2>1 DEF SessionsOfParsed
<1>4. CASE Complete \/ Fail \/ FetchFails
  <2>1. pc' = "idle"
    BY <1>4 DEF Complete, Fail, FetchFails, EndCycle
  <2> QED
    BY <2>1 DEF SessionsOfParsed
<1> QED
  BY <1>1, <1>2, <1>3, <1>4 DEF Next, CycleStep

(* The sessions of every cycle divide its events, two in one session just     *)
(* when their parser says they belong together: by id where it groups by id,  *)
(* by the pauses between them where it groups by time, whoever else attacked  *)
(* and in whatever order the documents came; a type whose correlation raised  *)
(* is left out whole (correlator.py).                                         *)
THEOREM SessionsAreExact == Spec => []SessionsExact
<1>1. Init => SessionsOfParsed
  BY DEF Init, SessionsOfParsed
<1>2. CarriedInv /\ SessionsOfParsed => SessionsExact
  BY SessionsDivide DEF CarriedInv
<1>3. CarriedInv /\ SessionsOfParsed /\ [Next]_vars => SessionsOfParsed'
  BY SessionsStep DEF CarriedInv
<1> QED
  BY <1>1, <1>2, <1>3, CarriedInit, CarriedStep, IntakeInit, IntakeStep, WindowInit, WindowStep,
     PTL DEF Spec
================================================================================
