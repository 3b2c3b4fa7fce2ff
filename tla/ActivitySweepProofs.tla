------------------------- MODULE ActivitySweepProofs -------------------------
(***************************************************************************)
(* What the shared pager guarantees for every set of addresses and every   *)
(* page size.                                                              *)
(***************************************************************************)
EXTENDS ActivitySweep, FiniteSetTheorems, WellFoundedInduction, TLAPS

\* A finite, non-empty set of naturals has a greatest member: the sets of
\* members above one of its own are finite, so one of them is minimal.
LEMMA GreatestExists ==
  ASSUME NEW S \in SUBSET Nat, IsFiniteSet(S), S # {}
  PROVE  \E m \in S : \A n \in S : n <= m
<1> DEFINE Above(m) == {n \in S : n > m}
           Aboves == {Above(m) : m \in S}
<1>1. Aboves \subseteq FiniteSubsetsOf(S)
  <2>1. FiniteSubsetsOf(S) = SUBSET S
    BY FS_FiniteSubsetsOfFinite
  <2> QED
    BY <2>1
<1>2. Aboves # {}
  OBVIOUS
<1>3. PICK A \in Aboves : \A B \in Aboves : ~(<<B, A>> \in StrictSubsetOrdering(S))
  <2> HIDE DEF Aboves
  <2> QED
    BY <1>1, <1>2, WFMin, FS_StrictSubsetOrderingWellFounded
<1>4. PICK m \in S : A = Above(m)
  OBVIOUS
<1>5. ASSUME NEW n \in S, n > m PROVE FALSE
  <2>1. Above(n) \in Aboves
    OBVIOUS
  <2>2. Above(n) \subseteq Above(m)
    <3>1. \A k \in S : k > n => k > m
      BY <1>5
    <3> QED
      BY <3>1
  <2>3. n \in Above(m) /\ n \notin Above(n)
    <3>1. n > m /\ ~(n > n)
      BY <1>5
    <3> QED
      BY <3>1
  <2>4. <<Above(n), Above(m)>> \in StrictSubsetOrdering(S)
    BY <2>2, <2>3 DEF StrictSubsetOrdering
  <2> QED
    BY <1>3, <1>4, <2>1, <2>4
<1> QED
  BY <1>5

\* A page holds active addresses after the cursor (read_activity).
LEMMA PageOfActive ==
  ASSUME NEW active, NEW cursor
  PROVE  /\ Page(active, cursor) \subseteq active
         /\ \A a \in Page(active, cursor) : a > cursor
BY DEF Page

\* The cursor a page leaves behind is the start of a pass, or the last address
\* of the page, which no address of it is after (SweepCursor.advance).
LEMMA AdvanceWithinPage ==
  ASSUME NEW page \in SUBSET Addresses
  PROVE  \/ Advanced(page) = StartOfPass
         \/ Advanced(page) \in page /\ \A a \in page : a <= Advanced(page)
<1>1. IsFiniteSet(page)
  BY SweepAssumption, FS_Subset
<1>2. CASE page = {}
  BY <1>2, FS_EmptySet, SweepAssumption DEF Advanced
<1>3. CASE page # {}
  <2>1. \E m \in page : \A n \in page : n <= m
    BY <1>1, <1>3, GreatestExists, SweepAssumption
  <2> QED
    BY <2>1 DEF Advanced, LastOfPage
<1> QED
  BY <1>2, <1>3
=============================================================================
