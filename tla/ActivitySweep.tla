---------------------------- MODULE ActivitySweep ----------------------------
(***************************************************************************)
(* The pager every enrichment lane shares: CORE's attacker_activity is     *)
(* read in pages of addresses in the order of the database, a cursor in    *)
(* the lane's own database says where the pass resumes, and a page shorter *)
(* than the page size ends the pass.  An address stands for its place in   *)
(* that order.                                                             *)
(***************************************************************************)
EXTENDS Naturals, FiniteSets

CONSTANTS
  Addresses,   \* the source addresses CORE may record
  PageSize     \* MAX_PER_CYCLE

ASSUME SweepAssumption ==
  /\ Addresses \in SUBSET (Nat \ {0})
  /\ IsFiniteSet(Addresses)
  /\ PageSize \in Nat \ {0}

\* The empty cursor: a pass starts before the first address.
StartOfPass == 0

\* read_activity: the first PageSize of the active addresses after the cursor.
Page(active, cursor) ==
  LET after == {a \in active : a > cursor}
  IN {a \in after : Cardinality({b \in after : b < a}) < PageSize}

LastOfPage(page) == CHOOSE a \in page : \A b \in page : b <= a

\* SweepCursor.advance
AdvancedPast(page) ==
  IF Cardinality(page) < PageSize THEN StartOfPass ELSE LastOfPage(page) + 1  \* mutant
AdvancedEager(page) ==
  IF Cardinality(page) <= PageSize THEN StartOfPass ELSE LastOfPage(page)     \* mutant
Advanced(page) ==
  IF Cardinality(page) < PageSize THEN StartOfPass ELSE LastOfPage(page)
=============================================================================
