----------------------------- MODULE MCFeeTiers -----------------------------
(* Instances of FeeTiers for TLC; the values are in the .cfg files. *)
EXTENDS FeeTiers, TLC

Tier(threshold, fee) == [threshold |-> threshold, fee |-> fee]

(* Tables whose highest fee is their first, their last and one in between, a  *)
(* table that charges more than all, one that starts above a volume of 0, and *)
(* two that validate_tiers rejects.                                           *)
SampleTables ==
  {<<Tier(0, 3), Tier(1, 2), Tier(3, 1)>>,
   <<Tier(0, 1), Tier(2, 3)>>,
   <<Tier(0, 1), Tier(1, 2), Tier(4, 0)>>,
   <<Tier(0, 4)>>,
   <<Tier(2, 2), Tier(3, 1)>>,
   <<Tier(2, 1), Tier(1, 1)>>,
   <<Tier(0, 5)>>}

(* A schedule account of other making, which charges more than the admin may. *)
OtherTables == {<<Tier(0, 6), Tier(2, 0)>>}

(* No step depends on what the last match charged. *)
Accounting == <<schedule, volume, now, credited, announced>>

TraderSymmetry == Permutations(Traders)
=============================================================================
