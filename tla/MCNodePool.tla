----------------------------- MODULE MCNodePool -----------------------------
(* Instances of NodePool for TLC; the values are in the .cfg files. *)
EXTENDS NodePool, TLC

OccupantSymmetry == Permutations(Occupants)
=============================================================================
