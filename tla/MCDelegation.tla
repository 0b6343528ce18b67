---------------------------- MODULE MCDelegation ----------------------------
(* Instances of Delegation for TLC; the values are in the .cfg files. *)
EXTENDS Delegation, TLC

(* The program treats all traders alike, and all delegates. *)
TraderSymmetry == Permutations(Traders) \cup Permutations(Delegates)
=============================================================================
