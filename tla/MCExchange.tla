----------------------------- MODULE MCExchange -----------------------------
(* Instances of Exchange for TLC; the values are in the .cfg files. *)
EXTENDS Exchange, TLC

(* The program treats all traders alike. *)
TraderSymmetry == Permutations(Traders)
=============================================================================
