------------------------------- MODULE Totals -------------------------------
(***************************************************************************)
(* Sums of balances, written so that they can be reasoned about without    *)
(* induction: the total weight of a set S is the number of its atoms, a     *)
(* pair <<x, k>> for each k in 1..w[x].  One atom is one indivisible unit   *)
(* of the collateral token, so that Total(S, w) is the sum of w over S.     *)
(***************************************************************************)
EXTENDS Integers, FiniteSets

Atoms(S, w) == UNION {{x} \X (1..w[x]) : x \in S}

Total(S, w) == Cardinality(Atoms(S, w))
=============================================================================
