------------------------------- MODULE MCBook -------------------------------
(* Instances of Book for TLC; the values are in the .cfg files. *)
EXTENDS Book

(* Two traders bid 1 in turn, which alone makes the tree lean to one side at  *)
(* every level; some posts may bid 2, which comes first, or offer.            *)
InTurn(n) ==
  {[trader |-> 1 + (n % 2), side |-> "long", price |-> 1]}
  \cup (IF n \in {2, 6} THEN {[trader |-> 1, side |-> "long", price |-> 2]} ELSE {})
  \cup (IF n = 4 THEN {[trader |-> 1, side |-> "short", price |-> 2]} ELSE {})

Inputs == UNION {PostInputs(n) : n \in 1..MaxSeq}

(* What a slot may hold: any intent of those, or a seat. *)
Stored ==
  {Seat(p.trader) : p \in Inputs} \cup
  {Intent(p.trader, p.side, p.price, seat, seq) :
     p \in Inputs, seat \in Slots, seq \in 1..MaxSeq}
=============================================================================
