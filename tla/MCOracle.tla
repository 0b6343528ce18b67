------------------------------ MODULE MCOracle ------------------------------
(* Instances of Oracle for TLC; the values are in the .cfg files. *)
EXTENDS Oracle, TLC

CONSTANTS s1, s2, m1, m2, pos1, pos2, w1, w2

(* Two positions of one market, of instruments with different windows and     *)
(* patience.                                                                  *)
PositionMarket == [p \in {pos1, pos2} |-> m1]
PositionWindow == [p \in {pos1, pos2} |-> IF p = pos1 THEN w1 ELSE w2]
PositionStaleness == [p \in {pos1, pos2} |-> IF p = pos1 THEN 1 ELSE 0]

Att(key, kind, market, about, ts, nonce) ==
  [key |-> key, kind |-> kind, market |-> market, about |-> about,
   ts |-> ts, breach |-> ts, nonce |-> nonce]

(* Of both keys, in both orders of time and nonce, some of another market; one *)
(* breach is dated ahead of its signature and one before all time.            *)
Circulating ==
  {Att(s1, "price", m1, w2, 1, 2),
   Att(s1, "resolution", m1, None, 1, 1), Att(s2, "resolution", m1, None, 1, 2),
   Att(s2, "resolution", m2, None, 0, 1),
   Att(s1, "liquidation", m1, pos2, 0, 2),
   [Att(s2, "liquidation", m1, pos1, 1, 2) EXCEPT !.breach = 2],
   [Att(s1, "liquidation", m1, pos2, 0, 1) EXCEPT !.breach = -1]}

(* Keys other than the admin's are interchangeable, and so are proposal ids. *)
KeySymmetry == Permutations(Keys \ {Admin}) \cup Permutations(ProposalIds)
=============================================================================
