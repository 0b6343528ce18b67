------------------------------ MODULE MCWrapper -----------------------------
(* Instances of Wrapper for TLC; the values are in the .cfg files. *)
EXTENDS Wrapper

CONSTANTS usdc, usdt, pyusd, dai, coarse, r1, r2, r3, r4, r5

(* A mint of fewer decimals among five, and two reserve accounts of one mint. *)
MintDecimals == [m \in {usdc, usdt, pyusd, dai, coarse} |-> IF m = coarse THEN 5 ELSE 6]

ReserveMint ==
  [a \in {r1, r2, r3, r4, r5} |->
     CASE a \in {r1, r2} -> usdc [] a = r3 -> usdt [] a = r4 -> pyusd [] a = r5 -> coarse]

BootstrapLists == {<<usdc, usdt>>, <<>>}
=============================================================================
