----------------------------- MODULE FixedMath ------------------------------
(***************************************************************************)
(* The arithmetic of src/src/math/fixed.rs.  The two scales of the program, *)
(* PRICE_ONE = 10^18 and BPS_DENOM = 10_000, are parameters, so that TLC    *)
(* can work with small ones and the proofs hold for every one.              *)
(***************************************************************************)
EXTENDS Integers

CONSTANTS
  PRICE_ONE,   \* the fixed-point price 1.0
  BPS_DENOM    \* 100% in basis points

ASSUME ScalesAssumption ==
  /\ PRICE_ONE \in Nat \ {0}
  /\ BPS_DENOM \in Nat \ {0}

ValidatePriceTicked(price, tick) ==
  /\ 0 < price
  /\ price < PRICE_ONE
  /\ tick # 0
  /\ price % tick = 0

PriceMidpointNoCarry(a, b) == (a \div 2) + (b \div 2)

(* Halves are taken before they are added; the carry of two odd prices is   *)
(* put back by the last term, (a & 1) & (b & 1).                            *)
PriceMidpoint(a, b) ==
  (a \div 2) + (b \div 2) + (IF a % 2 = 1 /\ b % 2 = 1 THEN 1 ELSE 0)

Bps(amount, bps) == (amount * bps) \div BPS_DENOM

NotionalAtoms(bucket, leverageBps) == Bps(bucket, leverageBps)

PositionSizeFp(notional, entry) == (notional * PRICE_ONE) \div entry

(* Rust's signed division truncates towards zero; TLA+'s \div rounds down.  *)
TruncDiv(a, b) == IF a >= 0 THEN a \div b ELSE -((-a) \div b)

PnlLongAtoms(entry, mark, size) == TruncDiv((mark - entry) * size, PRICE_ONE)

BoundedEquityUncapped(c, pnl) == IF c + pnl < 0 THEN 0 ELSE c + pnl

BoundedEquity(c, pnl) ==
  IF c + pnl < 0 THEN 0 ELSE IF c + pnl > 2 * c THEN 2 * c ELSE c + pnl
=============================================================================
