------------------------------ MODULE Custody -------------------------------
(***************************************************************************)
(* What the exchange promises to the owners of collateral, whatever intents *)
(* it needs to bring them together: a vault that holds their wealth and the *)
(* treasury's fees, and bets of two sides, with one stake on each.  Wealth   *)
(* changes hands in these six ways only, and at no time is an account worth *)
(* less than the stakes of the sides it owns.                               *)
(***************************************************************************)
EXTENDS Integers, FiniteSets

CONSTANTS
  Traders,
  Collateral,   \* the stake of one side
  Fees,         \* what the treasury may take of a new bet
  Bounties      \* what a keeper may be paid for the end of one

VARIABLES
  vault,        \* the tokens held
  wealth,       \* trader -> what the vault owes it
  treasury,     \* what the vault owes the treasury
  bets          \* the bets that are on: an id, the owners of both sides, and terms

vars == <<vault, wealth, treasury, bets>>

Init ==
  /\ vault = 0
  /\ wealth = [t \in Traders |-> 0]
  /\ treasury = 0
  /\ bets = {}

Gain(t, owner, amount) == IF t = owner THEN amount ELSE 0

SidesOf(t) ==
  Cardinality({b \in bets : b.long = t}) + Cardinality({b \in bets : b.short = t})

Collateralised == \A t \in Traders : wealth[t] >= Collateral * SidesOf(t)

(* The amount that comes in is the account's own. *)
Deposit(t) ==
  /\ vault' > vault
  /\ wealth' = [wealth EXCEPT ![t] = @ + (vault' - vault)]
  /\ UNCHANGED <<treasury, bets>>

Withdraw(t) ==
  /\ vault' < vault
  /\ wealth' = [wealth EXCEPT ![t] = @ - (vault - vault')]
  /\ UNCHANGED <<treasury, bets>>

(* The treasury takes out no more than its fees. *)
Collect ==
  /\ vault' < vault
  /\ treasury' = treasury - (vault - vault')
  /\ treasury' >= 0
  /\ UNCHANGED <<wealth, bets>>

(* Two traders, or one, enter a bet of an id that no other has; one of the    *)
(* two pays a fee, and nobody else pays anything.                             *)
Open(bet, payer, fee) ==
  /\ bets' = bets \cup {bet}
  /\ \A b \in bets : b.id # bet.id
  /\ payer \in {bet.long, bet.short}
  /\ wealth' = [t \in Traders |-> wealth[t] - Gain(t, payer, fee)]
  /\ treasury' = treasury + fee
  /\ UNCHANGED vault

(* A side gets a new owner, at a price between the two that is at most the    *)
(* stake; neither the other side nor the terms change.                        *)
Transfer(bet, side, new, price) ==
  /\ bets' = (bets \ {bet}) \cup {[bet EXCEPT ![side] = new]}
  /\ wealth' = [t \in Traders |->
                  wealth[t] + Gain(t, bet[side], price) - Gain(t, new, price)]
  /\ UNCHANGED <<vault, treasury>>

(* The two stakes are divided among the owners and the keeper. *)
Settle(bet, toLong, toShort, keeper, bounty) ==
  /\ bets' = bets \ {bet}
  /\ bet.long # bet.short
  /\ toLong + toShort + bounty = 2 * Collateral
  /\ wealth' = [t \in Traders |->
                  wealth[t] + Gain(t, bet.long, toLong - Collateral)
                            + Gain(t, bet.short, toShort - Collateral)
                            + Gain(t, keeper, bounty)]
  /\ UNCHANGED <<vault, treasury>>

Step ==
  \/ \E t \in Traders : Deposit(t) \/ Withdraw(t)
  \/ Collect
  \/ \E bet \in bets' \ bets, payer \in Traders, fee \in Fees : Open(bet, payer, fee)
  \/ \E bet \in bets, side \in {"long", "short"}, new \in Traders,
        price \in (-Collateral)..Collateral : Transfer(bet, side, new, price)
  \/ \E bet \in bets, toLong, toShort \in 0..(2 * Collateral),
        keeper \in Traders, bounty \in Bounties :
       Settle(bet, toLong, toShort, keeper, bounty)

Next == Step /\ Collateralised'

Spec == Init /\ [][Next]_vars
=============================================================================
