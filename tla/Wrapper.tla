------------------------------- MODULE Wrapper ------------------------------
(***************************************************************************)
(* The stablecoin wrapper: a registry of accepted mints, and wUSD, minted   *)
(* and burned atom for atom against token accounts that the program's       *)
(* authority owns.  A user names the reserve account to pay into or out of: *)
(* any account of that owner and mint will do, so that a mint may have      *)
(* several.  Who may change the registry is the subject of Governance.      *)
(***************************************************************************)
EXTENDS Totals, Sequences

CONSTANTS
  Mints,             \* stablecoin mints
  Decimals,          \* mint -> its decimals
  WusdDecimals,      \* wusd_decimals of the registry
  Reserves,          \* token accounts owned by the authority
  MintOf,            \* reserve account -> its mint
  MAX_STABLECOIN_SLOTS,
  InitialLists,      \* initial_mints of InitStablecoinRegistry
  Amounts,
  MaxSupply          \* bound on the atoms of wUSD, and on those of a reserve

ASSUME WrapperAssumption ==
  /\ Decimals \in [Mints -> Nat]
  /\ WusdDecimals \in Nat
  /\ IsFiniteSet(Reserves)
  /\ MintOf \in [Reserves -> Mints]
  /\ MAX_STABLECOIN_SLOTS \in Nat
  /\ InitialLists \subseteq Seq(Mints)
  /\ Amounts \subseteq Nat
  /\ MaxSupply \in Nat

(* AddStablecoinMint compares decimals; InitStablecoinRegistry takes them on  *)
(* trust.                                                                     *)
ASSUME InitialDecimals ==
  \A list \in InitialLists : \A k \in DOMAIN list : Decimals[list[k]] = WusdDecimals

VARIABLES
  created,           \* has the registry been initialized?
  mints,             \* mints[0..n_mints] of the registry
  reserve,           \* reserve account -> atoms
  supply             \* atoms of wUSD

vars == <<created, mints, reserve, supply>>

Init ==
  /\ created = FALSE
  /\ mints = <<>>
  /\ reserve = [a \in Reserves |-> 0]
  /\ supply = 0

-----------------------------------------------------------------------------
(* The registry *)

IsAccepted(m) == \E k \in DOMAIN mints : mints[k] = m

Distinct(list) == \A j, k \in DOMAIN list : list[j] = list[k] => j = k

InitStablecoinRegistry(list) ==
  /\ ~created
  /\ Len(list) <= MAX_STABLECOIN_SLOTS
  /\ Distinct(list)
  /\ created' = TRUE
  /\ mints' = list
  /\ UNCHANGED <<reserve, supply>>

CanAddAnyDecimals(m) ==
  /\ ~IsAccepted(m)
  /\ Len(mints) < MAX_STABLECOIN_SLOTS

CanAdd(m) ==
  /\ Decimals[m] = WusdDecimals
  /\ ~IsAccepted(m)
  /\ Len(mints) < MAX_STABLECOIN_SLOTS

AddStablecoinMint(m) ==
  /\ created
  /\ CanAdd(m)
  /\ mints' = Append(mints, m)
  /\ UNCHANGED <<created, reserve, supply>>

WithoutSlotTruncates(k) == SubSeq(mints, 1, Len(mints) - 1)

(* The last mint moves into slot k. *)
WithoutSlot(k) == [j \in 1..(Len(mints) - 1) |-> IF j = k THEN mints[Len(mints)] ELSE mints[j]]

RemoveStablecoinMint(m) ==
  /\ created
  /\ \E k \in DOMAIN mints : /\ mints[k] = m
                             /\ mints' = WithoutSlot(k)
  /\ UNCHANGED <<created, reserve, supply>>

-----------------------------------------------------------------------------
(* wUSD *)

WrapStablecoin(a, amount) ==
  /\ created
  /\ amount > 0
  /\ IsAccepted(MintOf[a])
  /\ supply + amount <= MaxSupply /\ reserve[a] + amount <= MaxSupply
  /\ reserve' = [reserve EXCEPT ![a] = @ + amount]
  /\ supply' = supply + amount
  /\ UNCHANGED <<created, mints>>

CanUnwrap(a, amount) == reserve[a] >= amount /\ supply >= amount

UnwrapStablecoin(a, amount) ==
  /\ created
  /\ amount > 0
  /\ IsAccepted(MintOf[a])
  /\ CanUnwrap(a, amount)
  /\ reserve' = [reserve EXCEPT ![a] = @ - amount]
  /\ supply' = supply - amount
  /\ UNCHANGED <<created, mints>>

(* Holders may burn wUSD, and anyone may pay into a reserve, by the token     *)
(* program alone.                                                             *)
Burn(amount) ==
  /\ supply >= amount
  /\ supply' = supply - amount
  /\ UNCHANGED <<created, mints, reserve>>

Donate(a, amount) ==
  /\ reserve[a] + amount <= MaxSupply
  /\ reserve' = [reserve EXCEPT ![a] = @ + amount]
  /\ UNCHANGED <<created, mints, supply>>

Next ==
  \/ \E list \in InitialLists : InitStablecoinRegistry(list)
  \/ \E m \in Mints : AddStablecoinMint(m) \/ RemoveStablecoinMint(m)
  \/ \E a \in Reserves, amount \in Amounts :
       WrapStablecoin(a, amount) \/ UnwrapStablecoin(a, amount) \/ Donate(a, amount)
  \/ \E amount \in Amounts : Burn(amount)

Spec == Init /\ [][Next]_vars

-----------------------------------------------------------------------------
Accepted == {m \in Mints : IsAccepted(m)}

(* Every atom of wUSD is backed by an atom of the same worth: the reserves in *)
(* mints of wUSD's decimals hold at least the supply, those of mints that     *)
(* were removed, and can be paid out only once they are added again,          *)
(* included.                                                                  *)
SupplyBacked ==
  supply <= Total({a \in Reserves : Decimals[MintOf[a]] = WusdDecimals}, reserve)

(* Removing a mint stops that mint and no other, whichever slot it has and    *)
(* whatever was removed and added before: the swap with the last slot loses   *)
(* none, and none is listed twice.                                            *)
RemovalExact ==
  [][\A m \in Mints : RemoveStablecoinMint(m) => Accepted' = Accepted \ {m}]_vars
=============================================================================
