---------------------------- MODULE WrapperProofs ---------------------------
(* Proofs about Wrapper, for any mints, reserve accounts and amounts. *)
EXTENDS Wrapper, TotalsProofs

(* Reserve accounts whose atoms are worth one of wUSD. *)
Good == {a \in Reserves : Decimals[MintOf[a]] = WusdDecimals}

WrapperType ==
  /\ created \in BOOLEAN
  /\ mints \in Seq(Mints)
  /\ reserve \in [Reserves -> Nat]
  /\ supply \in Nat

(* The list holds no mint twice, and only mints of wUSD's decimals. *)
ListSound ==
  /\ Distinct(mints)
  /\ \A k \in DOMAIN mints : Decimals[mints[k]] = WusdDecimals

(* The inductive invariant. *)
WrapperInv == WrapperType /\ ListSound /\ SupplyBacked

(* The total of the good reserves is a number, and an atom paid into or out   *)
(* of one of them counts.                                                     *)
LEMMA GoodTotal ==
  ASSUME NEW r \in [Reserves -> Nat]
  PROVE  /\ IsFiniteSet(Good)
         /\ \A a \in Good : r[a] \in Nat
         /\ Total(Good, r) \in Nat
<1>1. IsFiniteSet(Good)
  <2>1. Good \subseteq Reserves /\ IsFiniteSet(Reserves)
    BY WrapperAssumption DEF Good
  <2> QED BY <2>1, FS_Subset
<1>2. \A a \in Good : r[a] \in Nat
  BY DEF Good
<1> QED BY <1>1, <1>2, TotalType

(* A reserve is credited or debited: the total follows it if it is good. *)
LEMMA GoodChange ==
  ASSUME NEW r \in [Reserves -> Nat], NEW s \in [Reserves -> Nat], NEW a \in Reserves,
         \A b \in Reserves \ {a} : s[b] = r[b]
  PROVE  Total(Good, s) = IF a \in Good THEN Total(Good, r) - r[a] + s[a] ELSE Total(Good, r)
<1>1. CASE a \in Good
  <2>1. \A b \in Good \ {a} : s[b] = r[b]
    BY DEF Good
  <2>2. IsFiniteSet(Good) /\ \A b \in Good : s[b] \in Nat /\ r[b] \in Nat
    BY GoodTotal
  <2>3. Total(Good, s) = Total(Good, r) - r[a] + s[a]
    BY <1>1, <2>1, <2>2, TotalUpdate
  <2> QED BY <1>1, <2>3
<1>2. CASE a \notin Good
  <2>1. \A b \in Good : s[b] = r[b]
    BY <1>2 DEF Good
  <2>2. Total(Good, s) = Total(Good, r)
    BY <2>1, TotalAgree
  <2> QED BY <1>2, <2>2
<1> QED BY <1>1, <1>2

(* The reserve of an accepted mint is good. *)
LEMMA AcceptedGood ==
  ASSUME ListSound, NEW a \in Reserves, IsAccepted(MintOf[a])
  PROVE  a \in Good
BY DEF ListSound, IsAccepted, Good

(* Removal moves the last mint into the slot: all but the mint of that slot   *)
(* remain, each once.                                                         *)
LEMMA WithoutSlotEffect ==
  ASSUME mints \in Seq(Mints), ListSound, NEW k \in DOMAIN mints
  PROVE  LET w == WithoutSlot(k)
         IN  /\ w \in Seq(Mints)
             /\ Distinct(w)
             /\ \A j \in DOMAIN w : Decimals[w[j]] = WusdDecimals
             /\ {w[j] : j \in DOMAIN w} = {mints[j] : j \in DOMAIN mints} \ {mints[k]}
<1> DEFINE n == Len(mints)
           w == WithoutSlot(k)
<1>1. /\ n \in Nat /\ DOMAIN mints = 1..n /\ k \in 1..n /\ n - 1 \in Nat
      /\ \A j \in 1..n : mints[j] \in Mints
  OBVIOUS
<1>2. /\ DOMAIN w = 1..(n - 1)
      /\ \A j \in 1..(n - 1) : w[j] = IF j = k THEN mints[n] ELSE mints[j]
      /\ w = [j \in 1..(n - 1) |-> w[j]]
  BY DEF WithoutSlot
<1>3. \A i, j \in 1..n : mints[i] = mints[j] => i = j
  BY <1>1 DEF ListSound, Distinct
<1> HIDE DEF w, n
<1>4. \A j \in 1..(n - 1) : w[j] \in Mints
  BY <1>1, <1>2
<1>5. w \in Seq(Mints)
  <2>1. w \in [1..(n - 1) -> Mints]
    BY <1>2, <1>4
  <2> QED BY <1>1, <2>1
<1>6. Distinct(w)
  <2> SUFFICES ASSUME NEW i \in 1..(n - 1), NEW j \in 1..(n - 1), w[i] = w[j]
               PROVE  i = j
    BY <1>2 DEF Distinct
  <2>1. i \in 1..n /\ j \in 1..n /\ n \in 1..n /\ i # n /\ j # n
    BY <1>1
  <2> QED BY <1>2, <1>3, <2>1
<1>7. \A j \in DOMAIN w : Decimals[w[j]] = WusdDecimals
  BY <1>1, <1>2 DEF ListSound
<1>8. {w[j] : j \in DOMAIN w} = {mints[j] : j \in DOMAIN mints} \ {mints[k]}
  <2>1. ASSUME NEW j \in 1..(n - 1)
        PROVE  w[j] \in {mints[i] : i \in 1..n} \ {mints[k]}
    <3>1. j \in 1..n /\ n \in 1..n /\ j # n
      BY <1>1
    <3> QED BY <1>1, <1>2, <1>3, <3>1
  <2>2. ASSUME NEW i \in 1..n, mints[i] # mints[k]
        PROVE  \E j \in 1..(n - 1) : w[j] = mints[i]
    <3>1. CASE i = n
      <4>1. k \in 1..(n - 1)
        BY <1>1, <2>2, <3>1
      <4> QED BY <1>2, <3>1, <4>1
    <3>2. CASE i # n
      <4>1. i \in 1..(n - 1) /\ i # k
        BY <1>1, <2>2, <3>2
      <4> QED BY <1>2, <4>1
    <3> QED BY <3>1, <3>2
  <2> QED BY <1>1, <1>2, <2>1, <2>2
<1> QED BY <1>5, <1>6, <1>7, <1>8 DEF w

(* The invariant holds initially. *)
LEMMA WrapperInvInit == Init => WrapperInv
<1> SUFFICES ASSUME Init PROVE WrapperInv
  OBVIOUS
<1>0. mints = <<>> /\ mints \in Seq(Mints) /\ \A k \in DOMAIN mints : FALSE
  BY DEF Init
<1>1. WrapperType /\ ListSound
  BY <1>0 DEF Init, WrapperType, ListSound, Distinct
<1>2. Total(Good, reserve) \in Nat
  BY <1>1, GoodTotal DEF WrapperType
<1> QED BY <1>1, <1>2 DEF Init, WrapperInv, SupplyBacked, Good

(* The registry's handlers keep the invariant. *)
LEMMA RegistryKeeps ==
  ASSUME WrapperInv, UNCHANGED <<reserve, supply>>, created' \in BOOLEAN,
         mints' \in Seq(Mints), ListSound'
  PROVE  WrapperInv'
BY DEF WrapperInv, WrapperType, SupplyBacked

(* Every step keeps the invariant. *)
LEMMA WrapperInvStep == WrapperInv /\ [Next]_vars => WrapperInv'
<1> SUFFICES ASSUME WrapperInv, [Next]_vars PROVE WrapperInv'
  OBVIOUS
<1>0. WrapperType /\ ListSound /\ supply <= Total(Good, reserve) /\ Total(Good, reserve) \in Nat
  BY GoodTotal DEF WrapperInv, WrapperType, SupplyBacked, Good
<1>1. ASSUME NEW list \in InitialLists, InitStablecoinRegistry(list)
      PROVE  WrapperInv'
  <2>1. /\ list \in Seq(Mints) /\ Distinct(list)
        /\ \A k \in DOMAIN list : Decimals[list[k]] = WusdDecimals
        /\ mints' = list /\ created' = TRUE /\ UNCHANGED <<reserve, supply>>
    BY <1>1, WrapperAssumption, InitialDecimals DEF InitStablecoinRegistry
  <2>2. ListSound'
    BY <2>1 DEF ListSound, Distinct
  <2> QED BY <2>1, <2>2, RegistryKeeps
<1>2. ASSUME NEW m \in Mints, AddStablecoinMint(m)
      PROVE  WrapperInv'
  <2>1. /\ mints' = Append(mints, m) /\ created' = created /\ UNCHANGED <<reserve, supply>>
        /\ Decimals[m] = WusdDecimals
        /\ \A k \in DOMAIN mints : mints[k] # m
    BY <1>2 DEF AddStablecoinMint, CanAdd, IsAccepted
  <2>2. /\ mints' \in Seq(Mints) /\ DOMAIN mints = 1..Len(mints) /\ Len(mints) \in Nat
        /\ DOMAIN mints' = 1..(Len(mints) + 1)
        /\ \A k \in 1..Len(mints) : mints'[k] = mints[k]
        /\ mints'[Len(mints) + 1] = m
    BY <1>0, <2>1 DEF WrapperType
  <2>3. \A k \in DOMAIN mints' : k \in DOMAIN mints \/ k = Len(mints) + 1
    BY <2>2
  <2>4. Distinct(mints)'
    BY <1>0, <2>1, <2>2, <2>3 DEF ListSound, Distinct
  <2>5. \A k \in DOMAIN mints' : Decimals[mints'[k]] = WusdDecimals
    BY <1>0, <2>1, <2>2, <2>3 DEF ListSound
  <2>6. ListSound'
    BY <2>4, <2>5 DEF ListSound
  <2> QED BY <1>0, <2>1, <2>2, <2>6, RegistryKeeps DEF WrapperType
<1>3. ASSUME NEW m \in Mints, RemoveStablecoinMint(m)
      PROVE  WrapperInv'
  <2>1. PICK k \in DOMAIN mints : mints[k] = m /\ mints' = WithoutSlot(k)
    BY <1>3 DEF RemoveStablecoinMint
  <2>2. created' = created /\ UNCHANGED <<reserve, supply>>
    BY <1>3 DEF RemoveStablecoinMint
  <2>3. /\ mints' \in Seq(Mints)
        /\ Distinct(mints')
        /\ \A j \in DOMAIN mints' : Decimals[mints'[j]] = WusdDecimals
    BY <1>0, <2>1, WithoutSlotEffect DEF WrapperType
  <2>4. ListSound'
    BY <2>3 DEF ListSound, Distinct
  <2> QED BY <1>0, <2>2, <2>3, <2>4, RegistryKeeps DEF WrapperType
<1>4. ASSUME NEW a \in Reserves, NEW amount \in Amounts, WrapStablecoin(a, amount)
      PROVE  WrapperInv'
  <2>1. /\ amount \in Nat /\ a \in Good
        /\ reserve' = [reserve EXCEPT ![a] = @ + amount]
        /\ supply' = supply + amount /\ UNCHANGED <<created, mints>>
    BY <1>0, <1>4, WrapperAssumption, AcceptedGood DEF WrapStablecoin
  <2>2. WrapperType' /\ ListSound' /\ reserve'[a] = reserve[a] + amount /\ reserve[a] \in Nat
    BY <1>0, <2>1 DEF WrapperType, ListSound, Distinct
  <2>3. Total(Good, reserve') = Total(Good, reserve) - reserve[a] + reserve'[a]
    BY <1>0, <2>1, <2>2, GoodChange DEF WrapperType
  <2>4. supply' <= Total(Good, reserve')
    BY <1>0, <2>1, <2>2, <2>3 DEF WrapperType
  <2> QED BY <2>2, <2>4 DEF WrapperInv, SupplyBacked, Good
<1>5. ASSUME NEW a \in Reserves, NEW amount \in Amounts, UnwrapStablecoin(a, amount)
      PROVE  WrapperInv'
  <2>1. /\ amount \in Nat /\ a \in Good
        /\ reserve[a] >= amount /\ supply >= amount
        /\ reserve' = [reserve EXCEPT ![a] = @ - amount]
        /\ supply' = supply - amount /\ UNCHANGED <<created, mints>>
    BY <1>0, <1>5, WrapperAssumption, AcceptedGood DEF UnwrapStablecoin, CanUnwrap
  <2>2. WrapperType' /\ ListSound' /\ reserve'[a] = reserve[a] - amount /\ reserve[a] \in Nat
    BY <1>0, <2>1 DEF WrapperType, ListSound, Distinct
  <2>3. Total(Good, reserve') = Total(Good, reserve) - reserve[a] + reserve'[a]
    BY <1>0, <2>1, <2>2, GoodChange DEF WrapperType
  <2>4. supply' <= Total(Good, reserve')
    BY <1>0, <2>1, <2>2, <2>3 DEF WrapperType
  <2> QED BY <2>2, <2>4 DEF WrapperInv, SupplyBacked, Good
<1>6. ASSUME NEW a \in Reserves, NEW amount \in Amounts, Donate(a, amount)
      PROVE  WrapperInv'
  <2>1. /\ amount \in Nat
        /\ reserve' = [reserve EXCEPT ![a] = @ + amount]
        /\ UNCHANGED <<created, mints, supply>>
    BY <1>6, WrapperAssumption DEF Donate
  <2>2. WrapperType' /\ ListSound' /\ reserve'[a] = reserve[a] + amount /\ reserve[a] \in Nat
    BY <1>0, <2>1 DEF WrapperType, ListSound, Distinct
  <2>3. \/ Total(Good, reserve') = Total(Good, reserve) - reserve[a] + reserve'[a]
        \/ Total(Good, reserve') = Total(Good, reserve)
    BY <1>0, <2>1, <2>2, GoodChange DEF WrapperType
  <2>4. supply' <= Total(Good, reserve')
    BY <1>0, <2>1, <2>2, <2>3 DEF WrapperType
  <2> QED BY <2>2, <2>4 DEF WrapperInv, SupplyBacked, Good
<1>7. ASSUME NEW amount \in Amounts, Burn(amount)
      PROVE  WrapperInv'
  <2>1. /\ amount \in Nat /\ supply >= amount /\ supply' = supply - amount
        /\ UNCHANGED <<created, mints, reserve>>
    BY <1>7, WrapperAssumption DEF Burn
  <2>2. WrapperType' /\ ListSound' /\ supply' <= supply
    BY <1>0, <2>1 DEF WrapperType, ListSound, Distinct
  <2>3. supply' <= Total(Good, reserve')
    BY <1>0, <2>1, <2>2 DEF WrapperType
  <2> QED BY <2>2, <2>3 DEF WrapperInv, SupplyBacked, Good
<1>8. CASE UNCHANGED vars
  BY <1>8 DEF vars, WrapperInv, WrapperType, ListSound, Distinct, SupplyBacked
<1> QED BY <1>1, <1>2, <1>3, <1>4, <1>5, <1>6, <1>7, <1>8 DEF Next

(* In every reachable state the invariant holds. *)
LEMMA WrapperInvAlways == Spec => []WrapperInv
BY WrapperInvInit, WrapperInvStep, PTL DEF Spec

(* wUSD is backed, atom for atom, by reserves of its decimals: wrap and       *)
(* unwrap move both by the same amount and reach only listed mints.           *)
THEOREM AlwaysBacked == Spec => []SupplyBacked
<1>1. WrapperInv => SupplyBacked
  BY DEF WrapperInv
<1> QED BY <1>1, WrapperInvAlways, PTL

(* remove_mint stops exactly the mint it is given, from any list.             *)
THEOREM RemovesExactly == Spec => RemovalExact
<1> DEFINE Exact == \A m \in Mints : RemoveStablecoinMint(m) => Accepted' = Accepted \ {m}
<1>1. WrapperInv => Exact
  <2> SUFFICES ASSUME WrapperInv, NEW m \in Mints, RemoveStablecoinMint(m)
               PROVE  Accepted' = Accepted \ {m}
    OBVIOUS
  <2>1. PICK k \in DOMAIN mints : mints[k] = m /\ mints' = WithoutSlot(k)
    BY DEF RemoveStablecoinMint
  <2>2. {mints'[j] : j \in DOMAIN mints'} = {mints[j] : j \in DOMAIN mints} \ {m}
    BY <2>1, WithoutSlotEffect DEF WrapperInv, WrapperType
  <2>3. Accepted = {x \in Mints : x \in {mints[j] : j \in DOMAIN mints}}
    BY DEF Accepted, IsAccepted
  <2>4. Accepted' = {x \in Mints : x \in {mints'[j] : j \in DOMAIN mints'}}
    BY DEF Accepted, IsAccepted
  <2> QED BY <2>2, <2>3, <2>4
<1>2. WrapperInv /\ [Next]_vars => [Exact]_vars
  BY <1>1
<1> QED BY <1>2, WrapperInvAlways, PTL DEF Spec, RemovalExact
=============================================================================
