--------------------------- MODULE SolvencyProofs ---------------------------
(***************************************************************************)
(* The exchange implements Custody: what a step does to wealth and to the    *)
(* live positions is one of six movements, or nothing.  That the vault holds *)
(* what traders and treasury are owed follows from the six alone.            *)
(***************************************************************************)
EXTENDS LedgerProofs

-----------------------------------------------------------------------------
(* Totals of weights that move at one or two places *)

Weights(S, w) == \A y \in S : w[y] \in Nat

(* From w to v, the weight moves by x at a, and by z at b. *)
Shift(S, v, w, a, x, b, z) == \A y \in S : v[y] = w[y] + At(y, a, x) + At(y, b, z)

(* A weight that moves at one place moves the total. *)
LEMMA ShiftOne ==
  ASSUME NEW S, IsFiniteSet(S), NEW v, NEW w, Weights(S, v), Weights(S, w),
         NEW a \in S, NEW x \in Int, Shift(S, v, w, a, x, a, 0)
  PROVE  Total(S, v) = Total(S, w) + x
<1>1. \A y \in S : v[y] \in Nat /\ w[y] \in Nat
  BY DEF Weights
<1>2. \A y \in S \ {a} : v[y] = w[y]
  BY <1>1 DEF Shift, At
<1>3. Total(S, v) = Total(S, w) - w[a] + v[a]
  BY <1>1, <1>2, TotalUpdate
<1>4. v[a] = w[a] + x
  BY <1>1 DEF Shift, At
<1>5. Total(S, w) \in Nat
  BY <1>1, TotalType
<1> QED BY <1>1, <1>3, <1>4, <1>5

(* The places may be one and the same. *)
LEMMA ShiftTwo ==
  ASSUME NEW S, IsFiniteSet(S), NEW v, NEW w, Weights(S, v), Weights(S, w),
         NEW a \in S, NEW x \in Int, NEW b \in S, NEW z \in Int, Shift(S, v, w, a, x, b, z)
  PROVE  Total(S, v) = Total(S, w) + x + z
<1>0. Total(S, w) \in Nat /\ Total(S, v) \in Nat
  BY TotalType DEF Weights
<1>1. CASE a = b
  <2> DEFINE xz == x + z
  <2>1. Shift(S, v, w, a, xz, a, 0) /\ xz \in Int
    BY <1>1 DEF Weights, Shift, At
  <2> HIDE DEF xz
  <2>2. Total(S, v) = Total(S, w) + xz
    BY <2>1, ShiftOne
  <2> QED BY <2>2, <1>0 DEF xz
<1>2. CASE a # b
  <2> DEFINE m == [y \in S |-> w[y] + At(y, a, x)]
  <2>1. \A y \in S : m[y] = w[y] + At(y, a, x)
    OBVIOUS
  <2> HIDE DEF m
  <2>2. Weights(S, m) /\ Shift(S, m, w, a, x, a, 0) /\ Shift(S, v, m, b, z, b, 0)
    BY <1>2, <2>1 DEF Weights, Shift, At
  <2>3. Total(S, m) = Total(S, w) + x
    BY <2>2, ShiftOne
  <2>4. Total(S, v) = Total(S, m) + z
    BY <2>2, ShiftOne
  <2> QED BY <2>3, <2>4
<1> QED BY <1>1, <1>2

-----------------------------------------------------------------------------
(* The worth of the accounts *)

Worth(mg, t) == mg[t].free + mg[t].reserved + mg[t].locked

(* The worth of an account is the wealth of its owner. *)
LEMMA WealthIsWorth ==
  /\ \A t \in Traders : Wealth[t] = Worth(margin, t) /\ Wealth'[t] = Worth(margin', t)
  /\ Wealth = [t \in Traders |-> Wealth[t]] /\ Wealth' = [t \in Traders |-> Wealth'[t]]
BY DEF Wealth, Worth

(* An adjustment moves the sum of its parts. *)
LEMMA AdjustWorth ==
  ASSUME NEW mg \in Drafts, NEW t \in Traders, NEW u \in Traders,
         NEW f \in Int, NEW r \in Int, NEW k \in Int
  PROVE  /\ Adjust(mg, t, f, r, k) \in Drafts
         /\ Worth(Adjust(mg, t, f, r, k), u) = Worth(mg, u) + At(u, t, f + r + k)
         /\ Worth(mg, u) \in Int
<1>1. /\ Adjust(mg, t, f, r, k) \in Drafts
      /\ Adjust(mg, t, f, r, k)[u].free = mg[u].free + At(u, t, f)
      /\ Adjust(mg, t, f, r, k)[u].reserved = mg[u].reserved + At(u, t, r)
      /\ Adjust(mg, t, f, r, k)[u].locked = mg[u].locked + At(u, t, k)
      /\ mg[u].free \in Int /\ mg[u].reserved \in Int /\ mg[u].locked \in Int
  BY AdjustAt
<1>2. /\ At(u, t, f + r + k) = At(u, t, f) + At(u, t, r) + At(u, t, k)
      /\ At(u, t, f) \in Int /\ At(u, t, r) \in Int /\ At(u, t, k) \in Int
  BY DEF At
<1> QED BY <1>1, <1>2 DEF Worth

(* One leg of a match costs its owner the fee. *)
LEMMA LegWorth ==
  ASSUME NEW mg \in Drafts, NEW i \in Intents, i.remaining # 0, NEW fee \in Nat, NEW u \in Traders
  PROVE  /\ Leg(mg, i, fee) \in Drafts
         /\ Worth(Leg(mg, i, fee), u) = Worth(mg, u) + At(u, i.owner, -fee)
         /\ Worth(mg, u) \in Int
<1> DEFINE x == FeeRelease(i)
<1>1. x \in Nat /\ i.owner \in Traders /\ Bucket \in Nat
  BY FeeReleaseType, InstrumentAssumption DEF Intents
<1>2. Leg(mg, i, fee) = Adjust(mg, i.owner, x - fee, -(Bucket + x), Bucket)
  BY DEF Leg
<1> HIDE DEF x
<1>3. /\ x - fee \in Int /\ -(Bucket + x) \in Int /\ Bucket \in Int
      /\ (x - fee) + (-(Bucket + x)) + Bucket = -fee
  BY <1>1
<1>4. /\ Leg(mg, i, fee) \in Drafts
      /\ Worth(Leg(mg, i, fee), u)
           = Worth(mg, u) + At(u, i.owner, (x - fee) + (-(Bucket + x)) + Bucket)
      /\ Worth(mg, u) \in Int
  BY <1>1, <1>2, <1>3, AdjustWorth
<1> QED BY <1>3, <1>4

(* A match costs one of its two sides the fee: the one that came later. *)
LEMMA MatchMoves ==
  ASSUME NEW mg \in Drafts, NEW bk \in SUBSET Intents, NEW id \in Nat, NEW seq,
         UniqueBook(bk, id, seq), \A i \in bk : 0 < i.price /\ i.price < PRICE_ONE,
         NEW l \in bk, NEW s \in bk, NEW bps \in MatchBps,
         MatchPairCore(mg, bk, id, l, s, bps)
  PROVE  \E payer \in {l.owner, s.owner} : \A u \in Traders :
           Worth(margin', u) = Worth(mg, u) - At(u, payer, TakerFee(bps))
<1> DEFINE x == FeeOf(l, s, bps)
           z == FeeOf(s, l, bps)
           al == Leg(mg, l, x)
           fee == TakerFee(bps)
<1>1. l # s /\ l.remaining # 0 /\ s.remaining # 0
  BY MatchNeeds
<1>2. margin' = Leg(al, s, z)
  BY DEF MatchPairCore, AfterBoth, AfterLong
<1>3. x \in Nat /\ z \in Nat /\ fee \in Nat
  BY FeeOfType, AmountTypes
<1>4. (x = fee /\ z = 0) \/ (x = 0 /\ z = fee)
  <2>1. l.seq \in Nat /\ s.seq \in Nat /\ l.seq # s.seq
    BY <1>1 DEF Intents, UniqueBook
  <2> QED BY <2>1 DEF FeeOf
<1> HIDE DEF x, z, fee
<1>5. ASSUME NEW u \in Traders
      PROVE  /\ Worth(margin', u) = Worth(mg, u) + At(u, l.owner, -x) + At(u, s.owner, -z)
             /\ Worth(mg, u) \in Int
  <2>1. al \in Drafts /\ Worth(al, u) = Worth(mg, u) + At(u, l.owner, -x) /\ Worth(mg, u) \in Int
    BY <1>1, <1>3, LegWorth
  <2> HIDE DEF al
  <2> QED BY <1>1, <1>2, <1>3, <2>1, LegWorth
<1> HIDE DEF al
<1>6. CASE x = fee /\ z = 0
  <2>1. \A u \in Traders : Worth(margin', u) = Worth(mg, u) - At(u, l.owner, fee)
    BY <1>3, <1>5, <1>6 DEF At
  <2> QED BY <2>1 DEF fee
<1>7. CASE x = 0 /\ z = fee
  <2>1. \A u \in Traders : Worth(margin', u) = Worth(mg, u) - At(u, s.owner, fee)
    BY <1>3, <1>5, <1>7 DEF At
  <2> QED BY <2>1 DEF fee
<1> QED BY <1>4, <1>6, <1>7

(* What the invariant says of the accounts' types. *)
LEMMA LedgerTypes ==
  ASSUME LedgerInv, LedgerInv'
  PROVE  /\ margin \in [Traders -> Balances] /\ margin \in Drafts
         /\ margin' \in [Traders -> Balances]
         /\ vault \in Nat /\ accrued \in Nat
BY BalancesDrafts DEF LedgerInv, TypeInv, TypeOK

(* A bounty of at most 2c is paid out of what the position holds. *)
LEMMA BountyFits ==
  ASSUME LiquidationBountyBps <= 2 * BPS_DENOM
  PROVE  Bounty <= 2 * Bucket
<1> DEFINE a == Bucket * LiquidationBountyBps
<1>1. Bucket \in Nat /\ LiquidationBountyBps \in Nat /\ BPS_DENOM \in Nat \ {0}
  BY InstrumentAssumption, ScalesAssumption
<1>2. a \in Nat /\ a <= (2 * Bucket) * BPS_DENOM
  BY <1>1
<1> HIDE DEF a
<1>3. a \div BPS_DENOM \in Nat /\ BPS_DENOM * (a \div BPS_DENOM) <= a
  BY <1>1, <1>2, DivNat
<1> DEFINE q == a \div BPS_DENOM
<1>4. q \in Nat /\ BPS_DENOM * q <= (2 * Bucket) * BPS_DENOM
  BY <1>1, <1>2, <1>3
<1> HIDE DEF q
<1>5. q <= 2 * Bucket
  BY <1>1, <1>4
<1>6. Bounty = q
  BY DEF Bounty, Bps, a, q
<1> QED BY <1>5, <1>6

(* What a settlement of p moves. *)
SettleMoves(p) ==
  \E keeper \in Traders, long \in Nat, short \in Nat, bounty \in Nat :
    /\ bounty \in {0, Bounty} /\ long + short + bounty = 2 * Bucket
    /\ \A u \in Traders :
         Worth(margin', u) = Worth(margin, u) + At(u, p.long, long - Bucket)
                               + At(u, p.short, short - Bucket) + At(u, keeper, bounty)

(* A settlement pays out the two stakes, and no more, between owners and keeper. *)
LEMMA SettlingMoves ==
  ASSUME LedgerInv, Settling, LiquidationBountyBps <= 2 * BPS_DENOM
  PROVE  \E p \in pmlcs, status \in Terminal :
           /\ p.status = "live" /\ p.long # p.short
           /\ Replace(p, [p EXCEPT !.status = status])
           /\ SettleMoves(p)
           /\ UNCHANGED <<vault, accrued>>
<1>1. PICK p \in pmlcs, status \in Terminal, keeper \in Traders,
           long \in Nat, short \in Nat, bounty \in Nat :
        /\ p.status = "live" /\ p.long # p.short
        /\ Replace(p, [p EXCEPT !.status = status])
        /\ Pays(p, keeper, long, short, bounty)
        /\ UNCHANGED <<vault, accrued, book>>
  BY SettlingPays
<1>2. bounty \in {0, Bounty} /\ long + short + bounty = 2 * Bucket
  BY <1>1, BountyFits DEF Pays
<1>3. ASSUME NEW u \in Traders
      PROVE  Worth(margin', u) = Worth(margin, u) + At(u, p.long, long - Bucket)
                                   + At(u, p.short, short - Bucket) + At(u, keeper, bounty)
  <2>1. /\ margin'[u].free = margin[u].free + At(u, p.long, long) + At(u, p.short, short)
                               + At(u, keeper, bounty)
        /\ margin'[u].reserved = margin[u].reserved
        /\ margin'[u].locked = margin[u].locked - At(u, p.long, Bucket) - At(u, p.short, Bucket)
    BY <1>1 DEF Pays
  <2>2. margin[u].free \in Nat /\ margin[u].reserved \in Nat /\ margin[u].locked \in Nat
    BY LedgerFacts DEF Balances
  <2>3. Bucket \in Nat
    BY InstrumentAssumption
  <2>4. /\ At(u, p.long, long - Bucket) = At(u, p.long, long) - At(u, p.long, Bucket)
        /\ At(u, p.short, short - Bucket) = At(u, p.short, short) - At(u, p.short, Bucket)
        /\ At(u, p.long, long) \in Int /\ At(u, p.long, Bucket) \in Int
        /\ At(u, p.short, short) \in Int /\ At(u, p.short, Bucket) \in Int
        /\ At(u, keeper, bounty) \in Int
    BY <2>3 DEF At
  <2> QED BY <2>1, <2>2, <2>4 DEF Worth
<1>4. SettleMoves(p)
  BY <1>2, <1>3 DEF SettleMoves
<1> QED BY <1>1, <1>4

-----------------------------------------------------------------------------
(* What each handler does is a step of Custody, or nothing *)

Keeps == Promise!Step \/ UNCHANGED Promise!vars

(* Nothing happens to wealth and live positions. *)
LEMMA CustodyIdle ==
  ASSUME \A u \in Traders : Worth(margin', u) = Worth(margin, u),
         LivePmlcs' = LivePmlcs, UNCHANGED <<vault, accrued>>
  PROVE  Keeps
<1>1. Wealth' = Wealth
  BY WealthIsWorth
<1> HIDE DEF Wealth, LivePmlcs
<1>2. UNCHANGED <<vault, Wealth, accrued, LivePmlcs>>
  BY <1>1
<1> QED BY <1>2 DEF Keeps, Promise!vars

(* An account keeps its worth when what it loses in one balance it gains in   *)
(* another.                                                                   *)
LEMMA Reshuffle ==
  ASSUME NEW mg \in Drafts, NEW t \in Traders, NEW f \in Int, NEW r \in Int, f + r = 0
  PROVE  /\ Adjust(mg, t, f, r, 0) \in Drafts
         /\ \A u \in Traders : Worth(Adjust(mg, t, f, r, 0), u) = Worth(mg, u)
<1>1. 0 \in Int /\ f + r + 0 = 0
  OBVIOUS
<1>2. ASSUME NEW u \in Traders
      PROVE  /\ Adjust(mg, t, f, r, 0) \in Drafts
             /\ Worth(Adjust(mg, t, f, r, 0), u) = Worth(mg, u) + At(u, t, 0)
             /\ Worth(mg, u) \in Int
  BY <1>1, AdjustWorth
<1> QED BY <1>2 DEF At

(* Deposits and withdrawals move the vault and one account, a sweep the vault *)
(* and the treasury.                                                          *)
LEMMA AccountsCustody ==
  ASSUME LedgerInv, LedgerInv', Accounts
  PROVE  Keeps
<1>t. margin \in Drafts /\ vault \in Nat /\ accrued \in Nat
  BY LedgerTypes
<1>1. ASSUME NEW t \in Traders, NEW x \in Int, margin' = Adjust(margin, t, x, 0, 0)
      PROVE  Wealth' = [Wealth EXCEPT ![t] = @ + x]
  <2>1. 0 \in Int /\ x + 0 + 0 = x
    BY <1>1
  <2>2. \A u \in Traders : Worth(margin', u) = Worth(margin, u) + At(u, t, x)
                           /\ Worth(margin, u) \in Int
    BY <1>t, <1>1, <2>1, AdjustWorth
  <2>3. \A u \in Traders : Wealth'[u] = (IF u = t THEN Wealth[u] + x ELSE Wealth[u])
    BY <2>2, WealthIsWorth DEF At
  <2> DEFINE w == Wealth
             v == Wealth'
  <2>4. /\ w = [u \in Traders |-> w[u]] /\ v = [u \in Traders |-> v[u]]
        /\ \A u \in Traders : v[u] = (IF u = t THEN w[u] + x ELSE w[u])
    BY <2>3, WealthIsWorth
  <2> HIDE DEF w, v
  <2>5. v = [w EXCEPT ![t] = @ + x]
    BY <2>4
  <2> QED BY <2>5 DEF w, v
<1>2. ASSUME NEW t \in Traders, NEW amount \in Amounts, Deposit(t, amount) PROVE Keeps
  <2>1. /\ amount \in Nat /\ amount > 0
        /\ margin' = Adjust(margin, t, amount, 0, 0)
        /\ vault' = vault + amount /\ accrued' = accrued /\ pmlcs' = pmlcs
    BY <1>2, InputsAssumption DEF Deposit
  <2>2. Wealth' = [Wealth EXCEPT ![t] = @ + amount] /\ LivePmlcs' = LivePmlcs
    BY <1>1, <2>1 DEF LivePmlcs
  <2>3. vault' - vault = amount /\ vault' > vault
    BY <1>t, <2>1
  <2> HIDE DEF Wealth, LivePmlcs
  <2>4. Promise!Deposit(t)
    BY <2>1, <2>2, <2>3 DEF Promise!Deposit
  <2> QED BY <2>4 DEF Keeps, Promise!Step
<1>3. ASSUME NEW t \in Traders, NEW amount \in Amounts, Withdraw(t, amount) PROVE Keeps
  <2>1. /\ amount \in Nat /\ -amount \in Int /\ amount > 0
        /\ margin' = Adjust(margin, t, -amount, 0, 0)
        /\ vault' = vault - amount /\ accrued' = accrued /\ pmlcs' = pmlcs
    BY <1>3, InputsAssumption DEF Withdraw
  <2>2. Wealth' = [Wealth EXCEPT ![t] = @ + (-amount)] /\ LivePmlcs' = LivePmlcs
    BY <1>1, <2>1 DEF LivePmlcs
  <2>3. vault - vault' = amount /\ vault' < vault
    BY <1>t, <2>1
  <2>4. Wealth[t] \in Int /\ Wealth[t] + (-amount) = Wealth[t] - amount
    BY <1>t, <2>1 DEF Wealth, Drafts
  <2> HIDE DEF Wealth, LivePmlcs
  <2>5. Wealth' = [Wealth EXCEPT ![t] = @ - amount]
    BY <2>2, <2>4
  <2>6. Promise!Withdraw(t)
    BY <2>1, <2>2, <2>3, <2>5 DEF Promise!Withdraw
  <2> QED BY <2>6 DEF Keeps, Promise!Step
<1>4. ASSUME NEW t \in Traders, CreateMarginAccount(t) PROVE Keeps
  <2>1. UNCHANGED <<margin, vault, accrued, pmlcs>>
    BY <1>4 DEF CreateMarginAccount
  <2> QED BY <2>1, CustodyIdle DEF LivePmlcs
<1>5. ASSUME NEW amount \in Amounts, SweepFees(amount) PROVE Keeps
  <2>1. /\ amount \in Nat /\ amount > 0 /\ amount <= accrued
        /\ vault' = vault - amount /\ accrued' = accrued - amount
        /\ margin' = margin /\ pmlcs' = pmlcs
    BY <1>5, InputsAssumption DEF SweepFees
  <2>2. Wealth' = Wealth /\ LivePmlcs' = LivePmlcs
    BY <2>1 DEF Wealth, LivePmlcs
  <2>3. vault - vault' = amount /\ vault' < vault /\ accrued' >= 0
    BY <1>t, <2>1
  <2> HIDE DEF Wealth, LivePmlcs
  <2>4. Promise!Collect
    BY <2>1, <2>2, <2>3 DEF Promise!Collect
  <2> QED BY <2>4 DEF Keeps, Promise!Step
<1> QED BY <1>2, <1>3, <1>4, <1>5 DEF Accounts

(* A match opens a bet of a fresh id, and one of its two owners pays for it. *)
LEMMA MatchCustody ==
  ASSUME NEW mg \in Drafts, \A u \in Traders : Worth(mg, u) = Worth(margin, u),
         NEW bk \in SUBSET Intents, NEW id \in Nat, NEW seq,
         UniqueBook(bk, id, seq), \A i \in bk : 0 < i.price /\ i.price < PRICE_ONE,
         NEW l \in bk, NEW s \in bk, NEW bps \in MatchBps,
         MatchPairCore(mg, bk, id, l, s, bps),
         \A p \in pmlcs : p.id # id, UNCHANGED vault
  PROVE  Keeps
<1> DEFINE q == NewPmlc(id, l, s)
           fee == TakerFee(bps)
<1> HIDE DEF q
<1>1. /\ l.owner \in Traders /\ s.owner \in Traders
      /\ q.id = id /\ q.status = "live" /\ q.long = l.owner /\ q.short = s.owner
      /\ pmlcs' = pmlcs \cup {q}
  <2>1. l.owner \in Traders /\ s.owner \in Traders
    BY MatchNeeds
  <2>2. q.id = id /\ q.status = "live"
    BY MatchNeeds DEF q
  <2>3. q.long = l.owner /\ q.short = s.owner
    BY MatchNeeds DEF q
  <2>4. pmlcs' = pmlcs \cup {q}
    BY DEF MatchPairCore, q
  <2> QED BY <2>1, <2>2, <2>3, <2>4
<1>2. PICK payer \in {l.owner, s.owner} : \A u \in Traders :
        Worth(margin', u) = Worth(mg, u) - At(u, payer, fee)
  BY MatchMoves
<1>3. accrued' = accrued + fee
  BY DEF MatchPairCore
<1> HIDE DEF fee
<1>4. LivePmlcs' = LivePmlcs \cup {q} /\ q \in LivePmlcs' \ LivePmlcs
  BY <1>1 DEF LivePmlcs
<1>5. \A b \in LivePmlcs : b.id # q.id
  BY <1>1 DEF LivePmlcs
<1>6. Wealth' = [t \in Traders |-> Wealth[t] - Promise!Gain(t, payer, fee)]
  <2>1. \A t \in Traders : Wealth'[t] = Wealth[t] - Promise!Gain(t, payer, fee)
    BY <1>2, WealthIsWorth DEF Promise!Gain, At
  <2> HIDE DEF Wealth
  <2> QED BY <2>1, WealthIsWorth
<1> HIDE DEF Wealth, LivePmlcs
<1>7. Promise!Open(q, payer, fee)
  BY <1>1, <1>2, <1>3, <1>4, <1>5, <1>6 DEF Promise!Open
<1>8. payer \in Traders /\ fee \in {TakerFee(b) : b \in MatchBps}
  BY <1>1, <1>2 DEF fee
<1>9. Promise!Step
  BY <1>4, <1>7, <1>8, Zenon DEF Promise!Step
<1> QED BY <1>9 DEF Keeps

(* A post moves its owner's collateral between free and reserved; if it is    *)
(* matched, the match is all that Custody sees.                               *)
LEMMA PostingCustody ==
  ASSUME LedgerInv, LedgerInv', Posting, ~InlineMatchCanFail
  PROVE  Keeps
<1>t. margin \in Drafts
  BY LedgerTypes
<1>1. PICK t \in Traders, n \in Nat, pruned \in SUBSET book, i \in Intents :
        /\ PostFrame(t, n, pruned, i)
        /\ Rests(t, n, pruned, i) \/ IsMatched(t, n, pruned, i)
  BY PostingForms DEF LedgerInv, IsLost
<1> DEFINE mg == PostMargin(t, n, pruned)
           bk == Posted(pruned, i)
           id == nextId + 1
<1>2. /\ mg \in Drafts /\ bk \in SUBSET Intents
      /\ UniqueBook(bk, id, nextSeq + 1)
      /\ \A j \in bk : 0 < j.price /\ j.price < PRICE_ONE
  BY <1>1, SlackPosted DEF IdsApart
<1>3. id \in Nat /\ UNCHANGED vault /\ \A p \in pmlcs : p.id # id
  <2>1. id \in Nat /\ id >= nextId /\ UNCHANGED vault
    BY <1>1, LedgerFacts DEF PostFrame
  <2> HIDE DEF id
  <2> QED BY <2>1, NextIdFree DEF LedgerInv
<1>4. \A u \in Traders : Worth(mg, u) = Worth(margin, u)
  <2> DEFINE e == EscrowOf(pruned)
             o == Outlay(n)
  <2>1. e \in Nat /\ o \in Nat
    <3>1. pruned \in SUBSET Intents /\ IsFiniteSet(pruned)
      BY LedgerFacts, FS_Subset
    <3> QED BY <3>1, EscrowType, AmountTypes
  <2>2. mg = Adjust(margin, t, e - o, o - e, 0)
    BY DEF PostMargin
  <2> HIDE DEF e, o, mg
  <2>3. e - o \in Int /\ o - e \in Int /\ (e - o) + (o - e) = 0
    BY <2>1
  <2> QED BY <1>t, <2>2, <2>3, Reshuffle
<1>5. CASE Rests(t, n, pruned, i)
  <2>1. margin' = mg /\ UNCHANGED <<vault, accrued>> /\ LivePmlcs' = LivePmlcs
    BY <1>3, <1>5 DEF Rests, LivePmlcs
  <2> HIDE DEF mg
  <2> QED BY <1>4, <2>1, CustodyIdle
<1>6. CASE IsMatched(t, n, pruned, i)
  <2>1. PICK l \in bk, s \in bk, bps \in MatchBps : MatchPairCore(mg, bk, id, l, s, bps)
    BY <1>6 DEF IsMatched
  <2> HIDE DEF mg, bk, id
  <2> QED BY <1>2, <1>3, <1>4, <2>1, MatchCustody
<1> QED BY <1>1, <1>5, <1>6

(* Matches of resting intents. *)
LEMMA MatchingCustody ==
  ASSUME LedgerInv, Matching
  PROVE  Keeps
<1>1. PICK l \in book, s \in book, bps \in MatchBps :
        MatchPairCore(margin, book, nextId, l, s, bps)
  BY MatchingForm
<1>2. /\ margin \in Drafts /\ book \in SUBSET Intents /\ nextId \in Nat
      /\ UniqueBook(book, nextId, nextSeq)
      /\ \A i \in book : 0 < i.price /\ i.price < PRICE_ONE
  BY LedgerFacts DEF LedgerInv, TypeInv, PricesValid
<1>3. UNCHANGED vault /\ \A p \in pmlcs : p.id # nextId
  BY <1>2, MatchingForm, NextIdFree DEF LedgerInv
<1> QED BY <1>1, <1>2, <1>3, MatchCustody

(* Cancelling and pruning give back to the owner what was reserved. *)
LEMMA LeavingCustody ==
  ASSUME LedgerInv, Leaving
  PROVE  Keeps
<1>t. /\ margin \in [Traders -> Balances] /\ margin \in Drafts
      /\ book \in SUBSET Intents /\ IsFiniteSet(book)
  BY LedgerFacts
<1>1. ASSUME NEW caller \in Traders, NEW i \in book, CancelIntent(caller, i) PROVE Keeps
  <2> DEFINE e == Escrow(i)
  <2>1. /\ margin' = Adjust(margin, i.owner, e, -e, 0) /\ UNCHANGED <<vault, accrued, pmlcs>>
        /\ i.owner \in Traders
    BY <1>t, <1>1 DEF CancelIntent, Intents
  <2>2. e \in Int /\ -e \in Int /\ e + (-e) = 0
    BY <1>t DEF Escrow, Intents
  <2> HIDE DEF e
  <2>3. \A u \in Traders : Worth(margin', u) = Worth(margin, u)
    BY <1>t, <2>1, <2>2, Reshuffle
  <2> QED BY <2>1, <2>3, CustodyIdle DEF LivePmlcs
<1>2. ASSUME NEW S \in SUBSET book, PruneExpired(S) PROVE Keeps
  <2>1. ASSUME NEW u \in Traders PROVE Worth(margin', u) = Worth(margin, u)
    <3>1. /\ margin'[u].free = margin[u].free + Held(S, u)
          /\ margin'[u].reserved = margin[u].reserved - Held(S, u)
          /\ margin'[u].locked = margin[u].locked
      BY <1>2 DEF PruneExpired, Held
    <3>2. Held(S, u) \in Nat
      BY <1>t, HeldSplit
    <3>3. margin[u].free \in Nat /\ margin[u].reserved \in Nat /\ margin[u].locked \in Nat
      BY <1>t DEF Balances
    <3> QED BY <3>1, <3>2, <3>3 DEF Worth
  <2>2. UNCHANGED <<vault, accrued, pmlcs>>
    BY <1>2 DEF PruneExpired
  <2> QED BY <2>1, <2>2, CustodyIdle DEF LivePmlcs
<1> QED BY <1>1, <1>2 DEF Leaving

(* A settlement takes a position off and divides its stakes. *)
LEMMA SettlingCustody ==
  ASSUME LedgerInv, Settling, LiquidationBountyBps <= 2 * BPS_DENOM
  PROVE  Keeps
<1>1. PICK p \in pmlcs, status \in Terminal :
        /\ p.status = "live" /\ p.long # p.short
        /\ Replace(p, [p EXCEPT !.status = status])
        /\ SettleMoves(p)
        /\ UNCHANGED <<vault, accrued>>
  BY SettlingMoves
<1>2. PICK keeper \in Traders, long \in Nat, short \in Nat, bounty \in Nat :
        /\ bounty \in {0, Bounty} /\ long + short + bounty = 2 * Bucket
        /\ \A u \in Traders :
             Worth(margin', u) = Worth(margin, u) + At(u, p.long, long - Bucket)
                                   + At(u, p.short, short - Bucket) + At(u, keeper, bounty)
  BY <1>1 DEF SettleMoves
<1>3. LivePmlcs' = LivePmlcs \ {p} /\ p \in LivePmlcs
  <2>1. p \in Pmlcs /\ [p EXCEPT !.status = status].status # "live"
    BY LedgerFacts DEF Pmlcs, Terminal
  <2> QED BY <1>1, <2>1 DEF LivePmlcs, Replace
<1>4. long \in 0..(2 * Bucket) /\ short \in 0..(2 * Bucket)
  BY <1>2, InstrumentAssumption
<1>5. Wealth' = [t \in Traders |->
                   Wealth[t] + Promise!Gain(t, p.long, long - Bucket)
                             + Promise!Gain(t, p.short, short - Bucket)
                             + Promise!Gain(t, keeper, bounty)]
  <2>1. \A t \in Traders :
          Wealth'[t] = Wealth[t] + Promise!Gain(t, p.long, long - Bucket)
                                 + Promise!Gain(t, p.short, short - Bucket)
                                 + Promise!Gain(t, keeper, bounty)
    BY <1>2, WealthIsWorth DEF Promise!Gain, At
  <2> HIDE DEF Wealth
  <2> QED BY <2>1, WealthIsWorth
<1> HIDE DEF Wealth, LivePmlcs
<1>6. Promise!Settle(p, long, short, keeper, bounty)
  BY <1>1, <1>2, <1>3, <1>5 DEF Promise!Settle
<1>7. Promise!Step
  BY <1>2, <1>3, <1>4, <1>6, Zenon DEF Promise!Step
<1> QED BY <1>7 DEF Keeps

(* The new owner of a side pays the old one, and has the side. *)
LEMMA TransferCustody ==
  ASSUME LedgerInv, NEW p \in pmlcs, p.status = "live", NEW side \in Sides, NEW new \in Traders,
         NEW price \in Int, -Bucket <= price, price <= Bucket,
         Replace(p, WithOwner(p, side, new)), UNCHANGED <<vault, accrued>>,
         \A u \in Traders :
           Worth(margin', u) = Worth(margin, u) + At(u, OwnerOf(p, side), price) - At(u, new, price)
  PROVE  Keeps
<1>1. /\ p \in LivePmlcs /\ side \in {"long", "short"}
      /\ price \in (-Bucket)..Bucket
  BY InstrumentAssumption DEF LivePmlcs, Sides
<1>2. /\ OwnerOf(p, side) = p[side] /\ WithOwner(p, side, new) = [p EXCEPT ![side] = new]
      /\ WithOwner(p, side, new).status = "live"
  <2>1. p \in Pmlcs
    BY LedgerFacts
  <2>2. CASE side = "long"
    BY <2>1, <2>2 DEF OwnerOf, WithOwner, Pmlcs
  <2>3. CASE side = "short"
    BY <2>1, <2>3 DEF OwnerOf, WithOwner, Pmlcs
  <2> QED BY <2>2, <2>3 DEF Sides
<1>3. LivePmlcs' = (LivePmlcs \ {p}) \cup {[p EXCEPT ![side] = new]}
  <2> DEFINE q == WithOwner(p, side, new)
  <2>1. q.status = "live" /\ pmlcs' = (pmlcs \ {p}) \cup {q}
    BY <1>2 DEF Replace
  <2> HIDE DEF q
  <2>2. LivePmlcs' = (LivePmlcs \ {p}) \cup {q}
    BY <2>1 DEF LivePmlcs
  <2> QED BY <1>2, <2>2 DEF q
<1>4. Wealth' = [t \in Traders |->
                   Wealth[t] + Promise!Gain(t, p[side], price) - Promise!Gain(t, new, price)]
  <2>1. \A t \in Traders :
          Wealth'[t] = Wealth[t] + Promise!Gain(t, p[side], price) - Promise!Gain(t, new, price)
    BY <1>2, WealthIsWorth DEF Promise!Gain, At
  <2> HIDE DEF Wealth
  <2> QED BY <2>1, WealthIsWorth
<1> HIDE DEF Wealth, LivePmlcs
<1>5. Promise!Transfer(p, side, new, price)
  BY <1>3, <1>4 DEF Promise!Transfer
<1>6. Promise!Step
  BY <1>1, <1>5, Zenon DEF Promise!Step
<1> QED BY <1>6 DEF Keeps

(* A novation transfers a side for nothing, a substitution for its profit. *)
LEMMA TransferringCustody ==
  ASSUME LedgerInv, Transferring
  PROVE  Keeps
<1>t. /\ book \in SUBSET Intents /\ Bucket \in Nat
      /\ \A u \in Traders : /\ margin[u].free \in Nat /\ margin[u].reserved \in Nat
                            /\ margin[u].locked \in Nat
  BY LedgerFacts, InstrumentAssumption DEF Balances
<1>1. ASSUME NEW p \in pmlcs, NEW side \in Sides, NEW new \in Traders, Novate(p, side, new)
      PROVE  Keeps
  <2> DEFINE old == OwnerOf(p, side)
  <2>1. /\ p.status = "live" /\ Replace(p, WithOwner(p, side, new))
        /\ UNCHANGED <<vault, accrued>>
    BY <1>1 DEF Novate
  <2>2. ASSUME NEW u \in Traders
        PROVE  Worth(margin', u) = Worth(margin, u) + At(u, old, 0) - At(u, new, 0)
    <3>1. /\ margin'[u].free = margin[u].free + At(u, old, Bucket) - At(u, new, Bucket)
          /\ margin'[u].reserved = margin[u].reserved
          /\ margin'[u].locked = margin[u].locked - At(u, old, Bucket) + At(u, new, Bucket)
      BY <1>1, NovateAt
    <3> HIDE DEF old
    <3>2. /\ At(u, old, Bucket) \in Int /\ At(u, new, Bucket) \in Int
          /\ At(u, old, 0) = 0 /\ At(u, new, 0) = 0
      BY <1>t DEF At
    <3> QED BY <1>t, <3>1, <3>2 DEF Worth
  <2>3. 0 \in Int /\ -Bucket <= 0 /\ 0 <= Bucket
    BY <1>t
  <2> QED BY <2>1, <2>2, <2>3, TransferCustody
<1>2. ASSUME NEW p \in pmlcs, NEW sub \in Traders, NEW l \in book, NEW s \in book,
             NEW withSettle \in BOOLEAN, Substitute(p, sub, l, s, withSettle)
      PROVE  Keeps
  <2>1. /\ l \in Intents /\ s \in Intents /\ l.remaining # 0 /\ s.remaining # 0
        /\ p.status = "live" /\ UNCHANGED <<vault, accrued>>
    BY <1>2, SubstituteNeeds
  <2>2. PICK mine \in book, theirs \in book, side \in Sides, delta \in Int :
          Swaps(p, l, s, mine, theirs, side, delta)
    BY <1>2, SubstituteSwaps
  <2> DEFINE a == mine.owner
             b == theirs.owner
             x == FeeRelease(mine)
             y == FeeRelease(theirs)
  <2>3. /\ mine \in {l, s} /\ theirs \in {l, s}
        /\ OwnerOf(p, side) = a /\ Replace(p, WithOwner(p, side, b))
        /\ -Bucket <= delta /\ delta <= Bucket
        /\ \A u \in Traders :
             /\ margin'[u].free = margin[u].free + At(u, a, 2 * Bucket + x + delta)
                                    + At(u, b, y - delta)
             /\ margin'[u].reserved = margin[u].reserved - At(u, a, Bucket + x)
                                        - At(u, b, Bucket + y)
             /\ margin'[u].locked = margin[u].locked - At(u, a, Bucket) + At(u, b, Bucket)
    BY <2>2 DEF Swaps, Taken
  <2>4. x \in Nat /\ y \in Nat /\ a \in Traders /\ b \in Traders
    BY <2>1, <2>3, FeeReleaseType DEF Intents
  <2> HIDE DEF a, b, x, y
  <2>5. ASSUME NEW u \in Traders
        PROVE  Worth(margin', u) = Worth(margin, u) + At(u, a, delta) - At(u, b, delta)
    <3>1. /\ At(u, a, 2 * Bucket + x + delta) - At(u, a, Bucket + x) - At(u, a, Bucket)
               = At(u, a, delta)
          /\ At(u, b, y - delta) - At(u, b, Bucket + y) + At(u, b, Bucket) = -At(u, b, delta)
          /\ At(u, a, 2 * Bucket + x + delta) \in Int /\ At(u, a, Bucket + x) \in Int
          /\ At(u, a, Bucket) \in Int /\ At(u, b, y - delta) \in Int
          /\ At(u, b, Bucket + y) \in Int /\ At(u, b, Bucket) \in Int
          /\ At(u, a, delta) \in Int /\ At(u, b, delta) \in Int
      BY <1>t, <2>4 DEF At
    <3> QED BY <1>t, <2>3, <3>1 DEF Worth
  <2>6. \A u \in Traders :
          Worth(margin', u)
            = Worth(margin, u) + At(u, OwnerOf(p, side), delta) - At(u, b, delta)
    BY <2>3, <2>5, Zenon
  <2> QED BY <2>1, <2>3, <2>4, <2>6, TransferCustody
<1> QED BY <1>1, <1>2 DEF Transferring

(* A claim reserves what its owner has free, and only for a position that has *)
(* ended; nor does the closing of its account touch a live one.               *)
LEMMA EndingCustody ==
  ASSUME LedgerInv, Ending
  PROVE  Keeps
<1>t. margin \in Drafts /\ pmlcs \in SUBSET Pmlcs
  BY LedgerFacts
<1>r. ASSUME NEW p \in pmlcs, NEW side \in Sides, p.status \in Terminal,
             Replace(p, WithoutReentry(p, side))
      PROVE  LivePmlcs' = LivePmlcs
  <2> DEFINE q == WithoutReentry(p, side)
  <2>1. p.status # "live" /\ q.status = p.status
    BY <1>t, <1>r DEF Terminal, WithoutReentry, Pmlcs
  <2>2. pmlcs' = (pmlcs \ {p}) \cup {q}
    BY <1>r DEF Replace
  <2> HIDE DEF q
  <2> QED BY <2>1, <2>2 DEF LivePmlcs
<1>1. ASSUME NEW p \in pmlcs, ClosePmlc(p) PROVE Keeps
  <2>1. UNCHANGED <<margin, vault, accrued>> /\ LivePmlcs' = LivePmlcs
    BY <1>1 DEF ClosePmlc, ledger, LivePmlcs, Terminal
  <2> QED BY <2>1, CustodyIdle
<1>2. ASSUME NEW p \in pmlcs, NEW side \in Sides, NEW expiration \in Expirations,
             ClaimReentryUnfunded(p, side, expiration) PROVE Keeps
  <2>1. /\ UNCHANGED <<margin, vault, accrued>>
        /\ p.status \in Terminal /\ Replace(p, WithoutReentry(p, side))
    BY <1>2 DEF ClaimReentryUnfunded, CanClaim, ledger
  <2>2. LivePmlcs' = LivePmlcs
    BY <1>r, <2>1
  <2> QED BY <2>1, <2>2, CustodyIdle
<1>3. ASSUME NEW p \in pmlcs, NEW side \in Sides, NEW expiration \in Expirations,
             ClaimReentry(p, side, expiration) PROVE Keeps
  <2>1. PICK t \in Traders, n \in Nat :
          /\ margin' = Adjust(margin, t, -Outlay(n), Outlay(n), 0)
          /\ p.status \in Terminal /\ Replace(p, WithoutReentry(p, side))
          /\ UNCHANGED <<vault, accrued>>
    BY <1>3, ClaimForm DEF LedgerInv
  <2> DEFINE o == Outlay(n)
  <2>2. o \in Nat /\ margin' = Adjust(margin, t, -o, o, 0)
    BY <2>1, AmountTypes
  <2> HIDE DEF o
  <2>3. -o \in Int /\ o \in Int /\ (-o) + o = 0
    BY <2>2
  <2>4. \A u \in Traders : Worth(margin', u) = Worth(margin, u)
    BY <1>t, <2>2, <2>3, Reshuffle
  <2>5. LivePmlcs' = LivePmlcs
    BY <1>r, <2>1
  <2> QED BY <2>1, <2>4, <2>5, CustodyIdle
<1> QED BY <1>1, <1>2, <1>3 DEF Ending

(* The administrators and the clock touch no account. *)
LEMMA ElsewhereCustody ==
  ASSUME Administering \/ UNCHANGED vars
  PROVE  Keeps
<1>1. UNCHANGED <<margin, vault, accrued, pmlcs>>
  BY DEF Administering, SetGlobalPause, SetInstrumentStatus, Tick, vars, ledger
<1> QED BY <1>1, CustodyIdle DEF LivePmlcs

(* Every step is one of Custody's, under the two hypotheses. *)
LEMMA CustodyStep ==
  ASSUME ~InlineMatchCanFail, LiquidationBountyBps <= 2 * BPS_DENOM, LedgerInv, [Next]_vars
  PROVE  Keeps
<1>1. LedgerInv'
  BY LedgerStep
<1>2. CASE UNCHANGED vars
  BY <1>2, ElsewhereCustody
<1>3. CASE Next
  BY <1>1, <1>3, AccountsCustody, PostingCustody, LeavingCustody, MatchingCustody,
     SettlingCustody, TransferringCustody, EndingCustody, ElsewhereCustody DEF Next
<1> QED BY <1>2, <1>3

(* An account that has the stakes of its sides locked is worth them. *)
LEMMA StakesCovered == LedgerInv /\ BalancesCover => Promise!Collateralised
<1> SUFFICES ASSUME LedgerInv, BalancesCover, NEW t \in Traders
             PROVE  Wealth[t] >= Bucket * Promise!SidesOf(t)
  BY DEF Promise!Collateralised
<1>1. /\ {b \in LivePmlcs : b.long = t} = LongsOf(t)
      /\ {b \in LivePmlcs : b.short = t} = ShortsOf(t)
  BY DEF LivePmlcs, LongsOf, ShortsOf
<1>2. Bucket * Promise!SidesOf(t) = Stake(t)
  <2>1. \A S : Promise!Cardinality(S) = Cardinality(S)
    BY Zenon DEF Promise!Cardinality, Cardinality
  <2> QED BY <1>1, <2>1 DEF Promise!SidesOf, Stake
<1>3. /\ margin[t].free \in Nat /\ margin[t].reserved \in Nat /\ margin[t].locked \in Nat
      /\ Wealth[t] = margin[t].free + margin[t].reserved + margin[t].locked
  BY LedgerFacts DEF Balances, Wealth
<1>4. margin[t].locked >= Stake(t) /\ Stake(t) \in Nat
  <2>1. Stake(t) = Staked(pmlcs, t)
    BY DEF Stake, Staked, LongsOf, ShortsOf, Longs, Shorts
  <2>2. Staked(pmlcs, t) \in Nat
    <3>1. Longs(pmlcs, t) \in SUBSET pmlcs /\ Shorts(pmlcs, t) \in SUBSET pmlcs
      BY DEF Longs, Shorts
    <3>2. Cardinality(Longs(pmlcs, t)) \in Nat /\ Cardinality(Shorts(pmlcs, t)) \in Nat
      BY <3>1, LedgerFacts, FS_Subset, FS_CardinalityType
    <3> QED BY <3>2, InstrumentAssumption DEF Staked
  <2> QED BY <2>1, <2>2 DEF BalancesCover
<1> QED BY <1>2, <1>3, <1>4

(* The exchange keeps the promise of Custody: whatever intents are posted,    *)
(* pruned, matched and lost from the book, and however positions change hands *)
(* and end, wealth moves only as deposits, withdrawals, sweeps, fees, sales   *)
(* of a side and divisions of two stakes do, and every account stays worth    *)
(* the stakes of its sides.  The two hypotheses are needed: an inline match   *)
(* that fails half-way loses its reserves, or charges no one the fee it       *)
(* accrues, and a bounty above 2c is paid out of nothing.                     *)
THEOREM CustodyImplemented ==
  ASSUME ~InlineMatchCanFail, LiquidationBountyBps <= 2 * BPS_DENOM
  PROVE  Spec => ImplementsCustody
<1>1. Init => Promise!Init
  BY DEF Init, Promise!Init, Wealth, LivePmlcs
<1>2. LedgerInv /\ Promise!Collateralised' /\ [Next]_vars => [Promise!Next]_(Promise!vars)
  BY CustodyStep DEF Keeps, Promise!Next
<1>3. Spec => []LedgerInv
  BY LedgerInit, LedgerStep, PTL DEF Spec
<1>4. Spec => []BalancesCover
  BY BalancesSuffice
<1>5. LedgerInv /\ BalancesCover => Promise!Collateralised
  BY StakesCovered
<1> QED BY <1>1, <1>2, <1>3, <1>4, <1>5, PTL DEF Spec, ImplementsCustody, Promise!Spec

-----------------------------------------------------------------------------
(* What Custody implies: the vault holds what is owed *)

(* The step moves x to a, z to b and k to c. *)
Moves(a, x, b, z, c, k) ==
  \A u \in Traders : Wealth'[u] = Wealth[u] + At(u, a, x) + At(u, b, z) + At(u, c, k)

(* What becomes of the total when three accounts move, the same account       *)
(* included.                                                                  *)
LEMMA MovesTotal ==
  ASSUME margin \in [Traders -> Balances], margin' \in [Traders -> Balances],
         NEW a \in Traders, NEW x \in Int, NEW b \in Traders, NEW z \in Int,
         NEW c \in Traders, NEW k \in Nat, Moves(a, x, b, z, c, k)
  PROVE  /\ Total(Traders, Wealth') = Total(Traders, Wealth) + k + x + z
         /\ Total(Traders, Wealth) \in Nat
<1> DEFINE m == [u \in Traders |-> Wealth[u] + At(u, c, k)]
<1>2. \A u \in Traders : Wealth'[u] \in Nat /\ Wealth[u] \in Nat
  BY DEF Wealth, Balances
<1>3. \A u \in Traders : m[u] = Wealth[u] + At(u, c, k)
  OBVIOUS
<1> HIDE DEF m
<1>4. \A u \in Traders : m[u] \in Nat /\ Wealth[u] \in Nat
  BY <1>2, <1>3 DEF At
<1>5. \A u \in Traders : Wealth'[u] = m[u] + At(u, a, x) + At(u, b, z)
  BY <1>2, <1>3 DEF Moves, At
<1>6. \A u \in Traders : Wealth'[u] \in Nat /\ m[u] \in Nat
  BY <1>2, <1>4
<1>7. IsFiniteSet(Traders) /\ k \in Int
  BY InstrumentAssumption
<1>8. Total(Traders, Wealth) \in Nat
  BY <1>2, <1>7, TotalType
<1>9. Total(Traders, m) = Total(Traders, Wealth) + k
  <2> DEFINE w == Wealth
  <2>1. Weights(Traders, m) /\ Weights(Traders, w) /\ Shift(Traders, m, w, c, k, c, 0)
    BY <1>3, <1>4 DEF Weights, Shift, At
  <2> HIDE DEF w
  <2>2. Total(Traders, m) = Total(Traders, w) + k
    BY <1>7, <2>1, ShiftOne
  <2> QED BY <2>2 DEF w
<1>10. Total(Traders, Wealth') = Total(Traders, m) + x + z
  <2> DEFINE v == Wealth'
  <2>1. Weights(Traders, m) /\ Weights(Traders, v) /\ Shift(Traders, v, m, a, x, b, z)
    BY <1>5, <1>6 DEF Weights, Shift
  <2> HIDE DEF v
  <2>2. Total(Traders, v) = Total(Traders, m) + x + z
    BY <1>7, <2>1, ShiftTwo
  <2> QED BY <2>2 DEF v
<1> QED BY <1>8, <1>9, <1>10

(* The vault changes by as much as what it owes. *)
Conserves ==
  vault' + Total(Traders, Wealth) + accrued = vault + Total(Traders, Wealth') + accrued'

(* What moves into the accounts and the treasury moves into the vault. *)
LEMMA MovesConserve ==
  ASSUME LedgerInv, LedgerInv',
         NEW a \in Traders, NEW x \in Int, NEW b \in Traders, NEW z \in Int,
         NEW c \in Traders, NEW k \in Nat, Moves(a, x, b, z, c, k),
         NEW f \in Int, accrued' = accrued + f, vault' = vault + (x + z + k + f)
  PROVE  Conserves
<1> DEFINE T == Total(Traders, Wealth)
           Tn == Total(Traders, Wealth')
           d == x + z + k + f
<1>1. margin \in [Traders -> Balances] /\ margin' \in [Traders -> Balances]
      /\ vault \in Nat /\ accrued \in Nat
  BY LedgerTypes
<1>2. Tn = T + k + x + z /\ T \in Nat
  BY <1>1, MovesTotal
<1>3. d \in Int /\ d = x + z + k + f /\ vault' = vault + d
  OBVIOUS
<1> HIDE DEF T, Tn, d
<1>4. (vault + d) + T + accrued = vault + Tn + (accrued + f)
  BY <1>1, <1>2, <1>3
<1>5. vault' + T + accrued = vault + Tn + accrued'
  BY <1>3, <1>4
<1> QED BY <1>5 DEF Conserves, T, Tn

(* Every step of Custody conserves. *)
LEMMA CustodyConserves ==
  ASSUME LedgerInv, LedgerInv', Keeps
  PROVE  Conserves
<1>t. /\ vault \in Nat /\ accrued \in Nat /\ vault' \in Nat /\ accrued' \in Nat /\ Bucket \in Nat
      /\ \A u \in Traders : Wealth[u] \in Nat
      /\ \A p \in LivePmlcs : p.long \in Traders /\ p.short \in Traders
      /\ \A p \in LivePmlcs' : p.long \in Traders /\ p.short \in Traders
  <2>1. /\ margin \in [Traders -> Balances]
        /\ vault \in Nat /\ accrued \in Nat /\ vault' \in Nat /\ accrued' \in Nat
        /\ pmlcs \subseteq Pmlcs /\ pmlcs' \subseteq Pmlcs
    BY DEF LedgerInv, TypeInv, TypeOK
  <2> QED BY <2>1, InstrumentAssumption DEF Wealth, Balances, LivePmlcs, Pmlcs
<1> HIDE DEF Wealth, LivePmlcs
<1>1. ASSUME NEW t \in Traders, NEW x \in Int, NEW f \in Int,
             \A u \in Traders : Wealth'[u] = Wealth[u] + At(u, t, x),
             accrued' = accrued + f, vault' = vault + (x + f)
      PROVE  Conserves
  <2>1. Moves(t, x, t, 0, t, 0)
    BY <1>t, <1>1 DEF Moves, At
  <2>2. vault' = vault + (x + 0 + 0 + f) /\ 0 \in Int /\ 0 \in Nat
    BY <1>1
  <2> QED BY <1>1, <2>1, <2>2, MovesConserve
<1>2. ASSUME NEW t \in Traders, Promise!Deposit(t) \/ Promise!Withdraw(t) PROVE Conserves
  <2> DEFINE vn == vault'
             w == Wealth
             v == Wealth'
             x == vn - vault
  <2>1. /\ vn \in Nat /\ accrued' = accrued /\ w = [u \in Traders |-> w[u]]
        /\ v = [w EXCEPT ![t] = @ + (vn - vault)] \/ v = [w EXCEPT ![t] = @ - (vault - vn)]
    BY <1>t, <1>2, WealthIsWorth DEF Promise!Deposit, Promise!Withdraw
  <2>2. \A u \in Traders : w[u] \in Nat
    BY <1>t
  <2> HIDE DEF vn, w, v
  <2>3. x \in Int /\ vn = vault + (x + 0)
    BY <1>t, <2>1
  <2>4. \A u \in Traders : v[u] = w[u] + At(u, t, x)
    BY <1>t, <2>1, <2>2 DEF At
  <2>5. vault' = vault + (x + 0) /\ accrued' = accrued + 0 /\ 0 \in Int
    BY <1>t, <2>1, <2>3 DEF vn
  <2>6. \A u \in Traders : Wealth'[u] = Wealth[u] + At(u, t, x)
    BY <2>4 DEF v, w
  <2> HIDE DEF x
  <2> QED BY <1>1, <2>3, <2>5, <2>6
<1>3. ASSUME NEW f \in Int, Wealth' = Wealth, accrued' = accrued + f, vault' = vault + f
      PROVE  Conserves
  <2> DEFINE T == Total(Traders, Wealth)
  <2>1. T \in Nat /\ Total(Traders, Wealth') = T
    BY <1>t, <1>3, TotalType, InstrumentAssumption
  <2> HIDE DEF T
  <2>2. (vault + f) + T + accrued = vault + T + (accrued + f)
    BY <1>t, <1>3, <2>1
  <2>3. vault' + T + accrued = vault + T + accrued'
    BY <1>3, <2>2, Zenon
  <2> QED BY <2>1, <2>3, Zenon DEF Conserves, T
<1>4. ASSUME Promise!Collect PROVE Conserves
  <2> DEFINE vn == vault'
             an == accrued'
             f == vn - vault
  <2>1. vn \in Nat /\ an = accrued - (vault - vn) /\ Wealth' = Wealth
    BY <1>t, <1>4 DEF Promise!Collect
  <2> HIDE DEF vn, an
  <2>2. f \in Int /\ vn = vault + f /\ an = accrued + f
    BY <1>t, <2>1
  <2>3. vault' = vault + f /\ accrued' = accrued + f
    BY <2>2 DEF vn, an
  <2> HIDE DEF f
  <2> QED BY <1>3, <2>1, <2>2, <2>3
<1>5. ASSUME UNCHANGED Promise!vars PROVE Conserves
  <2>1. 0 \in Int /\ vault' = vault + 0 /\ accrued' = accrued + 0 /\ Wealth' = Wealth
    BY <1>t, <1>5 DEF Promise!vars
  <2> QED BY <1>3, <2>1
<1>6. ASSUME NEW bet \in LivePmlcs', NEW payer, NEW bps \in MatchBps,
             Promise!Open(bet, payer, TakerFee(bps))
      PROVE  Conserves
  <2> DEFINE fee == TakerFee(bps)
  <2>1. fee \in Nat
    BY AmountTypes
  <2>2. /\ payer \in Traders /\ accrued' = accrued + fee /\ vault' = vault
        /\ \A u \in Traders : Wealth'[u] = Wealth[u] - Promise!Gain(u, payer, fee)
    BY <1>t, <1>6 DEF Promise!Open
  <2> HIDE DEF fee
  <2>3. -fee \in Int /\ fee \in Int /\ vault' = vault + ((-fee) + fee)
    BY <1>t, <2>1, <2>2
  <2>4. \A u \in Traders : Wealth'[u] = Wealth[u] + At(u, payer, -fee)
    BY <1>t, <2>1, <2>2 DEF At, Promise!Gain
  <2> QED BY <1>1, <2>2, <2>3, <2>4
<1>7. ASSUME NEW bet \in LivePmlcs, NEW side \in {"long", "short"}, NEW new \in Traders,
             NEW price \in (-Bucket)..Bucket, Promise!Transfer(bet, side, new, price)
      PROVE  Conserves
  <2>1. price \in Int /\ -price \in Int /\ bet[side] \in Traders
    BY <1>t, <1>7
  <2>2. /\ accrued' = accrued /\ vault' = vault
        /\ \A u \in Traders : Wealth'[u] = Wealth[u] + Promise!Gain(u, bet[side], price)
                                             - Promise!Gain(u, new, price)
    BY <1>7 DEF Promise!Transfer
  <2>3. Moves(bet[side], price, new, -price, new, 0)
    BY <1>t, <2>1, <2>2 DEF Moves, At, Promise!Gain
  <2>4. 0 \in Nat /\ 0 \in Int /\ accrued' = accrued + 0
        /\ vault' = vault + (price + (-price) + 0 + 0)
    BY <1>t, <2>1, <2>2
  <2> QED BY <2>1, <2>3, <2>4, MovesConserve
<1>8. ASSUME NEW bet \in LivePmlcs, NEW toLong \in 0..(2 * Bucket), NEW toShort \in 0..(2 * Bucket),
             NEW keeper \in Traders, NEW bounty \in {0, Bounty},
             Promise!Settle(bet, toLong, toShort, keeper, bounty)
      PROVE  Conserves
  <2> DEFINE x == toLong - Bucket
             z == toShort - Bucket
  <2>1. /\ toLong + toShort + bounty = 2 * Bucket
        /\ accrued' = accrued /\ vault' = vault
        /\ \A u \in Traders : Wealth'[u] = Wealth[u] + Promise!Gain(u, bet.long, x)
                                             + Promise!Gain(u, bet.short, z)
                                             + Promise!Gain(u, keeper, bounty)
    BY <1>8 DEF Promise!Settle
  <2>2. x \in Int /\ z \in Int /\ bounty \in Nat /\ x + z + bounty + 0 = 0
    BY <1>t, <1>8, <2>1, AmountTypes
  <2> HIDE DEF x, z
  <2>3. Moves(bet.long, x, bet.short, z, keeper, bounty)
    BY <2>1 DEF Moves, At, Promise!Gain
  <2>4. 0 \in Int /\ accrued' = accrued + 0 /\ vault' = vault + (x + z + bounty + 0)
    BY <1>t, <2>1, <2>2
  <2>5. bet.long \in Traders /\ bet.short \in Traders
    BY <1>t, <1>8
  <2> QED BY <2>2, <2>3, <2>4, <2>5, MovesConserve
<1>9. ASSUME Promise!Step PROVE Conserves
  BY <1>2, <1>4, <1>6, <1>7, <1>8, <1>9 DEF Promise!Step
<1> QED BY <1>5, <1>9 DEF Keeps

(* Every step conserves, under the two hypotheses. *)
LEMMA ConservesStep ==
  ASSUME ~InlineMatchCanFail, LiquidationBountyBps <= 2 * BPS_DENOM, LedgerInv, [Next]_vars
  PROVE  Conserves
<1>1. LedgerInv'
  BY LedgerStep
<1>2. Keeps
  BY CustodyStep
<1> QED BY <1>1, <1>2, CustodyConserves

(* The vault holds, to the atom, what the traders and the treasury are owed:  *)
(* for any number of traders and any interleaving of posts, matches, prunes,  *)
(* transfers, settlements, reentries and sweeps.  The two hypotheses are      *)
(* needed: an inline match that fails half-way loses its reserves, or charges *)
(* no one the fee it accrues, and a bounty above 2c is paid out of nothing.   *)
THEOREM VaultSolvent ==
  ASSUME ~InlineMatchCanFail, LiquidationBountyBps <= 2 * BPS_DENOM
  PROVE  Spec => []Solvent
<1>1. Init => Solvent
  <2> SUFFICES ASSUME Init PROVE Solvent
    OBVIOUS
  <2> DEFINE w == Wealth
  <2>1. \A t \in Traders : w[t] = 0
    BY DEF Init, Wealth
  <2> HIDE DEF w
  <2>2. Total(Traders, w) = 0
    <3>1. Atoms(Traders, w) = {}
      BY <2>1 DEF Atoms
    <3> QED BY <3>1, FS_EmptySet DEF Total
  <2>3. vault = 0 /\ accrued = 0
    BY DEF Init
  <2> QED BY <2>2, <2>3 DEF Solvent, w
<1>2. LedgerInv /\ Solvent /\ [Next]_vars => Solvent'
  <2> SUFFICES ASSUME LedgerInv, Solvent, [Next]_vars PROVE Solvent'
    OBVIOUS
  <2> DEFINE T == Total(Traders, Wealth)
             Tn == Total(Traders, Wealth')
  <2>1. vault' + T + accrued = vault + Tn + accrued' /\ vault = T + accrued
    BY ConservesStep DEF Conserves, Solvent
  <2>2. vault \in Nat /\ accrued \in Nat /\ vault' \in Nat /\ accrued' \in Nat
    <3>1. LedgerInv'
      BY LedgerStep
    <3> QED BY <3>1 DEF LedgerInv, TypeInv, TypeOK
  <2>3. T \in Nat /\ Tn \in Nat
    <3>1. LedgerInv'
      BY LedgerStep
    <3>2. \A t \in Traders : Wealth[t] \in Nat /\ Wealth'[t] \in Nat
      BY <3>1, LedgerTypes DEF Wealth, Balances
    <3> QED BY <3>2, TotalType, InstrumentAssumption
  <2> HIDE DEF T, Tn
  <2> DEFINE vn == vault'
             an == accrued'
  <2>4. vn \in Nat /\ an \in Nat /\ vn + T + accrued = vault + Tn + an
    BY <2>1, <2>2
  <2> HIDE DEF vn, an
  <2>5. vn = Tn + an
    BY <2>1, <2>2, <2>3, <2>4
  <2> QED BY <2>5 DEF Solvent, Tn, vn, an
<1> QED BY <1>1, <1>2, LedgerInit, LedgerStep, PTL DEF Spec

-----------------------------------------------------------------------------
(* What the end of a position moves *)

(* What the step may do to the accounts when p ends. *)
Bounded(p) ==
  /\ \A t \in Traders :
       /\ Wealth'[t] >= Wealth[t] - (IF t \in {p.long, p.short} THEN Bucket ELSE 0)
       /\ Wealth'[t] <= Wealth[t] + (IF t \in {p.long, p.short} THEN Bucket ELSE Bounty)
  /\ Total(Traders, Wealth') = Total(Traders, Wealth)

(* A settlement leaves the total as it is. *)
LEMMA SettleTotal ==
  ASSUME margin \in [Traders -> Balances], margin' \in [Traders -> Balances],
         NEW p, p.long \in Traders, p.short \in Traders, SettleMoves(p)
  PROVE  Total(Traders, Wealth') = Total(Traders, Wealth)
<1>1. PICK keeper \in Traders, long \in Nat, short \in Nat, bounty \in Nat :
        /\ long + short + bounty = 2 * Bucket
        /\ \A u \in Traders :
             Worth(margin', u) = Worth(margin, u) + At(u, p.long, long - Bucket)
                                   + At(u, p.short, short - Bucket) + At(u, keeper, bounty)
  BY DEF SettleMoves
<1> DEFINE x == long - Bucket
           z == short - Bucket
           T == Total(Traders, Wealth)
           Tn == Total(Traders, Wealth')
<1>2. Moves(p.long, x, p.short, z, keeper, bounty)
  BY <1>1, WealthIsWorth DEF Moves
<1>3. x \in Int /\ z \in Int /\ bounty + x + z = 0
  BY <1>1, InstrumentAssumption
<1> HIDE DEF x, z
<1>4. Tn = T + bounty + x + z /\ T \in Nat
  BY <1>2, <1>3, MovesTotal
<1> HIDE DEF T, Tn
<1>5. Tn = T
  BY <1>3, <1>4
<1> QED BY <1>5 DEF T, Tn

(* What a settlement moves is within the bound. *)
LEMMA SettleBounded ==
  ASSUME margin \in [Traders -> Balances], margin' \in [Traders -> Balances],
         NEW p, p.long \in Traders, p.short \in Traders, p.long # p.short, SettleMoves(p)
  PROVE  Bounded(p)
<1>1. PICK keeper \in Traders, long \in Nat, short \in Nat, bounty \in Nat :
        /\ bounty \in {0, Bounty} /\ long + short + bounty = 2 * Bucket
        /\ \A u \in Traders :
             Worth(margin', u) = Worth(margin, u) + At(u, p.long, long - Bucket)
                                   + At(u, p.short, short - Bucket) + At(u, keeper, bounty)
  BY DEF SettleMoves
<1>2. Bucket \in Nat /\ Bounty \in Nat
  BY InstrumentAssumption, AmountTypes
<1>3. ASSUME NEW t \in Traders
      PROVE  /\ Wealth'[t] >= Wealth[t] - (IF t \in {p.long, p.short} THEN Bucket ELSE 0)
             /\ Wealth'[t] <= Wealth[t] + (IF t \in {p.long, p.short} THEN Bucket ELSE Bounty)
  <2> DEFINE w == Wealth[t]
             v == Wealth'[t]
             k == At(t, keeper, bounty)
  <2>1. w \in Nat /\ w = Worth(margin, t) /\ v = Worth(margin', t)
    BY DEF Wealth, Worth, Balances
  <2>2. v = w + At(t, p.long, long - Bucket) + At(t, p.short, short - Bucket) + k
    BY <1>1, <2>1
  <2>3. k \in Nat /\ k <= bounty /\ bounty <= Bounty
    BY <1>1, <1>2 DEF At
  <2> HIDE DEF w, v, k
  <2>4. CASE t = p.long
    <3>1. v = w + (long - Bucket) + k
      BY <1>2, <2>1, <2>2, <2>3, <2>4 DEF At
    <3>2. v >= w - Bucket /\ v <= w + Bucket
      BY <1>1, <1>2, <2>1, <2>3, <3>1
    <3> QED BY <2>4, <3>2 DEF v, w
  <2>5. CASE t = p.short
    <3>1. v = w + (short - Bucket) + k
      BY <1>2, <2>1, <2>2, <2>3, <2>5 DEF At
    <3>2. v >= w - Bucket /\ v <= w + Bucket
      BY <1>1, <1>2, <2>1, <2>3, <3>1
    <3> QED BY <2>5, <3>2 DEF v, w
  <2>6. CASE t \notin {p.long, p.short}
    <3>1. v = w + k
      BY <2>1, <2>2, <2>3, <2>6 DEF At
    <3>2. v >= w - 0 /\ v <= w + Bounty
      BY <1>2, <2>1, <2>3, <3>1
    <3> QED BY <2>6, <3>2 DEF v, w
  <2> QED BY <2>4, <2>5, <2>6
<1>4. Total(Traders, Wealth') = Total(Traders, Wealth)
  BY SettleTotal
<1> QED BY <1>3, <1>4 DEF Bounded

(* Only a settlement ends a position, for it alone accepts an attestation. *)
LEMMA EndsSettling ==
  ASSUME LedgerInv, [Next]_vars, NEW p \in pmlcs, Ends(p)
  PROVE  Settling
<1>1. market'.nonce > market.nonce /\ market.nonce \in Nat
  BY NonceStep DEF LedgerInv, NonceOnce, TypeInv, TypeOK
<1>2. market' # market
  BY <1>1
<1>3. ASSUME ~Settling PROVE market' = market
  <2>1. ASSUME Posting PROVE market' = market
    BY <2>1, PostingForms DEF LedgerInv, PostFrame
  <2>2. ASSUME Matching PROVE market' = market
    BY <2>2, MatchingForm
  <2>3. ASSUME Accounts \/ Leaving PROVE market' = market
    BY <2>3 DEF Accounts, CreateMarginAccount, Deposit, Withdraw, SweepFees,
         Leaving, CancelIntent, PruneExpired
  <2>4. ASSUME Transferring PROVE market' = market
    BY <2>4 DEF Transferring, Novate, Substitute
  <2>6. ASSUME Ending PROVE market' = market
    BY <2>6 DEF Ending, ClosePmlc, ClaimReentry, ClaimReentryUnfunded
  <2>5. ASSUME Administering \/ UNCHANGED vars PROVE market' = market
    BY <2>5 DEF Administering, SetGlobalPause, SetInstrumentStatus, Tick, vars
  <2> QED BY <1>3, <2>1, <2>2, <2>3, <2>4, <2>5, <2>6 DEF Next
<1> QED BY <1>2, <1>3

(* Every step that ends a position stays within the bound. *)
LEMMA BoundedStep ==
  ASSUME LiquidationBountyBps <= 2 * BPS_DENOM, LedgerInv, [Next]_vars, NEW p \in pmlcs, Ends(p)
  PROVE  Bounded(p)
<1>1. PICK p0 \in pmlcs, status \in Terminal :
        /\ p0.long # p0.short
        /\ Replace(p0, [p0 EXCEPT !.status = status])
        /\ SettleMoves(p0)
  BY EndsSettling, SettlingMoves
<1>2. p = p0
  <2> DEFINE q0 == [p0 EXCEPT !.status = status]
  <2>1. pmlcs' = (pmlcs \ {p0}) \cup {q0} /\ q0.id = p0.id
    BY <1>1, LedgerFacts DEF Replace, Pmlcs
  <2>2. \A a, b \in pmlcs : a.id = b.id => a = b
    BY DEF LedgerInv, IdsUnique
  <2> HIDE DEF q0
  <2> QED BY <2>1, <2>2 DEF Ends, Same
<1>3. LedgerInv'
  BY LedgerStep
<1>4. /\ margin \in [Traders -> Balances] /\ margin' \in [Traders -> Balances]
      /\ p.long \in Traders /\ p.short \in Traders
  BY <1>3, LedgerTypes, LedgerFacts
<1> QED BY <1>1, <1>2, <1>4, SettleBounded

(* The end of a position moves at most c from one of its owners to the other, *)
(* touches nobody else but the keeper, and keeps the sum of all balances: for *)
(* every price, outcome and leverage, and a keeper that may be an owner.      *)
THEOREM SettlementsBounded ==
  ASSUME LiquidationBountyBps <= 2 * BPS_DENOM
  PROVE  Spec => BoundedSettlement
<1> DEFINE B == \A p \in pmlcs : Ends(p) => Bounded(p)
<1>1. LedgerInv /\ [Next]_vars => [B]_vars
  BY BoundedStep
<1>2. Spec => []LedgerInv
  BY LedgerInit, LedgerStep, PTL DEF Spec
<1>3. Spec => [][B]_vars
  BY <1>1, <1>2, PTL DEF Spec
<1> QED BY <1>3 DEF BoundedSettlement, Bounded
=============================================================================
