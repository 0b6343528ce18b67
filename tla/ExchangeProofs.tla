--------------------------- MODULE ExchangeProofs ---------------------------
(***************************************************************************)
(* Type correctness of Exchange, and that every position is opened within   *)
(* the limits of its two sides.  The two belong together: the size of a     *)
(* position is a number only because its entry price is not zero.           *)
(***************************************************************************)
EXTENDS Exchange, TotalsProofs

-----------------------------------------------------------------------------
(* What the arithmetic of FixedMath promises for all arguments *)

(* A share of an amount in basis points is a natural number. *)
LEMMA BpsNat ==
  ASSUME NEW amount \in Nat, NEW bps \in Nat
  PROVE  Bps(amount, bps) \in Nat
<1>1. amount * bps \in Nat
  OBVIOUS
<1> QED BY <1>1, DivNat, ScalesAssumption DEF Bps

(* The midpoint of two prices lies between them, whichever is odd, and is     *)
(* the rounded-down mean.                                                     *)
THEOREM MidpointBetween ==
  ASSUME NEW a \in Nat, NEW b \in Nat, a <= b
  PROVE  /\ PriceMidpoint(b, a) \in Nat
         /\ a <= PriceMidpoint(b, a)
         /\ PriceMidpoint(b, a) <= b
         /\ PriceMidpoint(b, a) = (a + b) \div 2
BY DEF PriceMidpoint

(* The equity of a side is never negative and never more than both sides put  *)
(* in: what is left of 2c for the other side is not negative either.          *)
THEOREM EquityRange ==
  ASSUME NEW c \in Nat, NEW pnl \in Int
  PROVE  BoundedEquity(c, pnl) \in 0..(2 * c)
BY DEF BoundedEquity

(* The size of a position with a positive entry price is a natural number. *)
LEMMA SizeNat ==
  ASSUME NEW notional \in Nat, NEW entry \in Nat \ {0}
  PROVE  PositionSizeFp(notional, entry) \in Nat
<1>1. notional * PRICE_ONE \in Nat
  BY ScalesAssumption
<1> QED BY <1>1, DivNat DEF PositionSizeFp

(* Profit and loss is an integer. *)
LEMMA PnlInt ==
  ASSUME NEW entry \in Nat, NEW mark \in Nat, NEW size \in Nat
  PROVE  PnlLongAtoms(entry, mark, size) \in Int
<1> DEFINE x == (mark - entry) * size
<1>1. x \in Int
  OBVIOUS
<1> HIDE DEF x
<1>2. CASE x >= 0
  <2>1. x \in Nat /\ x \div PRICE_ONE \in Nat
    BY <1>1, <1>2, DivNat, ScalesAssumption
  <2> QED BY <1>2, <2>1 DEF PnlLongAtoms, TruncDiv, x
<1>3. CASE ~(x >= 0)
  <2>1. -x \in Nat
    BY <1>1, <1>3
  <2>2. (-x) \div PRICE_ONE \in Nat
    BY <2>1, DivNat, ScalesAssumption
  <2> QED BY <1>3, <2>2 DEF PnlLongAtoms, TruncDiv, x
<1> QED BY <1>2, <1>3

-----------------------------------------------------------------------------
(* Type correctness *)

(* The price of every intent is one that ValidatePriceTicked accepts. *)
PricesValid == \A i \in book : 0 < i.price /\ i.price < PRICE_ONE

TypeInv == TypeOK /\ PricesValid /\ FillWithinLimits

-----------------------------------------------------------------------------
(* Margin accounts *)

(* Margin accounts in the middle of a handler, before its checks. *)
Drafts == [Traders -> [free : Int, reserved : Int, locked : Int]]

(* Adjust changes the account of one trader, by the given amounts. *)
LEMMA AdjustEffect ==
  ASSUME NEW mg \in Drafts, NEW t \in Traders,
         NEW f \in Int, NEW r \in Int, NEW k \in Int
  PROVE  /\ Adjust(mg, t, f, r, k) \in Drafts
         /\ Adjust(mg, t, f, r, k)[t].free = mg[t].free + f
         /\ Adjust(mg, t, f, r, k)[t].reserved = mg[t].reserved + r
         /\ Adjust(mg, t, f, r, k)[t].locked = mg[t].locked + k
         /\ \A u \in Traders : u # t => Adjust(mg, t, f, r, k)[u] = mg[u]
BY DEF Adjust, Drafts

(* Accounts that passed their checks are well-formed. *)
LEMMA BalancesDrafts ==
  /\ [Traders -> Balances] \subseteq Drafts
  /\ \A mg \in Drafts : (\A t \in Traders : Covered(mg, t)) => mg \in [Traders -> Balances]
BY DEF Drafts, Balances, Covered

(* One checked adjustment of well-formed accounts. *)
LEMMA AdjustOnce ==
  ASSUME NEW mg \in [Traders -> Balances], NEW t \in Traders,
         NEW f \in Int, NEW r \in Int, NEW k \in Int,
         Covered(Adjust(mg, t, f, r, k), t)
  PROVE  Adjust(mg, t, f, r, k) \in [Traders -> Balances]
<1> DEFINE ad == Adjust(mg, t, f, r, k)
<1>1. mg \in Drafts
  BY BalancesDrafts
<1>2. ad \in Drafts
  BY <1>1, AdjustEffect
<1>3. \A u \in Traders : u # t => ad[u] = mg[u]
  BY DEF Adjust
<1>4. \A u \in Traders : Covered(ad, u)
  BY <1>3 DEF Covered, Balances
<1> HIDE DEF ad
<1>5. ad \in [Traders -> Balances]
  BY <1>2, <1>4, BalancesDrafts
<1> QED BY <1>5 DEF ad

(* Two adjustments of which only the outcome is checked. *)
LEMMA AdjustTwice ==
  ASSUME NEW mg \in [Traders -> Balances], NEW t \in Traders, NEW u \in Traders,
         NEW f \in Int, NEW r \in Int, NEW k \in Int,
         NEW g \in Int, NEW s \in Int, NEW l \in Int,
         Covered(Adjust(Adjust(mg, t, f, r, k), u, g, s, l), t),
         Covered(Adjust(Adjust(mg, t, f, r, k), u, g, s, l), u)
  PROVE  Adjust(Adjust(mg, t, f, r, k), u, g, s, l) \in [Traders -> Balances]
<1> DEFINE ad == Adjust(mg, t, f, r, k)
           be == Adjust(ad, u, g, s, l)
<1>1. mg \in Drafts
  BY BalancesDrafts
<1>2. ad \in Drafts /\ \A v \in Traders : v # t => ad[v] = mg[v]
  BY <1>1, AdjustEffect
<1> HIDE DEF ad
<1>3. be \in Drafts /\ \A v \in Traders : v # u => be[v] = ad[v]
  BY <1>2, AdjustEffect
<1>4. Covered(be, t) /\ Covered(be, u)
  BY DEF ad
<1> HIDE DEF be
<1>5. \A v \in Traders : Covered(be, v)
  <2> TAKE v \in Traders
  <2>1. CASE v \in {t, u}
    BY <2>1, <1>4
  <2>2. CASE v \notin {t, u}
    <3>1. be[v] = mg[v] /\ mg[v] \in Balances
      BY <2>2, <1>2, <1>3
    <3> QED BY <3>1 DEF Covered, Balances
  <2> QED BY <2>1, <2>2
<1>6. be \in [Traders -> Balances]
  BY <1>3, <1>5, BalancesDrafts
<1> QED BY <1>6 DEF be, ad

-----------------------------------------------------------------------------
(* Fees, fills and escrow *)

(* The derived amounts of an instrument are natural numbers. *)
LEMMA AmountTypes ==
  /\ Threshold \in Nat
  /\ Bounty \in Nat
  /\ Prize \in Nat
  /\ \A bps \in MatchBps : TakerFee(bps) \in Nat
  /\ \A n \in Nat : FeeBufferFor(n) \in Nat /\ Outlay(n) \in Nat
<1>1. Threshold \in Nat /\ Bounty \in Nat
  BY BpsNat, InstrumentAssumption DEF Threshold, Bounty
<1>2. Prize \in Nat
  BY <1>1, InstrumentAssumption DEF Prize, SatSub
<1>3. \A bps \in MatchBps : TakerFee(bps) \in Nat
  BY BpsNat, InstrumentAssumption DEF TakerFee, MatchBps
<1>4. ASSUME NEW n \in Nat PROVE FeeBufferFor(n) \in Nat /\ Outlay(n) \in Nat
  <2>1. n * Bucket \in Nat
    BY InstrumentAssumption
  <2>2. FeeBufferFor(n) \in Nat
    BY <2>1, BpsNat, InstrumentAssumption DEF FeeBufferFor
  <2> QED BY <2>1, <2>2 DEF Outlay
<1> QED BY <1>1, <1>2, <1>3, <1>4

(* A fill releases no more of the fee buffer than there is. *)
LEMMA FeeReleaseType ==
  ASSUME NEW i \in Intents, i.remaining # 0
  PROVE  FeeRelease(i) \in Nat /\ FeeRelease(i) <= i.feeBuffer
<1>1. i.remaining \in Nat \ {0} /\ i.feeBuffer \in Nat
  BY DEF Intents
<1>2. /\ i.feeBuffer \div i.remaining \in Nat
      /\ i.remaining * (i.feeBuffer \div i.remaining) <= i.feeBuffer
  BY <1>1, DivNat
<1> DEFINE q == i.feeBuffer \div i.remaining
<1>3. q <= i.feeBuffer
  <2> DEFINE r == i.remaining
             b == i.feeBuffer
  <2>1. q \in Nat /\ r \in Nat /\ r >= 1 /\ b \in Nat /\ r * q <= b
    BY <1>1, <1>2
  <2> HIDE DEF q, r, b
  <2>2. q <= r * q
    BY <2>1
  <2>3. q <= b
    BY <2>1, <2>2
  <2> QED BY <2>3 DEF b
<1> QED BY <1>1, <1>2, <1>3 DEF FeeRelease

(* A filled intent is an intent of the same owner, side, price and id. *)
LEMMA FillType ==
  ASSUME NEW i \in Intents, CanFill(i)
  PROVE  /\ Fill(i) \in Intents
         /\ Fill(i).id = i.id /\ Fill(i).seq = i.seq
         /\ Fill(i).owner = i.owner /\ Fill(i).side = i.side /\ Fill(i).price = i.price
         /\ Fill(i).remaining = i.remaining - 1
         /\ Fill(i).reserved = i.reserved - Bucket
         /\ Fill(i).feeBuffer = i.feeBuffer - FeeRelease(i)
<1>1. i.remaining # 0 /\ i.reserved >= Bucket
  BY DEF CanFill, Live
<1>2. FeeRelease(i) \in Nat /\ FeeRelease(i) <= i.feeBuffer
  BY <1>1, FeeReleaseType
<1> DEFINE x == FeeRelease(i)
<1>3. /\ i.remaining - 1 \in Nat
      /\ i.reserved - Bucket \in Nat
      /\ i.feeBuffer - x \in Nat
  BY <1>1, <1>2, InstrumentAssumption DEF Intents
<1> HIDE DEF x
<1>4. Fill(i) = [i EXCEPT !.remaining = i.remaining - 1,
                          !.reserved = i.reserved - Bucket,
                          !.feeBuffer = i.feeBuffer - x]
  BY DEF Fill, Intents, x
<1>5. Fill(i) \in Intents
  BY <1>3, <1>4 DEF Intents
<1>6. /\ Fill(i).id = i.id /\ Fill(i).seq = i.seq
      /\ Fill(i).owner = i.owner /\ Fill(i).side = i.side /\ Fill(i).price = i.price
      /\ Fill(i).remaining = i.remaining - 1
      /\ Fill(i).reserved = i.reserved - Bucket
      /\ Fill(i).feeBuffer = i.feeBuffer - x
  BY <1>4 DEF Intents
<1> QED BY <1>5, <1>6 DEF x

(* The escrow of finitely many intents is a natural number. *)
LEMMA EscrowType ==
  ASSUME NEW S \in SUBSET Intents, IsFiniteSet(S)
  PROVE  EscrowOf(S) \in Nat
<1> DEFINE w == [i \in S |-> Escrow(i)]
<1>1. \A i \in S : w[i] \in Nat
  BY DEF Escrow, Intents
<1> HIDE DEF w
<1>2. Total(S, w) \in Nat
  BY <1>1, TotalType
<1> QED BY <1>2 DEF EscrowOf, w

(* Filling two intents of a book leaves a book. *)
LEMMA FilledBookType ==
  ASSUME NEW bk \in SUBSET Intents, IsFiniteSet(bk),
         \A i \in bk : 0 < i.price /\ i.price < PRICE_ONE,
         NEW l \in bk, NEW s \in bk, CanFill(l), CanFill(s)
  PROVE  /\ FilledBook(bk, l, s) \subseteq Intents
         /\ IsFiniteSet(FilledBook(bk, l, s))
         /\ \A i \in FilledBook(bk, l, s) : 0 < i.price /\ i.price < PRICE_ONE
<1> DEFINE kept == bk \ {l, s}
           filled == {f \in {Fill(l), Fill(s)} : f.remaining # 0}
<1>1. IsFiniteSet(kept)
  BY FS_Subset
<1>2. IsFiniteSet(filled)
  <2>1. IsFiniteSet({Fill(l)} \cup {Fill(s)})
    BY FS_Singleton, FS_Union
  <2>2. filled \in SUBSET ({Fill(l)} \cup {Fill(s)})
    OBVIOUS
  <2> QED BY <2>1, <2>2, FS_Subset
<1>3. IsFiniteSet(kept \cup filled)
  BY <1>1, <1>2, FS_Union
<1>4. /\ Fill(l) \in Intents /\ Fill(l).price = l.price
      /\ Fill(s) \in Intents /\ Fill(s).price = s.price
  BY FillType
<1> QED BY <1>3, <1>4 DEF FilledBook

(* One checked leg of a match. *)
LEMMA LegType ==
  ASSUME NEW mg \in [Traders -> Balances], NEW i \in Intents, i.remaining # 0,
         NEW fee \in Nat, Covered(Leg(mg, i, fee), i.owner)
  PROVE  Leg(mg, i, fee) \in [Traders -> Balances]
<1>1. FeeRelease(i) \in Nat /\ i.owner \in Traders
  BY FeeReleaseType DEF Intents
<1>2. /\ FeeRelease(i) - fee \in Int
      /\ -(Bucket + FeeRelease(i)) \in Int
      /\ Bucket \in Int
  BY <1>1, InstrumentAssumption
<1>3. Covered(Adjust(mg, i.owner, FeeRelease(i) - fee, -(Bucket + FeeRelease(i)), Bucket),
              i.owner)
  BY DEF Leg
<1> QED BY <1>1, <1>2, <1>3, AdjustOnce DEF Leg

(* The fee of either side of a match is a natural number. *)
LEMMA FeeOfType ==
  ASSUME NEW i, NEW j, NEW bps \in MatchBps
  PROVE  FeeOf(i, j, bps) \in Nat
BY AmountTypes DEF FeeOf

(* A position made of two crossing intents is priced within their limits. *)
LEMMA NewPmlcType ==
  ASSUME NEW id \in Nat, NEW l \in Intents, NEW s \in Intents, s.price <= l.price,
         0 < s.price, l.price < PRICE_ONE
  PROVE  /\ NewPmlc(id, l, s) \in Pmlcs
         /\ NewPmlc(id, l, s).shortPrice <= NewPmlc(id, l, s).entry
         /\ NewPmlc(id, l, s).entry <= NewPmlc(id, l, s).longPrice
         /\ 0 < NewPmlc(id, l, s).entry
         /\ NewPmlc(id, l, s).entry < PRICE_ONE
<1> DEFINE m == PriceMidpoint(l.price, s.price)
<1>1. l.price \in Nat /\ s.price \in Nat
  BY DEF Intents
<1>2. m \in Nat /\ s.price <= m /\ m <= l.price
  BY <1>1, MidpointBetween
<1>3. PRICE_ONE \in Nat
  BY ScalesAssumption
<1> HIDE DEF m
<1>4. NewPmlc(id, l, s) =
        [id |-> id, status |-> "live", long |-> l.owner, short |-> s.owner, entry |-> m,
         longReentry |-> l.reentry, shortReentry |-> s.reentry,
         longPrice |-> l.price, shortPrice |-> s.price]
  BY DEF NewPmlc, m
<1>5. NewPmlc(id, l, s) \in Pmlcs
  BY <1>1, <1>2, <1>4 DEF Pmlcs, Intents
<1>6. 0 < m /\ m < PRICE_ONE
  BY <1>1, <1>2, <1>3
<1> QED BY <1>2, <1>4, <1>5, <1>6

(* match_pair_core, on any well-formed accounts and book. *)
LEMMA MatchType ==
  ASSUME TypeInv,
         NEW mg \in [Traders -> Balances],
         NEW bk \in SUBSET Intents, IsFiniteSet(bk),
         \A i \in bk : 0 < i.price /\ i.price < PRICE_ONE,
         NEW id \in Nat, NEW l \in bk, NEW s \in bk, NEW bps \in MatchBps,
         MatchPairCore(mg, bk, id, l, s, bps)
  PROVE  /\ margin' \in [Traders -> Balances]
         /\ accrued' \in Nat
         /\ book' \subseteq Intents /\ IsFiniteSet(book') /\ PricesValid'
         /\ pmlcs' \subseteq Pmlcs /\ IsFiniteSet(pmlcs') /\ FillWithinLimits'
         /\ nextId' \in Nat
<1>1. /\ CanFill(l) /\ CanFill(s) /\ s.price <= l.price
      /\ l.remaining # 0 /\ s.remaining # 0
      /\ l.owner \in Traders /\ s.owner \in Traders
  BY DEF MatchPairCore, CanCross, CanFill, Live, Intents
<1>2. AfterLong(mg, l, s, bps) \in [Traders -> Balances]
  <2>1. FeeOf(l, s, bps) \in Nat
    BY FeeOfType
  <2>2. Covered(Leg(mg, l, FeeOf(l, s, bps)), l.owner)
    BY DEF MatchPairCore, AfterLong
  <2> QED BY <1>1, <2>1, <2>2, LegType DEF AfterLong
<1>3. AfterBoth(mg, l, s, bps) \in [Traders -> Balances]
  <2>1. FeeOf(s, l, bps) \in Nat
    BY FeeOfType
  <2>2. Covered(Leg(AfterLong(mg, l, s, bps), s, FeeOf(s, l, bps)), s.owner)
    BY DEF MatchPairCore, AfterBoth
  <2> QED BY <1>1, <1>2, <2>1, <2>2, LegType DEF AfterBoth
<1>4. margin' \in [Traders -> Balances]
  BY <1>3 DEF MatchPairCore
<1>5. accrued' \in Nat /\ nextId' \in Nat
  BY AmountTypes DEF MatchPairCore, TypeInv, TypeOK
<1>6. book' \subseteq Intents /\ IsFiniteSet(book') /\ PricesValid'
  BY <1>1, FilledBookType DEF MatchPairCore, PricesValid
<1>7. pmlcs' = pmlcs \cup {NewPmlc(id, l, s)}
  BY DEF MatchPairCore
<1>8. pmlcs' \subseteq Pmlcs /\ FillWithinLimits'
  <2>1. l.price < PRICE_ONE /\ 0 < s.price
    OBVIOUS
  <2> DEFINE n == NewPmlc(id, l, s)
  <2>2. /\ n \in Pmlcs
        /\ n.shortPrice <= n.entry /\ n.entry <= n.longPrice
        /\ 0 < n.entry /\ n.entry < PRICE_ONE
    BY <1>1, <2>1, NewPmlcType
  <2> HIDE DEF n
  <2>3. pmlcs' = pmlcs \cup {n}
    BY <1>7 DEF n
  <2> QED BY <2>2, <2>3 DEF TypeInv, TypeOK, FillWithinLimits
<1>9. IsFiniteSet(pmlcs')
  BY <1>7, FS_AddElement DEF TypeInv, TypeOK
<1> QED BY <1>4, <1>5, <1>6, <1>8, <1>9

(* The profit of a position at any price is an integer, and the long side's   *)
(* equity lies between nothing and 2c.                                        *)
LEMMA EquityType ==
  ASSUME NEW p \in Pmlcs, 0 < p.entry, NEW mark \in Nat
  PROVE  PnlAt(p, mark) \in Int /\ LongEquity(p, mark) \in 0..(2 * Bucket)
<1>1. NotionalAtoms(Bucket, LeverageBps) \in Nat
  BY BpsNat, InstrumentAssumption DEF NotionalAtoms
<1>2. p.entry \in Nat \ {0}
  BY DEF Pmlcs
<1>3. Size(p) \in Nat
  BY <1>1, <1>2, SizeNat DEF Size
<1>4. PnlAt(p, mark) \in Int
  BY <1>2, <1>3, PnlInt DEF PnlAt
<1> QED BY <1>4, EquityRange, InstrumentAssumption DEF LongEquity

-----------------------------------------------------------------------------
(* Posting and replacing *)

(* A new intent, and its price, are well-formed. *)
LEMMA NewIntentType ==
  ASSUME TypeInv, NEW t \in Traders, NEW side \in Sides, NEW n \in Nat, NEW price \in Nat,
         NEW expiration \in Nat, NEW reentry \in BOOLEAN
  PROVE  /\ NewIntent(t, side, n, price, expiration, reentry) \in Intents
         /\ NewIntent(t, side, n, price, expiration, reentry).price = price
         /\ NewIntent(t, side, n, price, expiration, reentry).owner = t
         /\ NewIntent(t, side, n, price, expiration, reentry).side = side
<1>1. n * Bucket \in Nat /\ FeeBufferFor(n) \in Nat
  BY AmountTypes, InstrumentAssumption
<1>2. nextId \in Nat /\ nextSeq \in Nat
  BY DEF TypeInv, TypeOK
<1> QED BY <1>1, <1>2 DEF NewIntent, Intents

(* Posting, the prune of the poster's expired intents included, leaves        *)
(* well-formed accounts, counters and a well-formed book.                     *)
LEMMA PostType ==
  ASSUME TypeInv, NEW t \in Traders, NEW side \in Sides, NEW n \in Contracts,
         NEW price \in Prices, NEW expiration \in Expirations,
         NEW reentry \in ReentryInputs, NEW pruned \in PrunedOnPost(t),
         CanPost(t, n, price, expiration, pruned),
         NEW new, new = NewIntent(t, side, n, price, expiration, reentry),
         NEW bk, bk = (book \ pruned) \cup {new}
  PROVE  /\ PostMargin(t, n, pruned) \in [Traders -> Balances]
         /\ new \in Intents /\ new.owner = t /\ new.side = side
         /\ bk \subseteq Intents /\ IsFiniteSet(bk)
         /\ \A i \in bk : 0 < i.price /\ i.price < PRICE_ONE
         /\ PostCounters(t, pruned) => seatCount' \in [Traders -> Nat] /\ nextSeq' \in Nat
<1>1. n \in Nat /\ price \in Nat /\ expiration \in Nat /\ reentry \in BOOLEAN
  BY InputsAssumption, InstrumentAssumption DEF Expirations
<1>2. pruned \in SUBSET book /\ IsFiniteSet(pruned)
  BY FS_Subset DEF PrunedOnPost, TypeInv, TypeOK
<1>3. PostMargin(t, n, pruned) \in [Traders -> Balances]
  <2> DEFINE out == Outlay(n)
             esc == EscrowOf(pruned)
  <2>1. out \in Nat
    BY <1>1, AmountTypes
  <2>2. esc \in Nat
    BY <1>2, EscrowType DEF TypeInv, TypeOK
  <2>3. Covered(Adjust(margin, t, esc - out, out - esc, 0), t)
    BY DEF CanPost, PostMargin
  <2>4. margin \in [Traders -> Balances]
    BY DEF TypeInv, TypeOK
  <2>5. PostMargin(t, n, pruned) = Adjust(margin, t, esc - out, out - esc, 0)
    BY DEF PostMargin
  <2> HIDE DEF out, esc
  <2>6. esc - out \in Int /\ out - esc \in Int /\ 0 \in Int
    BY <2>1, <2>2
  <2> QED BY <2>3, <2>4, <2>5, <2>6, AdjustOnce
<1>4. new \in Intents /\ new.owner = t /\ new.side = side /\ new.price = price
  BY <1>1, NewIntentType
<1>5. 0 < price /\ price < PRICE_ONE
  BY DEF CanPost, ValidatePriceTicked
<1>6. bk \subseteq Intents /\ \A i \in bk : 0 < i.price /\ i.price < PRICE_ONE
  BY <1>4, <1>5 DEF TypeInv, TypeOK, PricesValid
<1>7. IsFiniteSet(bk)
  <2>1. IsFiniteSet(book \ pruned)
    BY FS_Subset DEF TypeInv, TypeOK
  <2> QED BY <2>1, FS_AddElement
<1>8. ASSUME PostCounters(t, pruned)
      PROVE  seatCount' \in [Traders -> Nat] /\ nextSeq' \in Nat
  <2>1. Cardinality(pruned) \in Nat
    BY <1>2, FS_CardinalityType
  <2> QED BY <1>8, <2>1 DEF PostCounters, SatSub, TypeInv, TypeOK
<1> QED BY <1>3, <1>4, <1>6, <1>7, <1>8

(* A position replaced by one of the same terms is still within its limits. *)
LEMMA ReplaceType ==
  ASSUME TypeInv, NEW p \in pmlcs, NEW q \in Pmlcs, Replace(p, q),
         q.entry = p.entry, q.longPrice = p.longPrice, q.shortPrice = p.shortPrice
  PROVE  pmlcs' \subseteq Pmlcs /\ IsFiniteSet(pmlcs') /\ FillWithinLimits'
<1>1. IsFiniteSet(pmlcs \ {p})
  BY FS_Subset DEF TypeInv, TypeOK
<1>2. IsFiniteSet(pmlcs')
  BY <1>1, FS_AddElement DEF Replace
<1>3. pmlcs' \subseteq Pmlcs
  BY DEF Replace, TypeInv, TypeOK
<1>4. FillWithinLimits'
  BY DEF Replace, TypeInv, FillWithinLimits
<1> QED BY <1>2, <1>3, <1>4

(* A settlement leaves well-formed accounts when both debits are covered. *)
LEMMA SettledType ==
  ASSUME TypeInv, NEW p \in pmlcs, NEW long \in Nat, NEW short \in Nat,
         Covered(Settled(p, long, short), p.long), Covered(Settled(p, long, short), p.short)
  PROVE  Settled(p, long, short) \in [Traders -> Balances]
<1>1. p.long \in Traders /\ p.short \in Traders /\ margin \in [Traders -> Balances]
  BY DEF TypeInv, TypeOK, Pmlcs
<1>2. -Bucket \in Int
  BY InstrumentAssumption
<1>3. long \in Int /\ short \in Int /\ 0 \in Int
  OBVIOUS
<1> QED BY <1>1, <1>2, <1>3, AdjustTwice DEF Settled

-----------------------------------------------------------------------------
(* The invariant is inductive *)

(* A program that was just deployed satisfies the invariant. *)
LEMMA TypeInit == Init => TypeInv
<1> SUFFICES ASSUME Init PROVE TypeInv
  OBVIOUS
<1>1. IsFiniteSet({})
  BY FS_EmptySet
<1>2. margin \in [Traders -> Balances] /\ seatCount \in [Traders -> Nat]
  BY DEF Init, Balances
<1>3. 0 \in Outcomes
  BY DEF Outcomes
<1>4. market \in [nonce : Nat, resolved : BOOLEAN, outcome : Outcomes]
  BY <1>3 DEF Init
<1>5. TypeOK
  BY <1>1, <1>2, <1>4 DEF Init, TypeOK
<1> QED BY <1>5 DEF Init, TypeInv, PricesValid, FillWithinLimits

(* What the actions that leave the book alone do not disturb. *)
LEMMA TypeFrame ==
  ASSUME TypeInv
  PROVE  /\ UNCHANGED ledger => /\ opened' \subseteq Traders
                                /\ margin' \in [Traders -> Balances]
                                /\ vault' \in Nat /\ accrued' \in Nat
         /\ UNCHANGED orders => /\ book' \subseteq Intents /\ IsFiniteSet(book')
                                /\ PricesValid'
                                /\ seatCount' \in [Traders -> Nat]
                                /\ nextId' \in Nat /\ nextSeq' \in Nat
         /\ UNCHANGED pmlcs => /\ pmlcs' \subseteq Pmlcs /\ IsFiniteSet(pmlcs')
                               /\ FillWithinLimits'
         /\ UNCHANGED market => market' \in [nonce : Nat, resolved : BOOLEAN, outcome : Outcomes]
         /\ UNCHANGED controls => paused' \in BOOLEAN /\ active' \in BOOLEAN
         /\ UNCHANGED now => now' \in Nat
<1>1. UNCHANGED ledger => /\ opened' \subseteq Traders
                          /\ margin' \in [Traders -> Balances]
                          /\ vault' \in Nat /\ accrued' \in Nat
  BY DEF TypeInv, TypeOK, ledger
<1>2. UNCHANGED orders => /\ book' \subseteq Intents /\ IsFiniteSet(book')
                          /\ PricesValid'
                          /\ seatCount' \in [Traders -> Nat]
                          /\ nextId' \in Nat /\ nextSeq' \in Nat
  BY DEF TypeInv, TypeOK, PricesValid, orders
<1>3. UNCHANGED pmlcs => /\ pmlcs' \subseteq Pmlcs /\ IsFiniteSet(pmlcs')
                         /\ FillWithinLimits'
  BY DEF TypeInv, TypeOK, FillWithinLimits
<1>4. /\ UNCHANGED market => market' \in [nonce : Nat, resolved : BOOLEAN, outcome : Outcomes]
      /\ UNCHANGED controls => paused' \in BOOLEAN /\ active' \in BOOLEAN
      /\ UNCHANGED now => now' \in Nat
  BY DEF TypeInv, TypeOK, controls
<1> QED BY <1>1, <1>2, <1>3, <1>4

(* Deposits, withdrawals and sweeps. *)
LEMMA AccountsType == TypeInv /\ Accounts => TypeInv'
<1> SUFFICES ASSUME TypeInv, Accounts PROVE TypeInv'
  OBVIOUS
<1> USE DEF TypeInv, TypeOK
<1>m. margin \in [Traders -> Balances] /\ vault \in Nat /\ accrued \in Nat
  OBVIOUS
<1>1. ASSUME NEW t \in Traders, CreateMarginAccount(t) PROVE TypeInv'
  BY <1>1, TypeFrame DEF CreateMarginAccount, ledger
<1>2. ASSUME NEW t \in Traders, NEW amount \in Amounts, Deposit(t, amount) PROVE TypeInv'
  <2>1. amount \in Nat
    BY InputsAssumption
  <2>2. Covered(Adjust(margin, t, amount, 0, 0), t)
    BY <1>m, <2>1 DEF Covered, Adjust, Balances
  <2>3. margin' \in [Traders -> Balances]
    BY <1>m, <1>2, <2>1, <2>2, AdjustOnce DEF Deposit
  <2> QED BY <1>m, <1>2, <2>1, <2>3, TypeFrame DEF Deposit
<1>3. ASSUME NEW t \in Traders, NEW amount \in Amounts, Withdraw(t, amount) PROVE TypeInv'
  <2>1. amount \in Nat /\ -amount \in Int
    BY InputsAssumption
  <2>2. margin' \in [Traders -> Balances]
    BY <1>m, <1>3, <2>1, AdjustOnce DEF Withdraw
  <2> QED BY <1>m, <1>3, <2>1, <2>2, TypeFrame DEF Withdraw
<1>4. ASSUME NEW amount \in Amounts, SweepFees(amount) PROVE TypeInv'
  <2>1. amount \in Nat
    BY InputsAssumption
  <2> QED BY <1>m, <1>4, <2>1, TypeFrame DEF SweepFees
<1> QED BY <1>1, <1>2, <1>3, <1>4 DEF Accounts

(* Posts, with and without an inline match, and with one that failed. *)
LEMMA PostingType == TypeInv /\ Posting => TypeInv'
<1> SUFFICES ASSUME TypeInv, NEW t \in Traders, NEW side \in Sides, NEW n \in Contracts,
                    NEW price \in Prices, NEW expiration \in Expirations,
                    NEW reentry \in ReentryInputs,
                    \/ PostIntent(t, side, n, price, expiration, reentry)
                    \/ \E bps \in InlineBps :
                         PostIntentMatched(t, side, n, price, expiration, reentry, bps)
                    \/ \E bps \in InlineBps :
                         PostIntentMatchFailed(t, side, n, price, expiration, reentry, bps)
             PROVE  TypeInv'
  BY DEF Posting
<1> DEFINE new == NewIntent(t, side, n, price, expiration, reentry)
           posted(pruned) == (book \ pruned) \cup {new}
<1>p. ASSUME NEW pruned \in PrunedOnPost(t), CanPost(t, n, price, expiration, pruned)
      PROVE  /\ PostMargin(t, n, pruned) \in [Traders -> Balances]
             /\ new \in Intents /\ new.owner = t
             /\ posted(pruned) \in SUBSET Intents /\ IsFiniteSet(posted(pruned))
             /\ \A i \in posted(pruned) : 0 < i.price /\ i.price < PRICE_ONE
             /\ PostCounters(t, pruned) => seatCount' \in [Traders -> Nat] /\ nextSeq' \in Nat
  <2> DEFINE bk == posted(pruned)
  <2>1. new = NewIntent(t, side, n, price, expiration, reentry) /\ bk = (book \ pruned) \cup {new}
    OBVIOUS
  <2> HIDE DEF new, bk
  <2> QED BY <1>p, <2>1, PostType DEF bk
<1>b. \A bps \in InlineBps : bps \in MatchBps
  BY DEF MatchBps
<1>1. CASE PostIntent(t, side, n, price, expiration, reentry)
  <2>1. PICK pruned \in PrunedOnPost(t) :
          /\ CanPost(t, n, price, expiration, pruned)
          /\ margin' = PostMargin(t, n, pruned)
          /\ book' = posted(pruned)
          /\ nextId' = nextId + 1
          /\ PostCounters(t, pruned)
          /\ UNCHANGED <<opened, vault, accrued, pmlcs, market, controls, now>>
    BY <1>1 DEF PostIntent
  <2>2. /\ PostMargin(t, n, pruned) \in [Traders -> Balances]
        /\ posted(pruned) \subseteq Intents /\ IsFiniteSet(posted(pruned))
        /\ \A i \in posted(pruned) : 0 < i.price /\ i.price < PRICE_ONE
        /\ seatCount' \in [Traders -> Nat] /\ nextSeq' \in Nat
    BY <2>1, <1>p
  <2>3. PricesValid'
    BY <2>1, <2>2 DEF PricesValid
  <2> QED BY <2>1, <2>2, <2>3, TypeFrame DEF TypeInv, TypeOK
<1>2. ASSUME NEW bps \in InlineBps,
             PostIntentMatched(t, side, n, price, expiration, reentry, bps)
      PROVE  TypeInv'
  <2> DEFINE Matched(pruned, cp) ==
               /\ CanPost(t, n, price, expiration, pruned)
               /\ MatchPairCore(PostMargin(t, n, pruned), posted(pruned), nextId + 1,
                                IF side = "long" THEN new ELSE cp,
                                IF side = "long" THEN cp ELSE new, bps)
               /\ PostCounters(t, pruned)
               /\ UNCHANGED <<opened, vault, market, controls, now>>
  <2>1. PICK pruned \in PrunedOnPost(t) : \E cp \in book \ pruned : Matched(pruned, cp)
    BY <1>2 DEF PostIntentMatched
  <2>2. PICK cp \in book \ pruned : Matched(pruned, cp)
    BY <2>1
  <2> DEFINE mg == PostMargin(t, n, pruned)
             bk == posted(pruned)
             l == IF side = "long" THEN new ELSE cp
             s == IF side = "long" THEN cp ELSE new
             id == nextId + 1
  <2>3. /\ mg \in [Traders -> Balances]
        /\ bk \in SUBSET Intents /\ IsFiniteSet(bk)
        /\ \A i \in bk : 0 < i.price /\ i.price < PRICE_ONE
        /\ seatCount' \in [Traders -> Nat] /\ nextSeq' \in Nat
    BY <2>2, <1>p
  <2>4. l \in bk /\ s \in bk /\ id \in Nat
    BY DEF TypeInv, TypeOK
  <2>5. MatchPairCore(mg, bk, id, l, s, bps)
    BY <2>2
  <2> HIDE DEF mg, bk, l, s, id
  <2>6. /\ margin' \in [Traders -> Balances]
        /\ accrued' \in Nat
        /\ book' \subseteq Intents /\ IsFiniteSet(book') /\ PricesValid'
        /\ pmlcs' \subseteq Pmlcs /\ IsFiniteSet(pmlcs') /\ FillWithinLimits'
        /\ nextId' \in Nat
    BY <1>b, <1>2, <2>3, <2>4, <2>5, MatchType
  <2> QED BY <2>2, <2>3, <2>6, TypeFrame DEF TypeInv, TypeOK
<1>3. ASSUME NEW bps \in InlineBps,
             PostIntentMatchFailed(t, side, n, price, expiration, reentry, bps)
      PROVE  TypeInv'
  <2> DEFINE first(pruned, cp) == IF side = "long" THEN PostMargin(t, n, pruned)
                                  ELSE Leg(PostMargin(t, n, pruned), cp, 0)
             Failed(pruned, cp) ==
               /\ CanPost(t, n, price, expiration, pruned)
               /\ CanFill(new) /\ CanFill(cp)
               /\ book' = FilledBook(posted(pruned), new, cp)
               /\ nextId' = nextId + 2
               /\ \/ /\ margin' = PostMargin(t, n, pruned)
                     /\ UNCHANGED accrued
                  \/ /\ Covered(first(pruned, cp), cp.owner)
                     /\ Covered(Leg(first(pruned, cp), new, 0), t)
                     /\ accrued' = accrued + TakerFee(bps)
                     /\ margin' = Leg(first(pruned, cp), new, 0)
               /\ PostCounters(t, pruned)
               /\ UNCHANGED <<opened, vault, pmlcs, market, controls, now>>
  <2>1. \E pruned \in PrunedOnPost(t) : \E cp \in book \ pruned : Failed(pruned, cp)
    BY <1>3 DEF PostIntentMatchFailed
  <2>p. PICK pruned \in PrunedOnPost(t) : \E cp \in book \ pruned : Failed(pruned, cp)
    BY <2>1
  <2>2. PICK cp \in book \ pruned : Failed(pruned, cp)
    BY <2>p
  <2> DEFINE bk == posted(pruned)
             mg == PostMargin(t, n, pruned)
             fst == first(pruned, cp)
  <2>3. /\ mg \in [Traders -> Balances]
        /\ new \in Intents /\ new.owner = t
        /\ bk \in SUBSET Intents /\ IsFiniteSet(bk)
        /\ \A i \in bk : 0 < i.price /\ i.price < PRICE_ONE
        /\ seatCount' \in [Traders -> Nat] /\ nextSeq' \in Nat
    BY <2>2, <1>p
  <2>4. /\ cp \in bk /\ new \in bk /\ cp \in Intents
        /\ new.remaining # 0 /\ cp.remaining # 0
    BY <2>2 DEF TypeInv, TypeOK, CanFill, Live
  <2>5. book' \subseteq Intents /\ IsFiniteSet(book') /\ PricesValid'
    <3>1. CanFill(new) /\ CanFill(cp) /\ book' = FilledBook(bk, new, cp)
      BY <2>2
    <3> HIDE DEF bk, new
    <3> QED BY <2>3, <2>4, <3>1, FilledBookType DEF PricesValid
  <2>6. margin' \in [Traders -> Balances] /\ accrued' \in Nat
    <3>1. CASE margin' = mg /\ UNCHANGED accrued
      BY <2>3, <3>1 DEF TypeInv, TypeOK
    <3>2. CASE /\ Covered(fst, cp.owner)
               /\ Covered(Leg(fst, new, 0), t)
               /\ accrued' = accrued + TakerFee(bps)
               /\ margin' = Leg(fst, new, 0)
      <4>1. fst = mg \/ fst = Leg(mg, cp, 0)
        OBVIOUS
      <4> HIDE DEF fst, mg, new
      <4>2. fst \in [Traders -> Balances]
        BY <2>3, <2>4, <3>2, <4>1, LegType
      <4>3. margin' \in [Traders -> Balances]
        BY <2>3, <2>4, <3>2, <4>2, LegType
      <4> QED BY <1>b, <1>3, <3>2, <4>3, AmountTypes DEF TypeInv, TypeOK
    <3> QED BY <2>2, <3>1, <3>2
  <2>7. nextId' \in Nat
    BY <2>2 DEF TypeInv, TypeOK
  <2>8. UNCHANGED <<opened, vault, pmlcs, market, controls, now>>
    BY <2>2
  <2> QED BY <2>3, <2>5, <2>6, <2>7, <2>8, TypeFrame DEF TypeInv, TypeOK
<1> QED BY <1>1, <1>2, <1>3

(* Cancels and prunes. *)
LEMMA LeavingType == TypeInv /\ Leaving => TypeInv'
<1> SUFFICES ASSUME TypeInv, Leaving PROVE TypeInv'
  OBVIOUS
<1>m. /\ margin \in [Traders -> Balances] /\ seatCount \in [Traders -> Nat]
      /\ book \subseteq Intents /\ IsFiniteSet(book)
  BY DEF TypeInv, TypeOK
<1>1. ASSUME NEW caller \in Traders, NEW i \in book, CancelIntent(caller, i) PROVE TypeInv'
  <2>1. i \in Intents /\ i.owner \in Traders /\ Escrow(i) \in Int /\ -Escrow(i) \in Int
    BY <1>m DEF Intents, Escrow
  <2>2. margin' \in [Traders -> Balances]
    BY <1>m, <1>1, <2>1, AdjustOnce DEF CancelIntent
  <2>3. seatCount' \in [Traders -> Nat]
    BY <1>m, <1>1, <2>1 DEF CancelIntent, SatSub
  <2>4. book' \subseteq Intents /\ IsFiniteSet(book') /\ PricesValid'
    BY <1>m, <1>1, FS_Subset DEF CancelIntent, TypeInv, PricesValid
  <2> QED BY <1>1, <2>2, <2>3, <2>4, TypeFrame DEF CancelIntent, TypeInv, TypeOK
<1>2. ASSUME NEW S \in SUBSET book, PruneExpired(S) PROVE TypeInv'
  <2> DEFINE of(t) == {i \in S : i.owner = t}
  <2>1. \A t \in Traders : of(t) \in SUBSET Intents /\ IsFiniteSet(of(t))
    BY <1>m, FS_Subset
  <2>2. \A t \in Traders : EscrowOf(of(t)) \in Nat /\ Cardinality(of(t)) \in Nat
    BY <2>1, EscrowType, FS_CardinalityType
  <2>3. /\ \A t \in Traders : EscrowOf(of(t)) <= margin[t].reserved
        /\ margin' = [t \in Traders |->
                        [free     |-> margin[t].free + EscrowOf(of(t)),
                         reserved |-> margin[t].reserved - EscrowOf(of(t)),
                         locked   |-> margin[t].locked]]
        /\ seatCount' = [t \in Traders |-> SatSub(seatCount[t], Cardinality(of(t)))]
        /\ book' = book \ S
    BY <1>2 DEF PruneExpired
  <2> HIDE DEF of
  <2>4. margin' \in [Traders -> Balances]
    BY <1>m, <2>2, <2>3 DEF Balances
  <2>5. seatCount' \in [Traders -> Nat]
    BY <1>m, <2>2, <2>3 DEF SatSub
  <2>6. book' \subseteq Intents /\ IsFiniteSet(book') /\ PricesValid'
    BY <1>m, <2>3, FS_Subset DEF TypeInv, PricesValid
  <2> QED BY <1>2, <2>4, <2>5, <2>6, TypeFrame DEF PruneExpired, TypeInv, TypeOK
<1> QED BY <1>1, <1>2 DEF Leaving

(* The two ways to match resting intents. *)
LEMMA MatchingType == TypeInv /\ Matching => TypeInv'
<1> SUFFICES ASSUME TypeInv, Matching PROVE TypeInv'
  OBVIOUS
<1>1. PICK l \in book, s \in book, bps \in MatchBps :
        /\ MatchPairCore(margin, book, nextId, l, s, bps)
        /\ UNCHANGED <<opened, vault, seatCount, nextSeq, market, controls, now>>
  BY DEF Matching, MatchPair, MatchBestAvailable, MatchBps
<1>2. /\ margin \in [Traders -> Balances]
      /\ book \in SUBSET Intents /\ IsFiniteSet(book)
      /\ \A i \in book : 0 < i.price /\ i.price < PRICE_ONE
      /\ nextId \in Nat
      /\ seatCount \in [Traders -> Nat] /\ nextSeq \in Nat
  BY DEF TypeInv, TypeOK, PricesValid
<1>3. /\ margin' \in [Traders -> Balances]
      /\ accrued' \in Nat
      /\ book' \subseteq Intents /\ IsFiniteSet(book') /\ PricesValid'
      /\ pmlcs' \subseteq Pmlcs /\ IsFiniteSet(pmlcs') /\ FillWithinLimits'
      /\ nextId' \in Nat
  BY <1>1, <1>2, MatchType
<1> QED BY <1>1, <1>2, <1>3, TypeFrame DEF TypeInv, TypeOK

(* Liquidations, resolutions and mutual closes. *)
LEMMA SettlingType == TypeInv /\ Settling => TypeInv'
<1> SUFFICES ASSUME TypeInv, Settling PROVE TypeInv'
  OBVIOUS
<1>m. /\ market \in [nonce : Nat, resolved : BOOLEAN, outcome : Outcomes]
      /\ opened \subseteq Traders
  BY DEF TypeInv, TypeOK
<1>p. ASSUME NEW p \in pmlcs
      PROVE  /\ p \in Pmlcs /\ 0 < p.entry /\ p.long \in Traders /\ p.short \in Traders
             /\ \A mark \in Nat : PnlAt(p, mark) \in Int /\ LongEquity(p, mark) \in Nat
  <2>1. p \in Pmlcs /\ 0 < p.entry
    BY DEF TypeInv, TypeOK, FillWithinLimits
  <2>2. \A mark \in Nat : PnlAt(p, mark) \in Int /\ LongEquity(p, mark) \in 0..(2 * Bucket)
    BY <2>1, EquityType
  <2> QED BY <2>1, <2>2, InstrumentAssumption DEF Pmlcs
<1>s. ASSUME NEW eq \in Nat PROVE SatSub(2 * Bucket, eq) \in Nat
  BY InstrumentAssumption DEF SatSub
<1>r. ASSUME NEW p \in pmlcs, NEW status \in Terminal, Replace(p, [p EXCEPT !.status = status])
      PROVE  pmlcs' \subseteq Pmlcs /\ IsFiniteSet(pmlcs') /\ FillWithinLimits'
  <2> DEFINE q == [p EXCEPT !.status = status]
  <2>1. /\ q \in Pmlcs
        /\ q.entry = p.entry /\ q.longPrice = p.longPrice /\ q.shortPrice = p.shortPrice
    BY <1>p DEF Pmlcs
  <2> HIDE DEF q
  <2>2. Replace(p, q)
    BY <1>r DEF q
  <2> QED BY <2>1, <2>2, ReplaceType
<1>1. ASSUME NEW p \in pmlcs, NEW keeper \in Traders, NEW mark \in Marks, NEW nonce \in Nonces,
             Liquidate(p, keeper, mark, nonce)
      PROVE  TypeInv'
  <2> DEFINE long == IF LongEquity(p, mark) > SatSub(2 * Bucket, LongEquity(p, mark))
                     THEN Prize ELSE 0
             short == IF LongEquity(p, mark) > SatSub(2 * Bucket, LongEquity(p, mark))
                      THEN 0 ELSE Prize
             paid == Settled(p, long, short)
  <2>1. /\ Covered(paid, p.long) /\ Covered(paid, p.short)
        /\ margin' = Adjust(paid, keeper, Bounty, 0, 0)
    BY <1>1 DEF Liquidate
  <2>2. long \in Nat /\ short \in Nat
    BY AmountTypes
  <2>3. paid \in [Traders -> Balances]
    <3> HIDE DEF long, short
    <3> QED BY <2>1, <2>2, SettledType
  <2> HIDE DEF paid
  <2>4. Covered(Adjust(paid, keeper, Bounty, 0, 0), keeper)
    BY <2>3, AmountTypes DEF Covered, Adjust, Balances
  <2>5. margin' \in [Traders -> Balances]
    <3>1. Bounty \in Int /\ 0 \in Int
      BY AmountTypes
    <3>2. Adjust(paid, keeper, Bounty, 0, 0) \in [Traders -> Balances]
      BY <2>3, <2>4, <3>1, AdjustOnce
    <3> QED BY <2>1, <3>2
  <2>6. market' \in [nonce : Nat, resolved : BOOLEAN, outcome : Outcomes]
    BY <1>m, <1>1, InputsAssumption DEF Liquidate
  <2>7. pmlcs' \subseteq Pmlcs /\ IsFiniteSet(pmlcs') /\ FillWithinLimits'
    BY <1>1, <1>r DEF Liquidate, Terminal
  <2> QED BY <1>1, <2>5, <2>6, <2>7, TypeFrame DEF Liquidate, TypeInv, TypeOK
<1>2. ASSUME NEW p \in pmlcs, NEW outcome \in Outcomes, NEW nonce \in Nonces,
             Resolve(p, outcome, nonce)
      PROVE  TypeInv'
  <2> DEFINE pnl == ResolvedPnl(p, outcome)
             eqLong == BoundedEquity(Bucket, pnl)
             eqShort == SatSub(2 * Bucket, eqLong)
  <2>1. pnl \in Int
    <3>1. PRICE_ONE \div 2 \in Nat
      BY ScalesAssumption, DivNat
    <3>2. PnlAt(p, PRICE_ONE \div 2) \in Int
      BY <1>p, <3>1
    <3> QED BY <3>2, InstrumentAssumption DEF ResolvedPnl
  <2>2. eqLong \in Nat
    <3> HIDE DEF pnl
    <3>1. eqLong \in 0..(2 * Bucket)
      BY <2>1, EquityRange, InstrumentAssumption
    <3> QED BY <3>1, InstrumentAssumption
  <2>3. eqShort \in Nat
    <3> HIDE DEF eqLong
    <3> QED BY <2>2, <1>s
  <2>4. /\ margin' = Settled(p, eqLong, eqShort)
        /\ Covered(margin', p.long) /\ Covered(margin', p.short)
    BY <1>2 DEF Resolve
  <2>5. margin' \in [Traders -> Balances]
    <3> HIDE DEF eqLong, eqShort
    <3> QED BY <2>2, <2>3, <2>4, SettledType
  <2>6. market' \in [nonce : Nat, resolved : BOOLEAN, outcome : Outcomes]
    BY <1>2, InputsAssumption DEF Resolve
  <2>7. pmlcs' \subseteq Pmlcs /\ IsFiniteSet(pmlcs') /\ FillWithinLimits'
    BY <1>2, <1>r DEF Resolve, Terminal
  <2> QED BY <1>2, <2>5, <2>6, <2>7, TypeFrame DEF Resolve, TypeInv, TypeOK
<1>3. ASSUME NEW p \in pmlcs, NEW mark \in Marks, NEW nonce \in Nonces,
             CloseMutual(p, mark, nonce)
      PROVE  TypeInv'
  <2> DEFINE eqLong == LongEquity(p, mark)
             eqShort == SatSub(2 * Bucket, eqLong)
  <2>1. eqLong \in Nat
    BY <1>p, InputsAssumption
  <2>2. eqShort \in Nat
    <3> HIDE DEF eqLong
    <3> QED BY <2>1, <1>s
  <2>3. /\ margin' = Settled(p, eqLong, eqShort)
        /\ Covered(margin', p.long) /\ Covered(margin', p.short)
    BY <1>3 DEF CloseMutual
  <2>4. margin' \in [Traders -> Balances]
    <3> HIDE DEF eqLong, eqShort
    <3> QED BY <2>1, <2>2, <2>3, SettledType
  <2>5. market' \in [nonce : Nat, resolved : BOOLEAN, outcome : Outcomes]
    BY <1>m, <1>3, InputsAssumption DEF CloseMutual
  <2>6. pmlcs' \subseteq Pmlcs /\ IsFiniteSet(pmlcs') /\ FillWithinLimits'
    BY <1>3, <1>r DEF CloseMutual, Terminal
  <2> QED BY <1>3, <2>4, <2>5, <2>6, TypeFrame DEF CloseMutual, TypeInv, TypeOK
<1> QED BY <1>1, <1>2, <1>3 DEF Settling

(* Novations and substitutions. *)
LEMMA TransferringType == TypeInv /\ Transferring => TypeInv'
<1> SUFFICES ASSUME TypeInv, Transferring PROVE TypeInv'
  OBVIOUS
<1>m. margin \in [Traders -> Balances] /\ book \subseteq Intents /\ IsFiniteSet(book)
  BY DEF TypeInv, TypeOK
<1>b. Bucket \in Int /\ -Bucket \in Int /\ 0 \in Int
  BY InstrumentAssumption
<1>r. ASSUME NEW p \in pmlcs, NEW side \in Sides, NEW t \in Traders,
             Replace(p, WithOwner(p, side, t))
      PROVE  pmlcs' \subseteq Pmlcs /\ IsFiniteSet(pmlcs') /\ FillWithinLimits'
  <2> DEFINE q == WithOwner(p, side, t)
  <2>1. /\ q \in Pmlcs
        /\ q.entry = p.entry /\ q.longPrice = p.longPrice /\ q.shortPrice = p.shortPrice
    BY DEF WithOwner, Pmlcs, TypeInv, TypeOK
  <2> HIDE DEF q
  <2>2. Replace(p, q)
    BY <1>r DEF q
  <2> QED BY <2>1, <2>2, ReplaceType
<1>1. ASSUME NEW p \in pmlcs, NEW side \in Sides, NEW new \in Traders, Novate(p, side, new)
      PROVE  TypeInv'
  <2> DEFINE old == OwnerOf(p, side)
             freed == Adjust(margin, old, Bucket, 0, -Bucket)
  <2>1. old \in Traders
    BY DEF OwnerOf, Pmlcs, TypeInv, TypeOK
  <2>2. /\ Covered(freed, old)
        /\ margin' = Adjust(freed, new, -Bucket, 0, Bucket)
        /\ Covered(margin', new)
    BY <1>1 DEF Novate
  <2>3. freed \in [Traders -> Balances]
    <3> HIDE DEF old
    <3> QED BY <1>m, <1>b, <2>1, <2>2, AdjustOnce
  <2>4. margin' \in [Traders -> Balances]
    <3> HIDE DEF freed
    <3> QED BY <1>b, <2>2, <2>3, AdjustOnce
  <2>5. pmlcs' \subseteq Pmlcs /\ IsFiniteSet(pmlcs') /\ FillWithinLimits'
    BY <1>1, <1>r DEF Novate
  <2> QED BY <1>1, <2>4, <2>5, TypeFrame DEF Novate, TypeInv, TypeOK
<1>2. ASSUME NEW p \in pmlcs, NEW sub \in Traders, NEW l \in book, NEW s \in book,
             NEW withSettle \in BOOLEAN, Substitute(p, sub, l, s, withSettle)
      PROVE  TypeInv'
  <2> DEFINE leaves == IF s.owner = sub THEN "long" ELSE "short"
             mine == IF l.owner = sub THEN l ELSE s
             theirs == IF l.owner = sub THEN s ELSE l
             delta == ExitDelta(p, leaves, l, s, withSettle)
             exit == Adjust(margin, sub, 2 * Bucket + FeeRelease(mine) + delta,
                            -(Bucket + FeeRelease(mine)), -Bucket)
  <2>1. /\ CanCross(l, s)
        /\ Covered(exit, sub)
        /\ margin' = Adjust(exit, theirs.owner, FeeRelease(theirs) - delta,
                            -(Bucket + FeeRelease(theirs)), Bucket)
        /\ Covered(margin', theirs.owner)
        /\ book' = FilledBook(book, l, s)
        /\ Replace(p, WithOwner(p, leaves, theirs.owner))
        /\ UNCHANGED <<opened, vault, accrued, seatCount, nextId, nextSeq, market, controls, now>>
    BY <1>2 DEF Substitute, Enters, Leaves
  <2>2. /\ l \in Intents /\ s \in Intents /\ CanFill(l) /\ CanFill(s)
        /\ l.remaining # 0 /\ s.remaining # 0 /\ s.price <= l.price
    BY <1>m, <2>1 DEF CanCross, CanFill, Live
  <2>3. FeeRelease(mine) \in Nat /\ FeeRelease(theirs) \in Nat /\ theirs.owner \in Traders
    BY <2>2, FeeReleaseType DEF Intents
  <2>4. delta \in Int
    <3>1. p \in Pmlcs /\ 0 < p.entry
      BY DEF TypeInv, TypeOK, FillWithinLimits
    <3>2. l.price \in Nat /\ s.price \in Nat
      BY <2>2 DEF Intents
    <3>3. PriceMidpoint(l.price, s.price) \in Nat
      BY <2>2, <3>2, MidpointBetween
    <3>4. PnlAt(p, PriceMidpoint(l.price, s.price)) \in Int
      BY <3>1, <3>3, EquityType
    <3> QED BY <3>4 DEF ExitDelta
  <2>5. exit \in [Traders -> Balances]
    <3> HIDE DEF delta, mine
    <3>1. /\ 2 * Bucket + FeeRelease(mine) + delta \in Int
          /\ -(Bucket + FeeRelease(mine)) \in Int
      BY <2>3, <2>4, InstrumentAssumption
    <3> QED BY <1>m, <1>b, <2>1, <3>1, AdjustOnce
  <2>6. margin' \in [Traders -> Balances]
    <3> HIDE DEF delta, theirs, exit
    <3>1. FeeRelease(theirs) - delta \in Int /\ -(Bucket + FeeRelease(theirs)) \in Int
      BY <2>3, <2>4, InstrumentAssumption
    <3> QED BY <1>b, <2>1, <2>3, <2>5, <3>1, AdjustOnce
  <2>7. book' \subseteq Intents /\ IsFiniteSet(book') /\ PricesValid'
    <3>1. \A i \in book : 0 < i.price /\ i.price < PRICE_ONE
      BY DEF TypeInv, PricesValid
    <3> QED BY <1>m, <2>1, <2>2, <3>1, FilledBookType DEF PricesValid
  <2>8. pmlcs' \subseteq Pmlcs /\ IsFiniteSet(pmlcs') /\ FillWithinLimits'
    <3>1. leaves \in Sides
      BY DEF Sides
    <3> HIDE DEF leaves, theirs
    <3> QED BY <1>r, <2>1, <2>3, <3>1
  <2> HIDE DEF exit, leaves, delta, theirs, mine
  <2> QED BY <2>1, <2>6, <2>7, <2>8, TypeFrame DEF TypeInv, TypeOK
<1> QED BY <1>1, <1>2 DEF Transferring

(* Closed accounts and reentry claims. *)
LEMMA EndingType == TypeInv /\ Ending => TypeInv'
<1> SUFFICES ASSUME TypeInv, Ending PROVE TypeInv'
  OBVIOUS
<1>m. /\ margin \in [Traders -> Balances] /\ seatCount \in [Traders -> Nat]
      /\ book \subseteq Intents /\ IsFiniteSet(book) /\ nextId \in Nat /\ nextSeq \in Nat
  BY DEF TypeInv, TypeOK
<1>r. ASSUME NEW p \in pmlcs, NEW side \in Sides, Replace(p, WithoutReentry(p, side))
      PROVE  pmlcs' \subseteq Pmlcs /\ IsFiniteSet(pmlcs') /\ FillWithinLimits'
  <2> DEFINE q == WithoutReentry(p, side)
  <2>1. /\ q \in Pmlcs
        /\ q.entry = p.entry /\ q.longPrice = p.longPrice /\ q.shortPrice = p.shortPrice
    BY DEF WithoutReentry, Pmlcs, TypeInv, TypeOK
  <2> HIDE DEF q
  <2>2. Replace(p, q)
    BY <1>r DEF q
  <2> QED BY <2>1, <2>2, ReplaceType
<1>1. ASSUME NEW p \in pmlcs, ClosePmlc(p) PROVE TypeInv'
  <2>1. pmlcs' = pmlcs \ {p}
    BY <1>1 DEF ClosePmlc
  <2>2. pmlcs' \subseteq Pmlcs /\ IsFiniteSet(pmlcs') /\ FillWithinLimits'
    BY <2>1, FS_Subset DEF TypeInv, TypeOK, FillWithinLimits
  <2> QED BY <1>1, <2>2, TypeFrame DEF ClosePmlc, TypeInv, TypeOK
<1>2. ASSUME NEW p \in pmlcs, NEW side \in Sides, NEW expiration \in Expirations,
             ClaimReentry(p, side, expiration)
      PROVE  TypeInv'
  <2> DEFINE t == OwnerOf(p, side)
             price == ReentryPrice(p, side)
             new(n) == NewIntent(t, side, n, price, expiration, TRUE)
  <2>1. PICK n \in 1..MAX_CONTRACTS :
          /\ CanClaim(p, side, expiration)
          /\ Affordable(t, n)
          /\ margin' = Adjust(margin, t, -Outlay(n), Outlay(n), 0)
          /\ book' = book \cup {new(n)}
          /\ seatCount' = [seatCount EXCEPT ![t] = @ + 1]
          /\ nextId' = nextId + 1
          /\ nextSeq' = nextSeq + 1
          /\ Replace(p, WithoutReentry(p, side))
          /\ UNCHANGED <<opened, vault, accrued, market, controls, now>>
    BY <1>2 DEF ClaimReentry
  <2>2. t \in Traders /\ price \in Nat /\ n \in Nat /\ expiration \in Nat
    BY InstrumentAssumption
       DEF OwnerOf, ReentryPrice, Pmlcs, TypeInv, TypeOK, Expirations
  <2>3. 0 < price /\ price < PRICE_ONE
    BY <2>1 DEF CanClaim, ValidatePriceTicked
  <2>4. new(n) \in Intents /\ new(n).price = price
    <3> HIDE DEF t, price
    <3>1. \A reentry \in BOOLEAN :
            /\ NewIntent(t, side, n, price, expiration, reentry) \in Intents
            /\ NewIntent(t, side, n, price, expiration, reentry).price = price
      BY <2>2, NewIntentType
    <3> QED BY <3>1, Zenon
  <2>5. book' \subseteq Intents /\ IsFiniteSet(book') /\ PricesValid'
    <3> DEFINE i == new(n)
    <3>1. book' = book \cup {i} /\ i \in Intents /\ 0 < i.price /\ i.price < PRICE_ONE
      BY <2>1, <2>3, <2>4
    <3> HIDE DEF i
    <3> QED BY <1>m, <3>1, FS_AddElement DEF TypeInv, PricesValid
  <2> HIDE DEF t, new, price
  <2>6. margin' \in [Traders -> Balances]
    <3>1. Outlay(n) \in Nat /\ Outlay(n) <= margin[t].free
      BY <2>1, <2>2, AmountTypes DEF Affordable
    <3>2. -Outlay(n) \in Int /\ Outlay(n) \in Int /\ 0 \in Int
      BY <3>1
    <3>3. Covered(Adjust(margin, t, -Outlay(n), Outlay(n), 0), t)
      BY <1>m, <2>2, <3>1 DEF Covered, Adjust, Balances
    <3> QED BY <1>m, <2>1, <2>2, <3>2, <3>3, AdjustOnce
  <2>7. seatCount' \in [Traders -> Nat] /\ nextId' \in Nat /\ nextSeq' \in Nat
    BY <1>m, <2>1, <2>2
  <2>8. pmlcs' \subseteq Pmlcs /\ IsFiniteSet(pmlcs') /\ FillWithinLimits'
    BY <2>1, <1>r
  <2> QED BY <2>1, <2>5, <2>6, <2>7, <2>8, TypeFrame DEF TypeInv, TypeOK
<1>3. ASSUME NEW p \in pmlcs, NEW side \in Sides, NEW expiration \in Expirations,
             ClaimReentryUnfunded(p, side, expiration)
      PROVE  TypeInv'
  <2>1. pmlcs' \subseteq Pmlcs /\ IsFiniteSet(pmlcs') /\ FillWithinLimits'
    BY <1>3, <1>r DEF ClaimReentryUnfunded
  <2> QED BY <1>3, <2>1, TypeFrame DEF ClaimReentryUnfunded, TypeInv, TypeOK
<1> QED BY <1>1, <1>2, <1>3 DEF Ending

(* Pauses, status changes and the clock. *)
LEMMA AdministeringType == TypeInv /\ Administering => TypeInv'
<1> SUFFICES ASSUME TypeInv, Administering PROVE TypeInv'
  OBVIOUS
<1>1. ASSUME NEW value \in PauseInputs, SetGlobalPause(value) PROVE TypeInv'
  BY <1>1, TypeFrame, InputsAssumption DEF SetGlobalPause, TypeInv, TypeOK
<1>2. ASSUME NEW value \in StatusInputs, SetInstrumentStatus(value) PROVE TypeInv'
  BY <1>2, TypeFrame, InputsAssumption DEF SetInstrumentStatus, TypeInv, TypeOK
<1>3. ASSUME Tick PROVE TypeInv'
  BY <1>3, TypeFrame DEF Tick, TypeInv, TypeOK
<1> QED BY <1>1, <1>2, <1>3 DEF Administering

(* Every step of the exchange preserves the invariant. *)
LEMMA TypeStep == TypeInv /\ [Next]_vars => TypeInv'
<1> SUFFICES ASSUME TypeInv, [Next]_vars PROVE TypeInv'
  OBVIOUS
<1>1. CASE UNCHANGED vars
  <2>1. /\ UNCHANGED ledger /\ UNCHANGED orders /\ UNCHANGED pmlcs
        /\ UNCHANGED market /\ UNCHANGED controls /\ UNCHANGED now
    BY <1>1 DEF vars
  <2> QED BY <2>1, TypeFrame DEF TypeInv, TypeOK
<1>2. CASE Next
  BY <1>2, AccountsType, PostingType, LeavingType, MatchingType, SettlingType,
     TransferringType, EndingType, AdministeringType DEF Next
<1> QED BY <1>1, <1>2

(* Every balance, counter and price of the exchange stays in its domain: no   *)
(* handler drives a balance below zero, however it is interleaved with the    *)
(* others, and even when the same account stands on both sides of a handler.  *)
THEOREM TypeCorrect == Spec => []TypeOK
<1>1. TypeInv => TypeOK
  BY DEF TypeInv
<1> QED BY <1>1, TypeInit, TypeStep, PTL DEF Spec

(* Every position was opened at a price within the limits of both sides, for  *)
(* every scale of prices, tick and pair of crossing intents; through           *)
(* novations, substitutions and reentries it stays the price it was.          *)
THEOREM LimitsRespected == Spec => []FillWithinLimits
<1>1. TypeInv => FillWithinLimits
  BY DEF TypeInv
<1> QED BY <1>1, TypeInit, TypeStep, PTL DEF Spec
=============================================================================
