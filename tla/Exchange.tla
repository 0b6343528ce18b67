------------------------------ MODULE Exchange ------------------------------
(***************************************************************************)
(* One instrument of the exchange: the margin accounts of its traders, its  *)
(* intent book, the positions (PMLCs) matched on it and the fee treasury.   *)
(* A handler of the program runs as one atomic transaction, so every        *)
(* handler is one action; an error return is a disabled action, since the   *)
(* runtime reverts the transaction.  The exception is the inline match of   *)
(* PostIntent, whose error is swallowed: PostIntentMatchFailed.             *)
(*                                                                         *)
(* Account validation (owners, PDAs, signatures) fixes which accounts a     *)
(* handler works on, and appears as the choice of its parameters.           *)
(***************************************************************************)
EXTENDS FixedMath, Totals

CONSTANTS
  Traders,              \* the owners of margin accounts, keepers included
  Bucket,               \* collateral_bucket, the c of each side of a position
  LeverageBps,
  TickFp,
  LiquidationBps,
  LiquidationBountyBps,
  CachedMaxFeeBps,      \* cached_max_fee_bps of the book header
  TierBps,              \* the fees the tiers of the schedule charge
  InlineBps,            \* the fees of the schedules posts supply for their own match
  MAX_PRUNES_PER_POST,
  MAX_CONTRACTS,        \* u16::MAX
  InlineMatchCanFail,   \* can an inline match meet stale accounts or an unpaid fee?
  (* Inputs of the handlers. *)
  Amounts,              \* deposits, withdrawals and sweeps
  Prices,
  Contracts,
  ReentryInputs,
  Marks,                \* attested prices
  Nonces,               \* attested nonces
  PauseInputs,
  StatusInputs,
  (* Bounds. *)
  MaxVault, MaxId, MaxSlot

ASSUME InstrumentAssumption ==
  /\ IsFiniteSet(Traders)
  /\ Bucket \in Nat \ {0}
  /\ {LeverageBps, LiquidationBps, LiquidationBountyBps, CachedMaxFeeBps} \subseteq Nat
  /\ TickFp \in Nat
  /\ TierBps \cup InlineBps \subseteq Nat
  /\ {MAX_PRUNES_PER_POST, MAX_CONTRACTS, MaxVault, MaxId, MaxSlot} \subseteq Nat
  /\ InlineMatchCanFail \in BOOLEAN

ASSUME InputsAssumption ==
  /\ Amounts \subseteq Nat
  /\ Prices \subseteq Nat
  /\ Contracts \subseteq 0..MAX_CONTRACTS
  /\ Marks \subseteq Nat
  /\ Nonces \subseteq Nat
  /\ ReentryInputs \subseteq BOOLEAN
  /\ PauseInputs \subseteq BOOLEAN
  /\ StatusInputs \subseteq BOOLEAN

VARIABLES
  opened,      \* the traders whose margin account exists
  margin,      \* trader -> free, reserved and locked collateral
  vault,       \* tokens held by the collateral vault
  accrued,     \* fees accrued by the treasury and not swept
  book,        \* the resting intents
  seatCount,   \* trader -> active_intent_count of its seat
  pmlcs,       \* the position accounts that exist
  nextId,      \* next_intent_id of the book: intents and positions share it
  nextSeq,     \* next_seq of the book
  market,      \* the market's nonce account
  paused,      \* global_pause
  active,      \* status = STATUS_ACTIVE
  now          \* the current slot

ledger == <<opened, margin, vault, accrued>>
orders == <<book, seatCount, nextId, nextSeq>>
controls == <<paused, active>>
vars == <<ledger, orders, pmlcs, market, controls, now>>

Sides == {"long", "short"}
Opposite(side) == IF side = "long" THEN "short" ELSE "long"

Balances == [free : Nat, reserved : Nat, locked : Nat]

Intents ==
  [id : Nat, owner : Traders, side : Sides, price : Nat, remaining : Nat,
   expiration : Nat, seq : Nat, reserved : Nat, feeBuffer : Nat, reentry : BOOLEAN]

Terminal == {"liquidated", "resolved", "closed"}

Pmlcs ==
  [id : Nat, status : {"live"} \cup Terminal, long : Traders, short : Traders,
   entry : Nat, longReentry : BOOLEAN, shortReentry : BOOLEAN,
   longPrice : Nat, shortPrice : Nat]

Init ==
  /\ opened = {}
  /\ margin = [t \in Traders |-> [free |-> 0, reserved |-> 0, locked |-> 0]]
  /\ vault = 0
  /\ accrued = 0
  /\ book = {}
  /\ seatCount = [t \in Traders |-> 0]
  /\ pmlcs = {}
  /\ nextId = 1
  /\ nextSeq = 1
  /\ market = [nonce |-> 0, resolved |-> FALSE, outcome |-> 0]
  /\ paused = FALSE
  /\ active = TRUE
  /\ now = 0

-----------------------------------------------------------------------------
(* Margin accounts *)

(* The balances of t change by the given amounts, in the order the handler   *)
(* moves them; every debit is a checked_sub, so the handler fails unless the  *)
(* result is Covered.                                                         *)
Adjust(mg, t, free, reserved, locked) ==
  [mg EXCEPT ![t] = [free     |-> @.free + free,
                     reserved |-> @.reserved + reserved,
                     locked   |-> @.locked + locked]]

CoveredUncheckedFree(mg, t) ==
  /\ mg[t].reserved >= 0
  /\ mg[t].locked >= 0

Covered(mg, t) ==
  /\ mg[t].free >= 0
  /\ mg[t].reserved >= 0
  /\ mg[t].locked >= 0

CreateMarginAccount(t) ==
  /\ t \notin opened
  /\ opened' = opened \cup {t}
  /\ UNCHANGED <<margin, vault, accrued, orders, pmlcs, market, controls, now>>

Deposit(t, amount) ==
  /\ amount > 0
  /\ t \in opened
  /\ vault + amount <= MaxVault
  /\ vault' = vault + amount
  /\ margin' = Adjust(margin, t, amount, 0, 0)
  /\ UNCHANGED <<opened, accrued, orders, pmlcs, market, controls, now>>

Withdraw(t, amount) ==
  /\ amount > 0
  /\ t \in opened
  /\ margin' = Adjust(margin, t, -amount, 0, 0)
  /\ Covered(margin', t)
  /\ amount <= vault
  /\ vault' = vault - amount
  /\ UNCHANGED <<opened, accrued, orders, pmlcs, market, controls, now>>

SweepFees(amount) ==
  /\ 0 < amount
  /\ amount <= accrued
  /\ amount <= vault
  /\ accrued' = accrued - amount
  /\ vault' = vault - amount
  /\ UNCHANGED <<opened, margin, orders, pmlcs, market, controls, now>>

-----------------------------------------------------------------------------
(* Intents *)

ExpiredLate(i) == i.expiration < now

Expired(i) == i.expiration <= now

Escrow(i) == i.reserved + i.feeBuffer

(* What the intents of S hold in reserve, refunded when they leave the book. *)
EscrowOf(S) == Total(S, [i \in S |-> Escrow(i)])

FeeBufferFor(n) == Bps(n * Bucket, CachedMaxFeeBps)

Outlay(n) == n * Bucket + FeeBufferFor(n)

SatSub(a, b) == IF a < b THEN 0 ELSE a - b

NewIntent(t, side, n, price, expiration, reentry) ==
  [id |-> nextId, owner |-> t, side |-> side, price |-> price, remaining |-> n,
   expiration |-> expiration, seq |-> nextSeq, reserved |-> n * Bucket,
   feeBuffer |-> FeeBufferFor(n), reentry |-> reentry]

(* Prune-on-post scans the nodes in storage order and stops after             *)
(* MAX_PRUNES_PER_POST of the poster's expired intents; which ones come       *)
(* first is left open.                                                        *)
PrunedOnPost(t) ==
  LET own == {i \in book : i.owner = t /\ Expired(i) /\ i.remaining # 0}
  IN  {S \in SUBSET own : \/ S = own /\ Cardinality(own) <= MAX_PRUNES_PER_POST
                          \/ /\ Cardinality(own) > MAX_PRUNES_PER_POST
                             /\ Cardinality(S) = MAX_PRUNES_PER_POST}

(* The margin accounts once the pruned intents are refunded and the new one   *)
(* is paid for.                                                               *)
PostMargin(t, n, pruned) ==
  Adjust(margin, t, EscrowOf(pruned) - Outlay(n), Outlay(n) - EscrowOf(pruned), 0)

CanPost(t, n, price, expiration, pruned) ==
  /\ ~paused
  /\ active
  /\ n > 0
  /\ ValidatePriceTicked(price, TickFp)
  /\ expiration > now
  /\ t \in opened
  /\ pruned \in PrunedOnPost(t)
  /\ EscrowOf(pruned) <= margin[t].reserved
  /\ Covered(PostMargin(t, n, pruned), t)
  /\ nextId < MaxId

PostCounters(t, pruned) ==
  /\ seatCount' = [seatCount EXCEPT ![t] = SatSub(@, Cardinality(pruned)) + 1]
  /\ nextSeq' = nextSeq + 1

(* PostIntent that does not try to match, or finds nothing to match with. *)
PostIntent(t, side, n, price, expiration, reentry) ==
  \E pruned \in PrunedOnPost(t) :
    /\ CanPost(t, n, price, expiration, pruned)
    /\ margin' = PostMargin(t, n, pruned)
    /\ book' = (book \ pruned) \cup {NewIntent(t, side, n, price, expiration, reentry)}
    /\ nextId' = nextId + 1
    /\ PostCounters(t, pruned)
    /\ UNCHANGED <<opened, vault, accrued, pmlcs, market, controls, now>>

(* The owner may cancel at any time, anyone else once the intent has expired. *)
CancelIntent(caller, i) ==
  /\ caller = i.owner \/ Expired(i)
  /\ margin' = Adjust(margin, i.owner, Escrow(i), -Escrow(i), 0)
  /\ Covered(margin', i.owner)
  /\ book' = book \ {i}
  /\ seatCount' = [seatCount EXCEPT ![i.owner] = SatSub(@, 1)]
  /\ UNCHANGED <<opened, vault, accrued, nextId, nextSeq, pmlcs, market, controls, now>>

(* The caller decides how many expired intents are pruned by the number of    *)
(* margin accounts it supplies.                                               *)
PruneExpired(S) ==
  LET of(t) == {i \in S : i.owner = t}
  IN  /\ S # {}
      /\ \A i \in S : Expired(i) /\ i.remaining # 0
      /\ \A t \in Traders : EscrowOf(of(t)) <= margin[t].reserved
      /\ margin' = [t \in Traders |->
                      [free     |-> margin[t].free + EscrowOf(of(t)),
                       reserved |-> margin[t].reserved - EscrowOf(of(t)),
                       locked   |-> margin[t].locked]]
      /\ book' = book \ S
      /\ seatCount' = [t \in Traders |-> SatSub(seatCount[t], Cardinality(of(t)))]
      /\ UNCHANGED <<opened, vault, accrued, nextId, nextSeq, pmlcs, market, controls, now>>

-----------------------------------------------------------------------------
(* Matching *)

Live(i) == i.remaining # 0 /\ ~Expired(i)

(* Price-time priority: the highest bid and the lowest ask come first, and    *)
(* the earlier of two intents at one price.                                   *)
BeforeWorstFirst(i, j) ==
  \/ IF i.side = "long" THEN i.price < j.price ELSE i.price > j.price
  \/ i.price = j.price /\ i.seq < j.seq

Before(i, j) ==
  \/ IF i.side = "long" THEN i.price > j.price ELSE i.price < j.price
  \/ i.price = j.price /\ i.seq < j.seq

IsFirstLive(bk, side, i) ==
  /\ i.side = side
  /\ Live(i)
  /\ \A j \in bk : j.side = side /\ Live(j) /\ j # i => Before(i, j)

FeeReleaseRecomputed(i) == FeeBufferFor(1)

(* release_fee_buffer_for_fill for the one contract a match fills. *)
FeeRelease(i) == IF i.remaining = 1 THEN i.feeBuffer ELSE i.feeBuffer \div i.remaining

FillKeepsReserve(i) ==
  [i EXCEPT !.remaining = @ - 1, !.feeBuffer = @ - FeeRelease(i)]

Fill(i) ==
  [i EXCEPT !.remaining = @ - 1, !.reserved = @ - Bucket, !.feeBuffer = @ - FeeRelease(i)]

CanFill(i) == Live(i) /\ i.reserved >= Bucket

(* A filled intent leaves the book with its last contract; the seat's count   *)
(* of active intents is not touched.                                          *)
FilledBook(bk, l, s) == (bk \ {l, s}) \cup {f \in {Fill(l), Fill(s)} : f.remaining # 0}

CanCross(l, s) ==
  /\ l.side = "long" /\ s.side = "short"
  /\ CanFill(l) /\ CanFill(s)
  /\ l.price >= s.price

TakerFee(bps) == Bps(Bucket, bps)

FeeOfBothSides(i, other, bps) == TakerFee(bps)

(* The intent that arrived later is the taker and pays the fee. *)
FeeOf(i, other, bps) == IF i.seq > other.seq THEN TakerFee(bps) ELSE 0

LegKeepsBuffer(mg, i, fee) == Adjust(mg, i.owner, -fee, -Bucket, Bucket)

LegLocksBuffer(mg, i, fee) ==
  Adjust(mg, i.owner, -fee, -(Bucket + FeeRelease(i)), Bucket + FeeRelease(i))

(* One side of a match: the contract's collateral is locked, its part of the  *)
(* fee buffer released, and the fee charged to free collateral.               *)
Leg(mg, i, fee) ==
  Adjust(mg, i.owner, FeeRelease(i) - fee, -(Bucket + FeeRelease(i)), Bucket)

AfterLong(mg, l, s, bps) == Leg(mg, l, FeeOf(l, s, bps))
AfterBoth(mg, l, s, bps) == Leg(AfterLong(mg, l, s, bps), s, FeeOf(s, l, bps))

NewPmlcSharesId(id, l, s) ==
  [id |-> id - 1, status |-> "live", long |-> l.owner, short |-> s.owner,
   entry |-> PriceMidpoint(l.price, s.price),
   longReentry |-> l.reentry, shortReentry |-> s.reentry,
   longPrice |-> l.price, shortPrice |-> s.price]

NewPmlc(id, l, s) ==
  [id |-> id, status |-> "live", long |-> l.owner, short |-> s.owner,
   entry |-> PriceMidpoint(l.price, s.price),
   longReentry |-> l.reentry, shortReentry |-> s.reentry,
   longPrice |-> l.price, shortPrice |-> s.price]

(* match_pair_core on margin accounts mg and book bk, when it succeeds. *)
MatchPairCore(mg, bk, id, l, s, bps) ==
  /\ CanCross(l, s)
  /\ Covered(AfterLong(mg, l, s, bps), l.owner)
  /\ Covered(AfterBoth(mg, l, s, bps), s.owner)
  /\ margin' = AfterBoth(mg, l, s, bps)
  /\ book' = FilledBook(bk, l, s)
  /\ pmlcs' = pmlcs \cup {NewPmlc(id, l, s)}
  /\ accrued' = accrued + TakerFee(bps)
  /\ nextId' = id + 1

MatchPair(l, s, bps) ==
  /\ active
  /\ MatchPairCore(margin, book, nextId, l, s, bps)
  /\ UNCHANGED <<opened, vault, seatCount, nextSeq, market, controls, now>>

MatchBestAvailable(bps) ==
  /\ active
  /\ \E l, s \in book :
       /\ IsFirstLive(book, "long", l)
       /\ IsFirstLive(book, "short", s)
       /\ MatchPairCore(margin, book, nextId, l, s, bps)
  /\ UNCHANGED <<opened, vault, seatCount, nextSeq, market, controls, now>>

Crosses(i, j) == IF i.side = "long" THEN i.price >= j.price ELSE j.price >= i.price

(* The counterparty that the inline match of a new intent finds. *)
IsOverlap(bk, new, cp) == IsFirstLive(bk, Opposite(new.side), cp) /\ Crosses(new, cp)

(* PostIntent whose inline match succeeds.  The poster supplies the account    *)
(* the fee is read from, and only MatchPair and MatchBestAvailable compare it  *)
(* with the program's own, so bps is any fee, a tier of the schedule or not.   *)
PostIntentMatched(t, side, n, price, expiration, reentry, bps) ==
  LET new == NewIntent(t, side, n, price, expiration, reentry)
  IN  \E pruned \in PrunedOnPost(t) : \E cp \in book \ pruned :
        /\ CanPost(t, n, price, expiration, pruned)
        /\ IsOverlap(book \ pruned, new, cp)
        /\ MatchPairCore(PostMargin(t, n, pruned), (book \ pruned) \cup {new}, nextId + 1,
                         IF side = "long" THEN new ELSE cp,
                         IF side = "long" THEN cp ELSE new, bps)
        /\ PostCounters(t, pruned)
        /\ UNCHANGED <<opened, vault, market, controls, now>>

(* PostIntent whose inline match fails.  The error is swallowed, and what     *)
(* match_pair_core wrote before it failed stays: the book is consumed first;  *)
(* stale accounts are noticed before the treasury and the margins are         *)
(* touched, an unpaid fee only at the end of the taker's leg, the long leg    *)
(* being the first of the two.                                                *)
PostIntentMatchFailed(t, side, n, price, expiration, reentry, bps) ==
  LET new == NewIntent(t, side, n, price, expiration, reentry)
  IN  \E pruned \in PrunedOnPost(t) : \E cp \in book \ pruned :
        LET posted == PostMargin(t, n, pruned)
            first == IF side = "long" THEN posted ELSE Leg(posted, cp, 0)
        IN  /\ InlineMatchCanFail
            /\ CanPost(t, n, price, expiration, pruned)
            /\ IsOverlap(book \ pruned, new, cp)
            /\ CanFill(new) /\ CanFill(cp)
            /\ book' = FilledBook((book \ pruned) \cup {new}, new, cp)
            /\ nextId' = nextId + 2
            /\ \/ /\ margin' = posted
                  /\ UNCHANGED accrued
               \/ /\ Covered(first, cp.owner)
                  /\ Covered(Leg(first, new, 0), t)
                  /\ ~Covered(Leg(first, new, TakerFee(bps)), t)
                  /\ accrued' = accrued + TakerFee(bps)
                  /\ margin' = Leg(first, new, 0)
            /\ PostCounters(t, pruned)
            /\ UNCHANGED <<opened, vault, pmlcs, market, controls, now>>

-----------------------------------------------------------------------------
(* Positions *)

Size(p) == PositionSizeFp(NotionalAtoms(Bucket, LeverageBps), p.entry)

PnlAt(p, mark) == PnlLongAtoms(p.entry, mark, Size(p))

LongEquity(p, mark) == BoundedEquity(Bucket, PnlAt(p, mark))

Replace(p, q) == pmlcs' = (pmlcs \ {p}) \cup {q}

AcceptNonceAgain(nonce) == nonce >= market.nonce

(* An attestation is accepted once: its nonce exceeds the market's last.  Its *)
(* timestamp is chosen by the attestor when it signs and leaves no trace.     *)
AcceptNonce(nonce) == nonce > market.nonce

CanSettleTwice(p) == ~paused /\ p.long # p.short

(* Both margin accounts are borrowed mutably at once, which fails when one    *)
(* trader owns both sides.                                                    *)
CanSettle(p) ==
  /\ ~paused
  /\ p.status = "live"
  /\ p.long # p.short

(* Both sides give up their locked collateral and are credited the amounts. *)
Settled(p, long, short) ==
  Adjust(Adjust(margin, p.long, long, 0, -Bucket), p.short, short, 0, -Bucket)

Threshold == Bps(Bucket, LiquidationBps)
Bounty == Bps(Bucket, LiquidationBountyBps)

PrizeUndiminished == 2 * Bucket

(* What the winner of a liquidation is credited. *)
Prize == SatSub(2 * Bucket, Bounty)

Liquidate(p, keeper, mark, nonce) ==
  LET eqLong == LongEquity(p, mark)
      eqShort == SatSub(2 * Bucket, eqLong)
      paid == IF eqLong > eqShort THEN Settled(p, Prize, 0) ELSE Settled(p, 0, Prize)
  IN  /\ CanSettle(p)
      /\ keeper \in opened
      /\ AcceptNonce(nonce)
      /\ eqLong <= Threshold \/ eqShort <= Threshold
      /\ Covered(paid, p.long) /\ Covered(paid, p.short)
      /\ margin' = Adjust(paid, keeper, Bounty, 0, 0)
      /\ Replace(p, [p EXCEPT !.status = "liquidated"])
      /\ market' = [market EXCEPT !.nonce = nonce]
      /\ UNCHANGED <<opened, vault, accrued, orders, controls, now>>

Outcomes == {0, BPS_DENOM \div 2, BPS_DENOM}

ResolvedPnl(p, outcome) ==
  IF outcome = 0 THEN -(2 * Bucket)
  ELSE IF outcome = BPS_DENOM THEN 2 * Bucket
  ELSE PnlAt(p, PRICE_ONE \div 2)

Resolve(p, outcome, nonce) ==
  LET eqLong == BoundedEquity(Bucket, ResolvedPnl(p, outcome))
      eqShort == SatSub(2 * Bucket, eqLong)
  IN  /\ CanSettle(p)
      /\ AcceptNonce(nonce)
      /\ margin' = Settled(p, eqLong, eqShort)
      /\ Covered(margin', p.long) /\ Covered(margin', p.short)
      /\ Replace(p, [p EXCEPT !.status = "resolved"])
      /\ market' = [nonce |-> nonce, resolved |-> TRUE, outcome |-> outcome]
      /\ UNCHANGED <<opened, vault, accrued, orders, controls, now>>

CloseMutual(p, mark, nonce) ==
  LET eqLong == LongEquity(p, mark)
      eqShort == SatSub(2 * Bucket, eqLong)
  IN  /\ CanSettle(p)
      /\ AcceptNonce(nonce)
      /\ margin' = Settled(p, eqLong, eqShort)
      /\ Covered(margin', p.long) /\ Covered(margin', p.short)
      /\ Replace(p, [p EXCEPT !.status = "closed"])
      /\ market' = [market EXCEPT !.nonce = nonce]
      /\ UNCHANGED <<opened, vault, accrued, orders, controls, now>>

OwnerOf(p, side) == IF side = "long" THEN p.long ELSE p.short

WithOwnerOpposite(p, side, t) ==
  IF side = "long" THEN [p EXCEPT !.short = t] ELSE [p EXCEPT !.long = t]

WithOwner(p, side, t) ==
  IF side = "long" THEN [p EXCEPT !.long = t] ELSE [p EXCEPT !.short = t]

(* Both owners sign; the old one's account is settled before the new one's, *)
(* which may be the same account.                                             *)
Novate(p, side, new) ==
  LET freed == Adjust(margin, OwnerOf(p, side), Bucket, 0, -Bucket)
  IN  /\ ~paused
      /\ p.status = "live"
      /\ new \in opened
      /\ Covered(freed, OwnerOf(p, side))
      /\ margin' = Adjust(freed, new, -Bucket, 0, Bucket)
      /\ Covered(margin', new)
      /\ Replace(p, WithOwner(p, side, new))
      /\ UNCHANGED <<opened, vault, accrued, orders, market, controls, now>>

(* What the one that leaves a side is paid for it, or pays: the profit of the  *)
(* side at the midpoint of the two intents, if it is to be settled.           *)
ExitDelta(p, leaves, l, s, withSettle) ==
  LET pnl == PnlAt(p, PriceMidpoint(l.price, s.price))
  IN  IF ~withSettle THEN 0 ELSE IF leaves = "long" THEN pnl ELSE -pnl

(* The owner of intent i gets back what i reserves, and the collateral of the *)
(* side it leaves.                                                            *)
Leaves(mg, i, delta) ==
  Adjust(mg, i.owner, 2 * Bucket + FeeRelease(i) + delta, -(Bucket + FeeRelease(i)), -Bucket)

EntersUnpaid(mg, i, delta) ==
  Adjust(mg, i.owner, FeeRelease(i), -(Bucket + FeeRelease(i)), Bucket)

(* The owner of intent i takes over a side and pays delta to the one that     *)
(* leaves it.                                                                 *)
Enters(mg, i, delta) ==
  Adjust(mg, i.owner, FeeRelease(i) - delta, -(Bucket + FeeRelease(i)), Bucket)

(* do_substitute: the owner of one side of p leaves it by an intent on the    *)
(* other side, and the owner of the intent it crosses takes the side over.    *)
Substitute(p, sub, l, s, withSettle) ==
  LET leaves == IF s.owner = sub THEN "long" ELSE "short"
      mine == IF l.owner = sub THEN l ELSE s
      theirs == IF l.owner = sub THEN s ELSE l
      delta == ExitDelta(p, leaves, l, s, withSettle)
      exit == Leaves(margin, mine, delta)
  IN  /\ active
      /\ p.status = "live"
      /\ CanCross(l, s)
      /\ s.price <= p.entry /\ p.entry <= l.price
      /\ sub \in {l.owner, s.owner}
      /\ OwnerOf(p, leaves) = sub
      /\ -Bucket <= delta /\ delta <= Bucket
      /\ Covered(exit, sub)
      /\ margin' = Enters(exit, theirs, delta)
      /\ Covered(margin', theirs.owner)
      /\ book' = FilledBook(book, l, s)
      /\ Replace(p, WithOwner(p, leaves, theirs.owner))
      /\ UNCHANGED <<opened, vault, accrued, seatCount, nextId, nextSeq, market, controls, now>>

(* Anyone may close the account of a position that has ended. *)
ClosePmlc(p) ==
  /\ p.status \in Terminal
  /\ pmlcs' = pmlcs \ {p}
  /\ UNCHANGED <<ledger, orders, market, controls, now>>

HasReentry(p, side) == IF side = "long" THEN p.longReentry ELSE p.shortReentry
ReentryPrice(p, side) == IF side = "long" THEN p.longPrice ELSE p.shortPrice

WithoutReentry(p, side) ==
  IF side = "long" THEN [p EXCEPT !.longReentry = FALSE]
  ELSE [p EXCEPT !.shortReentry = FALSE]

(* The contracts a claim re-posts: the most, at most MAX_CONTRACTS, that the  *)
(* owner's free collateral pays for.                                          *)
Affordable(t, n) ==
  /\ Outlay(n) <= margin[t].free
  /\ n = MAX_CONTRACTS \/ Outlay(n + 1) > margin[t].free

CanClaim(p, side, expiration) ==
  /\ ~paused
  /\ active
  /\ p.status \in Terminal
  /\ HasReentry(p, side)
  /\ ValidatePriceTicked(ReentryPrice(p, side), TickFp)
  /\ expiration > now

ClaimReentry(p, side, expiration) ==
  LET t == OwnerOf(p, side)
  IN  \E n \in 1..MAX_CONTRACTS :
        /\ CanClaim(p, side, expiration)
        /\ Affordable(t, n)
        /\ nextId < MaxId
        /\ margin' = Adjust(margin, t, -Outlay(n), Outlay(n), 0)
        /\ book' = book \cup
                     {NewIntent(t, side, n, ReentryPrice(p, side), expiration, TRUE)}
        /\ seatCount' = [seatCount EXCEPT ![t] = @ + 1]
        /\ nextId' = nextId + 1
        /\ nextSeq' = nextSeq + 1
        /\ Replace(p, WithoutReentry(p, side))
        /\ UNCHANGED <<opened, vault, accrued, market, controls, now>>

(* An owner that cannot pay for one contract loses the claim. *)
ClaimReentryUnfunded(p, side, expiration) ==
  /\ CanClaim(p, side, expiration)
  /\ Affordable(OwnerOf(p, side), 0)
  /\ Replace(p, WithoutReentry(p, side))
  /\ UNCHANGED <<ledger, orders, market, controls, now>>

-----------------------------------------------------------------------------
(* Administration, and the clock *)

SetGlobalPause(value) ==
  /\ paused' = value
  /\ UNCHANGED <<ledger, orders, pmlcs, market, active, now>>

SetInstrumentStatus(value) ==
  /\ active' = value
  /\ UNCHANGED <<ledger, orders, pmlcs, market, paused, now>>

Tick ==
  /\ now < MaxSlot
  /\ now' = now + 1
  /\ UNCHANGED <<ledger, orders, pmlcs, market, controls>>

-----------------------------------------------------------------------------
Expirations == 1..(MaxSlot + 1)

Accounts ==
  \/ \E t \in Traders : CreateMarginAccount(t)
  \/ \E t \in Traders, amount \in Amounts : Deposit(t, amount)
  \/ \E t \in Traders, amount \in Amounts : Withdraw(t, amount)
  \/ \E amount \in Amounts : SweepFees(amount)

Posting ==
  \E t \in Traders, side \in Sides, n \in Contracts, price \in Prices,
     expiration \in Expirations, reentry \in ReentryInputs :
    \/ PostIntent(t, side, n, price, expiration, reentry)
    \/ \E bps \in InlineBps : PostIntentMatched(t, side, n, price, expiration, reentry, bps)
    \/ \E bps \in InlineBps : PostIntentMatchFailed(t, side, n, price, expiration, reentry, bps)

Leaving ==
  \/ \E caller \in Traders, i \in book : CancelIntent(caller, i)
  \/ \E S \in SUBSET book : PruneExpired(S)

Matching ==
  \/ \E l, s \in book, bps \in TierBps : MatchPair(l, s, bps)
  \/ \E bps \in TierBps : MatchBestAvailable(bps)

Settling ==
  \/ \E p \in pmlcs, keeper \in Traders, mark \in Marks, nonce \in Nonces :
       Liquidate(p, keeper, mark, nonce)
  \/ \E p \in pmlcs, outcome \in Outcomes, nonce \in Nonces : Resolve(p, outcome, nonce)
  \/ \E p \in pmlcs, mark \in Marks, nonce \in Nonces : CloseMutual(p, mark, nonce)

Transferring ==
  \/ \E p \in pmlcs, side \in Sides, new \in Traders : Novate(p, side, new)
  \/ \E p \in pmlcs, sub \in Traders, l, s \in book, withSettle \in BOOLEAN :
       Substitute(p, sub, l, s, withSettle)

Ending ==
  \/ \E p \in pmlcs : ClosePmlc(p)
  \/ \E p \in pmlcs, side \in Sides, expiration \in Expirations :
       ClaimReentry(p, side, expiration)
  \/ \E p \in pmlcs, side \in Sides, expiration \in Expirations :
       ClaimReentryUnfunded(p, side, expiration)

Administering ==
  \/ \E value \in PauseInputs : SetGlobalPause(value)
  \/ \E value \in StatusInputs : SetInstrumentStatus(value)
  \/ Tick

Next ==
  \/ Accounts
  \/ Posting
  \/ Leaving
  \/ Matching
  \/ Settling
  \/ Transferring
  \/ Ending
  \/ Administering

Spec == Init /\ [][Next]_vars

(* Keepers run the two permissionless backstops.  Neither needs anyone's      *)
(* consent, so it is only their continued presence that is assumed.           *)
Keepers ==
  /\ WF_vars(\E S \in SUBSET book : PruneExpired(S))
  /\ WF_vars(\E bps \in TierBps : MatchBestAvailable(bps))

FairSpec == Spec /\ Keepers

-----------------------------------------------------------------------------
(* What is true of every state *)

TypeOK ==
  /\ opened \subseteq Traders
  /\ margin \in [Traders -> Balances]
  /\ vault \in Nat
  /\ accrued \in Nat
  /\ book \subseteq Intents
  /\ IsFiniteSet(book)
  /\ seatCount \in [Traders -> Nat]
  /\ pmlcs \subseteq Pmlcs
  /\ IsFiniteSet(pmlcs)
  /\ nextId \in Nat
  /\ nextSeq \in Nat
  /\ market \in [nonce : Nat, resolved : BOOLEAN, outcome : Outcomes]
  /\ paused \in BOOLEAN
  /\ active \in BOOLEAN
  /\ now \in Nat

(* Intents and positions share one id counter, and neither an id nor a        *)
(* sequence number is ever handed out twice (the PDA of a position is derived *)
(* from its id, and time priority from the sequence number).                  *)
IdsUnique ==
  /\ \A i, j \in book : i.id = j.id \/ i.seq = j.seq => i = j
  /\ \A p, q \in pmlcs : p.id = q.id => p = q
  /\ \A i \in book, p \in pmlcs : i.id # p.id
  /\ \A i \in book : i.id < nextId /\ i.seq < nextSeq
  /\ \A p \in pmlcs : p.id < nextId

(* A resting intent always has contracts left to fill, and holds exactly one  *)
(* bucket for each: a fill can neither underflow its reservation nor leave    *)
(* dust behind.                                                               *)
NodeBacking == \A i \in book : i.remaining > 0 /\ i.reserved = i.remaining * Bucket

IntentsOf(t) == {i \in book : i.owner = t}

(* The reserved balance of a trader is exactly what its resting intents hold, *)
(* so a cancel or prune can always be refunded and nothing is stranded.       *)
ReservedBacked == \A t \in Traders : margin[t].reserved = EscrowOf(IntentsOf(t))

LongsOf(t) == {p \in pmlcs : p.status = "live" /\ p.long = t}
ShortsOf(t) == {p \in pmlcs : p.status = "live" /\ p.short = t}

Stake(t) == Bucket * (Cardinality(LongsOf(t)) + Cardinality(ShortsOf(t)))

(* The locked balance of a trader is exactly one bucket for every side of a   *)
(* live position it owns, through novations, substitutions and settlements.   *)
LockedBacked == \A t \in Traders : margin[t].locked = Stake(t)

Wealth == [t \in Traders |-> margin[t].free + margin[t].reserved + margin[t].locked]

(* The vault holds what the traders and the treasury are owed, to the atom:   *)
(* matching and settling neither create nor destroy value.                    *)
Solvent == vault = Total(Traders, Wealth) + accrued

(* Every position was opened at a price within the limit of both sides, and   *)
(* at a price for which the position size is defined.                         *)
FillWithinLimits ==
  \A p \in pmlcs :
    /\ p.shortPrice <= p.entry /\ p.entry <= p.longPrice
    /\ 0 < p.entry /\ p.entry < PRICE_ONE

(* Each contract of a resting intent has in the intent's fee buffer the fee   *)
(* that any tier of the schedule may charge it, as the comments of fees.rs and *)
(* intent_book.rs say.                                                        *)
FeeCovered == \A i \in book, bps \in TierBps : FeeRelease(i) >= TakerFee(bps)

(* What remains of ReservedBacked and LockedBacked when inline matches fail:  *)
(* the balances never fall short of what is to be refunded or settled.        *)
BalancesCover ==
  \A t \in Traders :
    /\ margin[t].reserved >= EscrowOf(IntentsOf(t))
    /\ margin[t].locked >= Stake(t)

(* Unless the program is paused, nothing but an attestation is needed to end  *)
(* a live position: whatever was traded, novated and substituted before, both *)
(* accounts hold what Resolve takes from them.  A position of one owner on    *)
(* both sides, which cannot be settled, can be given to any account that can  *)
(* pay for a side, after which it can.                                        *)
SettlementOpen ==
  \A p \in pmlcs : p.status = "live" /\ ~paused =>
    IF p.long # p.short
    THEN \A outcome \in Outcomes : ENABLED Resolve(p, outcome, market.nonce + 1)
    ELSE \A t \in opened : margin[t].free >= Bucket => ENABLED Novate(p, "long", t)

-----------------------------------------------------------------------------
(* What no step may do *)

Same(p, q) == p.id = q.id

(* The life of a position.  Its terms are fixed at the match; its owners may  *)
(* change while it is live and never after; it ends once, and the way it      *)
(* ended stands; a right of reentry is never gained after the match, and is   *)
(* given up only after the end; and the account of a live position is never   *)
(* closed.                                                                    *)
PositionLifecycle ==
  [][\A p \in pmlcs :
       /\ p.status = "live" => \E q \in pmlcs' : Same(p, q)
       /\ \A q \in pmlcs' : Same(p, q) =>
            /\ <<q.entry, q.longPrice, q.shortPrice>> = <<p.entry, p.longPrice, p.shortPrice>>
            /\ p.status # "live" => <<q.status, q.long, q.short>> = <<p.status, p.long, p.short>>
            /\ q.longReentry => p.longReentry
            /\ q.shortReentry => p.shortReentry
            /\ p.status = "live" => /\ q.longReentry = p.longReentry
                                    /\ q.shortReentry = p.shortReentry]_vars

Ends(p) == p.status = "live" /\ \E q \in pmlcs' : Same(p, q) /\ q.status # "live"

(* The end of a position moves at most c from one of its owners to the other. *)
(* Nobody else loses, nobody else but the keeper gains, and the sum of all    *)
(* balances, the keeper's bounty included, stays the same.                    *)
BoundedSettlement ==
  [][\A p \in pmlcs : Ends(p) =>
       /\ \A t \in Traders :
            /\ Wealth'[t] >= Wealth[t] - (IF t \in {p.long, p.short} THEN Bucket ELSE 0)
            /\ Wealth'[t] <= Wealth[t] + (IF t \in {p.long, p.short} THEN Bucket ELSE Bounty)
       /\ Total(Traders, Wealth') = Total(Traders, Wealth)]_vars

(* One attestation ends at most one position: the end of a position raises    *)
(* the market's nonce, which never goes back.                                 *)
NonceConsumed ==
  [][/\ market'.nonce >= market.nonce
     /\ \A p \in pmlcs : Ends(p) => market'.nonce > market.nonce
     /\ \A p, q \in pmlcs : Ends(p) /\ Ends(q) => p = q]_vars

(* PostIntent adds the intent it is asked to add: unless a position is made   *)
(* of it, the intent is in the book after the step.                           *)
PostPreserved ==
  [][nextSeq' # nextSeq /\ {p.id : p \in pmlcs'} = {p.id : p \in pmlcs} =>
       \E i \in book' : i.seq = nextSeq]_vars

-----------------------------------------------------------------------------
(* What the exchange promises to the owners of collateral *)

LivePmlcs == {p \in pmlcs : p.status = "live"}

(* Every fee that a match may charge, through a keeper or inline. *)
MatchBps == TierBps \cup InlineBps

Promise == INSTANCE Custody
  WITH Collateral <- Bucket,
       Fees <- {TakerFee(bps) : bps \in MatchBps},
       Bounties <- {0, Bounty},
       wealth <- Wealth,
       treasury <- accrued,
       bets <- LivePmlcs

(* The exchange is a custodian of collateral: beneath its intents, prunes,    *)
(* inline matches, novations, substitutions, settlements and reentries, all   *)
(* that ever happens to wealth and positions is a deposit, a withdrawal, a    *)
(* sweep, a bet that one of its two owners pays a fee for, the sale of a side *)
(* between two accounts, or the division of two stakes; and no step leaves an *)
(* account worth less than the stakes of the sides it owns.                   *)
ImplementsCustody == Promise!Spec

-----------------------------------------------------------------------------
(* What eventually happens *)

(* Collateral of an expired intent does not stay in reserve forever, even if  *)
(* its owner never comes back.                                                *)
ExpiredLeave ==
  \A id \in 1..MaxId :
    (\E i \in book : i.id = id /\ i.expiration <= now) ~> (\A i \in book : i.id # id)

Crossed ==
  \E l, s \in book :
    /\ l.side = "long" /\ s.side = "short"
    /\ l.expiration > now /\ s.expiration > now
    /\ l.price >= s.price

(* The later of the two intents that the backstop picks pays the fee from its *)
(* owner's free collateral, since no buffer is reserved for it.               *)
TakerCannotPay ==
  \E l, s \in book, bps \in TierBps :
    /\ IsFirstLive(book, "long", l) /\ IsFirstLive(book, "short", s)
    /\ \E taker \in {l, s} :
         margin[taker.owner].free + FeeRelease(taker)
           < FeeOf(taker, IF taker = l THEN s ELSE l, bps)

(* A crossed book is matched: the best bid and ask that the backstop picks    *)
(* cross if any pair does, and nothing can keep the two from being matched    *)
(* but a taker that has not the fee.                                          *)
CrossedClears == Crossed ~> (~Crossed \/ TakerCannotPay)
=============================================================================
