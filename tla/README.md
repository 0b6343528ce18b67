# A TLA+ model of polyleverage

polyleverage is a Solana program: an order book of *intents* for leveraged
positions on prediction markets. Two crossing intents are matched into a
*PMLC*, a bilateral position with the same collateral `c` on each side, which is
later settled at an attested price, for at most `c` a side. This directory
models the program in TLA+, checks it with TLC on small instances, and proves
part of it with TLAPS for every instance.

Paths below are relative to the repository's root (`src/...` is the crate).

## 1. The system

| Component | State | Operations | Correct when |
|---|---|---|---|
| Margin accounts, vault (`processor/margin.rs`, `state/margin_account.rs`) | free, reserved and locked collateral per trader; tokens in the vault | create, deposit, withdraw; moved by all other handlers | the vault holds exactly what is owed; each balance is backed by an intent or a position |
| Intents (`processor/intent.rs`, `processor/close_prune.rs`) | the nodes of the book, seats, id and sequence counters | post (with prune-on-post and inline match), cancel, prune expired | every intent can be refunded; a post is not lost; expired intents leave |
| Matching (`processor/match_ix.rs`) | none of its own: consumes intents, creates PMLCs, accrues fees | MatchPair, MatchBestAvailable, inline match | price-time priority, entry within both limits, each fee debited once and accrued, a crossed book clears |
| Settlement (`processor/settlement.rs`, `processor/close_prune.rs`) | PMLC status, market nonce | Liquidate, Resolve, CloseMutual | each position ends once, moves at most `c`, conserves value, consumes an attestation |
| Transfer (`processor/novate.rs`, `processor/substitute.rs`) | PMLC owners | Novate, substitute with and without settlement | locked collateral follows the side |
| Reentry, closing (`processor/reentry.rs`, `processor/close_pmlc.rs`) | reentry flags, PMLC accounts | ClaimReentry, ClosePmlc | a right is never gained later; live accounts stay |
| Book storage (`state/intent_book.rs`, `processor/instrument.rs`) | node array, freelist, node_count, capacity | alloc_node, free_node, ExpandIntentBook | no slot is in use twice, none leaks |
| Book index (`state/intent_tree.rs`, `state/seat_tree.rs`) | red-black links in the nodes | insert, remove, walks | the trees stay balanced; the walk over a side is its price-time queue; an intent's seat is its owner's |
| Fee treasury and schedule (`processor/fees.rs`, `state/fee_*.rs`, `state/user_volume.rs`) | accrued fees; tiers; 30-day volumes | accrue, sweep; init and set schedule | fees accrued equal fees charged; a match by the program's schedule never charges above a maximum announced before; volumes follow their window |
| Attestations (`attestation.rs`, `state/market_nonce.rs`) | last nonce and outcome per market | verify, accept | no replay across a market's instruments; no key decides before its delay |
| Sessions (`processor/session.rs`, `processor/intent.rs`) | caps, expiry, spent amount | create, revoke, charge; delegated post and cancel | a session never charges beyond its caps; what a delegate takes besides is a fee; its cancel is the owner's |
| Governance (`processor/timelock.rs`, `processor/multisig.rs`, `processor/admin.rs`) | proposals, signers, threshold, pause | propose, execute, cancel, rotate, pause | a signer changes only after the delay |
| Stablecoin wrapper (`processor/wusd.rs`, `processor/registries.rs`) | accepted mints, wrapped supply | wrap, unwrap, add and remove mint | wrapped supply is backed atom for atom; removing a mint stops it alone |

The runtime runs each instruction as an atomic transaction over the accounts it
names, and reverts it on error. So a handler is one atomic step and an error
return is a step that does not happen. What remains hard is the interleaving of
handlers of different users over shared accounts, arithmetic at its edges, the
reuse of ids, nonces and slots, and the one place where an error is *not*
returned: the inline match of a post, whose error is logged and swallowed.
Handlers do not interact by messages; they share the accounts listed above.
`PROJECT.json` lists the hazards one by one, at the lines where they bite.

## 2. The modules

`FixedMath` is `src/math/fixed.rs`: the price check, the midpoint, the position
size, the truncating profit and the bounded equity. `PRICE_ONE` and `BPS_DENOM`
are parameters, so that TLC can use 4 and 2 where the program has 10^18 and
10 000, and the proofs cover both.

`Totals` defines the sum of a function over a set as the cardinality of a set of
atoms. It is equivalent to a fold, and can be reasoned about without induction.

`Exchange` is one instrument with everything that moves its collateral.

| Variable | Program state |
|---|---|
| `opened`, `margin`, `vault` | the MarginAccount PDAs and the vault's token balance |
| `accrued` | FeeTreasury |
| `book`, `nextId`, `nextSeq`, `seatCount` | the intent nodes, `next_intent_id`, `next_seq`, the seats' `active_intent_count` |
| `pmlcs` | the PMLC accounts that exist |
| `market` | MarketNonceAccount: nonce, resolved, outcome |
| `paused`, `active` | `global_pause`, the instrument's status |
| `now` | the clock's slot |

One action is one handler. `MatchPairCore` is shared by the three ways to match,
as in the code. `Adjust` moves balances and `Covered` is the checked
subtraction: an action whose result is not `Covered` is disabled. Where a
handler writes two accounts in turn that may be the same account (self-match,
novation to oneself), the model also applies two adjustments in turn.
PostIntent has three actions: without a match, with one, and
`PostIntentMatchFailed`, which keeps what `match_pair_core` had written when it
failed. The constant `InlineMatchCanFail` switches the last one off, for runs
about the rest of the program.

The fee of a match is any member of `TierBps` when MatchPair or
MatchBestAvailable makes it, and any member of `InlineBps` when a post does. The
first two compare the schedule account they are given with the program's own
(`unpack_accounts`, `src/processor/match_ix.rs:226`); a post hands the account it
was given to `match_pair_core` as it is (`src/processor/intent.rs:461`), which
checks its kind alone. So the two sets are unrelated constants, and nothing that
is checked or proved of `Exchange` assumes that they are the same.

`Custody` is the abstract specification of the exchange: a vault, the wealth of
each trader, the treasury, and bets with one stake on each side. Wealth moves in
six ways (deposit, withdrawal, sweep, a bet for which one of its owners pays a
fee, the sale of a side for at most a stake, the division of two stakes), and no
step leaves a trader worth less than the stakes of its sides. There are no
intents, reservations, ids, nonces or clocks in it. `Exchange` is shown to
implement it (`Promise == INSTANCE Custody WITH wealth <- Wealth, bets <-
LivePmlcs, ...`): a trader's wealth is the sum of its three balances, the bets are
the live positions; posts without a match, cancels, prunes, reentries and closings are
stutters, a match is `Open`, each of the three settlements is `Settle`, and a
novation or a substitution, with or without settlement, is one `Transfer`.

`NodePool` is the allocator of the book's array: the freelist, `node_count`, and
ExpandIntentBook, as operators on the header fields and as a specification of
its own.

`Storage` is what the slots of the pool hold: seats and intents. An intent names
its trader by the slot of a seat. A post stores an intent for a trader with a
seat, or takes two slots, one for a seat, in one step; a removal frees a slot
that holds an intent; ExpandIntentBook adds slots. The field `owner` of an intent
is history: the program stores the slot of the seat alone. There are no trees in
it, hence no recursion, and it can be proved about. A post that would allocate
from `node_count` past the initial capacity is left out (`Sound`): there the
allocator hands out slots in use, which is the subject of the run `poolExpanded`.

`IntentTree` is `intent_tree.rs` and `seat_tree.rs`: a *forest* holds the roots
and, per slot, left, right, parent and color. The code writes every case twice,
mirrored; here the direction is a parameter. Loops are recursive operators, so
that this module, and what uses it, is for TLC only.

`Book` composes `Storage` with `IntentTree`: `pool` and `node` are the header
and the array, `forest` the links stored in the nodes. A post finds or creates
the trader's seat through the tree of seats, allocates a node, writes and inserts
it; a removal (cancel, prune or last fill) unlinks and frees it. `Book` is shown
to implement `StorageSpec`: what the trees add is the order of the intents and
how a seat is found, never which slot holds what.

`PriceTime` is the abstract specification of the index: on each side a queue in
which an intent enters behind all that are not worse and leaves without moving
another. `Book` is shown to implement it (`Index == INSTANCE PriceTime WITH
queue <- ...`, the walk over each tree), and `Exchange` uses the order it
promises.

`FeeTiers` is the fee schedule (`schedule`), the UserVolume accounts (`volume`)
and the part of `match_pair_core` that looks a fee up and credits both sides
(`MatchFee`). That part takes the table as a parameter: `MatchChecked`, for
MatchPair and MatchBestAvailable, gives it the program's; `MatchInline`, for the
match of a post, that or any table in `Supplied`, which no validation has seen.
`credited`, `announced` and `checked` are history: what was credited in which
slot, every maximum the schedule has had, and which of the two matches was last.

`Wrapper` is the registry of stablecoin mints and wUSD: `mints` the list,
`reserve` the token accounts of the program's authority (a mint may have
several), `supply`. Burns and payments into a reserve through the token program
are actions too, as nothing prevents them.

`Delegation` composes `Exchange` with trading sessions. `sessions` holds the
session account of each owner and `via`, a history variable, the ids of the
intents the present session has posted. The owner creates and revokes; the
delegate posts and cancels. Its post is any of the three outcomes of PostIntent
with the session's guard and charge in the same step, as the handlers share
`do_post_intent_inner`. Its cancel shares no code with the owner's
(`src/processor/intent.rs:608` and 495), and is translated from its own: that the
two do the same is something `ImplementsExchange` can find false. All other steps
are those of the exchange.

`Governance` is who administers the program: `multisig` (members and threshold),
`signer` (the key whose attestations count), `proposals` (the timelock
accounts), `paused` and `time`. An instruction is a set of signing keys and
whether it passes the multisig account along, which is what
`authorize_admin_or_multisig` looks at.

`Oracle` composes `Governance` with what a settlement accepts: `lastNonce` per
market, `endedBy` the attestation that ended each position. The holders of the
keys are outside the program: `InCirculation` is what they sign, and anyone may
submit any of it late, again, out of order or never. Kind, binding, staleness,
breach time, nonce and the key in force are the guards of the code; what the
position pays is in `Exchange`, which allows any price with any fresh nonce.

`MCExchange`, `MCBook`, `MCNodePool`, `MCDelegation`, `MCOracle`, `MCFeeTiers`
and `MCWrapper` hold the instances; the values of the constants are in the
`.cfg` files.

The proofs are in `TotalsProofs`, `ExchangeProofs` (types and prices, the
arithmetic included), `LedgerProofs` (what backs what) and `SolvencyProofs`
(the refinement of `Custody` and what is conserved), each extending the one before; `DelegationProofs`, which
extends them; `OracleProofs` (`Governance` and `Oracle`), `WrapperProofs`, and
`PoolAndFeeProofs` (`NodePool`, `Storage` and `FeeTiers`).

### What is abstracted

* Keys, PDAs, signatures and account layouts: they fix which accounts a handler
  works on, and appear as the action's parameters. Only the owner of an intent
  or position, or a third party, is told apart, where the code does.
* In `Exchange`, the fee of a taker is any member of `TierBps`, or of `InlineBps`
  in an inline match (`FeeTiers` has the volumes it depends on), and an attestation is a choice of price and nonce
  (`Oracle` has its other checks).
* `FeeTiers` credits a match as a whole; a match that fails after the credit
  leaves the volumes credited only if an inline post swallows the error, and
  the same action stands for it. A table has any number of
  tiers; the code's has eight.
* The swap of `remove_mint` clears the last slot, and versions are counted:
  neither is read.
* Byte layouts: of nodes, accounts and attestations, and of the precompile
  instruction that carries a signature.
* The order in which expired intents are pruned is the order of their slots in
  the array; the model prunes any set.
* `realized_pnl`, `last_mark_slot`, the last accepted price: no handler reads
  them.
* u64 overflow: every sum of balances is bounded by the vault's token balance,
  itself a u64 (invariant `Solvent`), so the checked additions do not fail.
* The allowlist of a session admits the one instrument of the model or not; a
  session's version and creation slot are read by no handler.
* The list of multisig members is a set: `init` and `rotate` refuse duplicates.

## 3. The runs

| Run | Shows |
|---|---|
| `ledger` | Posting, matching, cancelling and pruning keep every balance backed: `ReservedBacked`, `LockedBacked`, `Solvent`, `NodeBacking`; ids are not reused; entries are within both limits; fees are rounded, and buffers released in unequal parts over partial fills, to the atom; and every step is one that `Custody` allows (`ImplementsCustody`) |
| `positions` | Each position ends once and moves at most `c`, no matter which of the three settlements, reentry claims and closings are tried in which order; each end consumes a nonce; and in terms of wealth each is a division of two stakes (`ImplementsCustody`) |
| `transfers` | Reservations survive novations and both substitutions, one trader on both sides included, and each is the sale of one side between two accounts, which stay worth their stakes (`ImplementsCustody`). `SettlementOpen`: unless paused, a live position can be resolved by an attestation alone; one with a single owner, which cannot, can be novated to anyone who can pay for a side |
| `liveness` | With fair keepers, expired intents are refunded (`ExpiredLeave`) and a crossed book clears unless the taker the matcher picks has not the fee (`CrossedClears`), on a book whose header caches no fee, as in the code, under a pause that is never lifted and with inline matches that fail and are swallowed. What remains is enough for every refund and settlement (`BalancesCover`): collateral may be stranded, never missing |
| `book` | In any order of posts, removals and an expansion the three trees stay red-black (`RedBlack`), the slots are partitioned (`Partition`), no trader has two seats and an intent's seat is its owner's (`SeatsResolve`); the book implements `Storage`, so that the tree finds every seat there is (`ImplementsStorage`), and `PriceTime` |
| `sessions` | What a delegate commits is charged to its session and stays within the cap (`SessionsValid`, `ExposureCharged`); what it takes of the owner's free collateral beyond the charge is at most the fee that the treasury receives, by whatever schedule and also when the inline match fails (`DebitAccounted`); an active session cannot be replaced (`CountersKept`); and every step of `Delegation`, the delegated cancel with its own code included, is one of `Exchange`, whose specification is checked as a property (`ImplementsExchange`) |
| `oracle` | Rotations leave a threshold that the members can reach (`QuorumReachable`); the attestation signer changes only after the delay; a proposal is decided once. A position ends only on the word of a key announced a whole delay before (`KeyWasAnnounced`), and no message ends two positions or one out of order (`EndedInOrder`) |
| `fees` | The "30-day volume" is at most what was credited in the last two epochs' time and at least half of what was credited in the last one (`VolumeTracksWindow`); no match of MatchPair or MatchBestAvailable is charged more than any maximum announced so far, whatever inline matches in between are charged (`NeverAboveAnEarlierMax`) |
| `wrapper` | Reserves of wUSD's decimals hold at least its supply (`SupplyBacked`); removing a mint stops exactly that mint (`RemovalExact`) |

Three runs show where the code departs from what the repository says of it:

| Run | Violated | The statement |
|---|---|---|
| `inlineLost` | `PostPreserved` | `src/processor/intent.rs:473`: the match's error is swallowed "so the post itself is preserved". The match had already consumed the intent: a one-contract post is removed from the book, no PMLC is created, and its reservation stays |
| `feeBuffer` | `FeeCovered` | `src/processor/fees.rs:5`: "pre-reserved fee buffers always cover the actual match-time fee". CreateInstrument sets `cached_max_fee_bps` to 0, nothing ever raises it, and nothing is reserved |
| `poolExpanded` | `NoDoubleUse` | `tests/fuzz_state.rs:40`: allocated indices "are all distinct (no double-use)". ExpandIntentBook links new slots into the freelist without raising `node_count`, which later hands them out again |

The passing runs therefore allocate nothing past the initial capacity, and no
inline match fails in them, but in `liveness` and `sessions`. They take a
liquidation bounty of at most `2c`. CreateInstrument does not enforce that: for a
larger one, `saturating_sub` leaves the winner nothing and the keeper is still
paid in full, against the comment at `src/processor/settlement.rs:272` that the
three credits add up to `2c`.

The header's `cached_max_fee_bps` is a parameter of `init_intent_book`, to which
CreateInstrument, its one caller, passes 0. `positions`, `liveness` and
`sessions` have it 0. `ledger` and `transfers` set it, since the code that
computes, carries, releases and refunds a buffer is only then at work; what they
check of it is that no atom of a buffer is lost, and nothing in them takes a
buffer to cover a fee.

The fee of an inline match is looked up in the schedule account that the post
presents. It need not be one of the program's tiers, and a delegate's post pays
it from the owner's free collateral without charging it to the session, while
`src/state/session.rs:13` and `src/processor/intent.rs:160` say that users lose
nothing beyond the session's caps. The models leave that fee open: what they
check holds for any fee, and `DebitAccounted` says how far the caps reach.

Four smaller observations have no run. A delegate whose session has used up its
cap can no longer cancel what it posted, since CancelIntentDelegated asks for an
active session (`src/processor/intent.rs:642`; its comment at line 597 calls the
session's role "purely auth"); the owner can. And the single admin remains
authorized after InitAdminMultisig if the multisig account is not passed
(`src/processor/multisig.rs:63`): the comment of that helper says so, the one at
`src/state/admin_multisig.rs:5` says otherwise. UnwrapStablecoin asks for an
accepted mint, so that the reserve of a removed mint cannot be paid out
(`src/processor/wusd.rs:202`); `src/state/stablecoin_registry.rs:15` says holders
"can still unwrap to whatever is in reserve", `src/processor/registries.rs:303`
only "for any mint still whitelisted". InitStablecoinRegistry does not compare
the decimals of its initial mints with wUSD's, as AddStablecoinMint does: the
assumption `InitialDecimals` states what it takes on trust. The model does as
the code does.

### Bounds

`PRICE_ONE = 4`, `BPS_DENOM = 2`, `Bucket = 2`, leverage 2x: small numbers at
which midpoints round, profits truncate and equities hit both of their clamps. At
these, fees are whole; `ledger` has `Bucket = 3`, so that a fee of 3/2 is cut to 1
and that of an inline match from 9/2 to 4, while a buffer for two contracts is 3
and is released as 1 and then 2. Its deposits leave a trader at times with enough
for the fee and at times without. Prices 1 and 3 give crossing, touching and non-crossing pairs;
being odd, they exercise the carry of the midpoint. In `ledger` and `liveness`
intents have one or two contracts, so that partial and complete fills both
happen, and one in the other runs. `liveness` has collateral for three intents
and a fee, so that the best of two bids and the worse one face an ask that
crosses the former alone; its positions end by Resolve. `MaxId` bounds
posts and claims (matches are not bounded by it), `MaxVault` deposits, `MaxSlot`
the clock. With two traders there are self-matches as well as matches; three
add a keeper or a buyer who is neither side. `MAX_PRUNES_PER_POST` is 4 in the
code and 1 in `ledger`, so that the limit is reached. `MAX_CONTRACTS` stands for
`u16::MAX`. The positions run has nonce 0 among its inputs, which must be
refused, and two more, so that two positions can end. `sessions` has a cap that
two posts use up exactly and one that the second post would exceed by one; its
allowlist admits the instrument (the proofs cover one that does not).
`oracle` has three keys for at most two members, so that an outsider, the
admin included, and a rotated-out member exist, and two proposals; its clock
passes the delay. Its two positions belong to instruments of one market with
different windows and patience, and the attestations in circulation are of both
keys, in both orders of time and nonce, of another market, and with breaches
dated ahead and before all time.

`book` follows a script: two traders bid in turn at one price, which makes the
tree lean at every level, with some posts at a better price or on the other
side; removals are free. Every case of both fixups occurs (breaking any one of
them is noticed). Ten nodes suffice for all of them: a removal
that recurses needs a black height of three. The pool starts with three slots and is
expanded by seven, so that the freelist holds freed and new slots mixed.

`fees` has epochs of two slots and seven slots of time, so that matches fall on
the first and the last slot of an epoch and follow idle times of zero to three
epochs; its tables have their highest fee first, last and in between, one
charges more than all before and two are invalid. The table that inline matches
present charges more than any valid one may. A view leaves out what the last match
charged, on which no step depends. `wrapper` has five mints for
three slots, one of the wrong decimals, and two reserve accounts of one mint.

Deadlock is not checked:
a bounded exchange may stop when its bounds are used up.

### Fairness

`FairSpec` assumes weak fairness of two things: some expired intent is pruned if
it can be, and the best pair is matched if it can be. Both instructions are
permissionless (any signer may send them, none of the affected traders need
be present), and the docs describe keepers that do so. Neither reads the
pause, which `liveness` lets the administrators set for good. Nothing is assumed of
traders, of the clock or of the administrators. `CrossedClears` allows for a taker
with too little free collateral (`TakerCannotPay`), which no buffer covers: it
stays at the head of the book and every attempt fails; without that disjunct the
property is violated. It also needs the instrument to stay active, which matching
requires.

## 4. The proofs

The theorems hold for every value of the constants that satisfies
`ScalesAssumption`, `InstrumentAssumption` and `InputsAssumption`: scales and
bucket are positive, everything else is a natural number. In particular any
number of traders, any tick, leverage, bounty, cached fee and tiers, any fees of
inline matches, with and without failing ones. Where a theorem needs more, it says so in its ASSUME:

* `~InlineMatchCanFail`: no inline match fails after it has begun to change the
  book. The code does not guarantee it; the run `inlineLost` shows what happens
  then. `BalancesSuffice` is what holds regardless.
* `LiquidationBountyBps <= 2 * BPS_DENOM`: the bounty is at most `2c`. It is a
  u16 that CreateInstrument does not check (`src/processor/instrument.rs:201`).

| Theorem | States | Needs |
|---|---|---|
| `MidpointBetween`, `EquityRange` | the midpoint is the rounded-down mean and lies between its arguments; the bounded equity lies in `0..2c` | |
| `TypeCorrect` | `TypeOK`: no sequence of handlers drives a balance below zero | |
| `LimitsRespected` | `FillWithinLimits` | |
| `IdsNeverReused`, `NodesBacked` | `IdsUnique`, `NodeBacking` | |
| `LifecycleKept`, `AttestationUsedOnce` | `PositionLifecycle`, `NonceConsumed` | |
| `BalancesSuffice` | `BalancesCover` | |
| `ExitsStayFunded` | no checked subtraction of a cancel, prune or settlement at any price fails, nor of a novation away from a trader on both sides | |
| `ReservesExact`, `LocksExact` | `ReservedBacked`, `LockedBacked` | no failing inline match |
| `CustodyImplemented` | `ImplementsCustody`: `Spec => Promise!Spec` | no failing inline match, bounty at most `2c` |
| `VaultSolvent` | `Solvent` | no failing inline match, bounty at most `2c` |
| `SettlementsBounded` | `BoundedSettlement` | bounty at most `2c` |
| `DelegationImplements` | `DelegatedSpec => Spec`: the delegated cancel does what the owner's does (`DelegatedCancel`), and all of the above hold with delegates | |
| `DelegatesKeepCustody` | `DelegatedSpec => ImplementsCustody` | no failing inline match, bounty at most `2c` |
| `CapsRespected`, `ActiveSessionKept`, `SessionsExposure` | `SessionsValid`, `CountersKept`, `ExposureCharged`, for any owners, delegates and caps | |
| `DebitIsAccounted` | `DebitAccounted`, for any fee of the inline match, failing ones included | |
| `NeverLockedOut`, `SignerChangesLate`, `ProposalDecidedOnce` | `QuorumReachable`, `SignerDelayed`, `DecidedOnce`, for any keys, proposals and delay | |
| `AnnouncedKeysDecide`, `NoReplay` | `KeyWasAnnounced`, `EndedInOrder`, for any attestations in circulation | |
| `AlwaysBacked`, `RemovesExactly` | `SupplyBacked`, `RemovalExact`, for any mints and reserve accounts | `InitialDecimals` |
| `SlotsPartitioned` | `Partition`, for any capacities and expansions | |
| `InUseKept` | a slot in use is handed out only at a `node_count` beyond the initial capacity, so in no case but that of `poolExpanded` | |
| `SeatsAlwaysResolve`, `StorageSlotsPartitioned`, `StorageKeepsInUse` | `SeatsResolve`, `Partition` and `NoDoubleUse` of `StorageSpec`, for any traders, posts, removals and expansions within the initial capacity | |
| `ChargesBounded`, `VolumesTracked` | `NeverAboveAnEarlierMax`, `VolumeTracksWindow`, for any schedules, tables presented by inline matches, and epoch length | |

### The inductive invariants of the exchange

`TypeInv`. That a settlement leaves numbers in the accounts
depends on the position's size being one, so on its entry price not being zero;
that depends on the prices of the intents it was made of. `TypeInv` adds
`PricesValid` (each resting intent passed the price check) to `TypeOK`;
`TypeStep` has a lemma for each group of actions, one step for each action, and
in it one step for each part of the state it writes. `AdjustOnce` and
`AdjustTwice` say what a handler must have checked for its margin accounts to
stay well-formed; `MatchType` covers `MatchPairCore` on any accounts and book, so
that it serves posted as well as resting intents.

`LedgerInv` adds `IdsUnique` and `NodeBacking`. `IdsUnique` splits into a part of
the book, one of the positions and one that keeps them apart (`IdsApart`); a
lemma for each thing a handler can do with an id (post, skip, open, replace,
fill) then carries all handlers. `PositionForms` and `BookForms` say once what
any step does to positions and book, and the action properties follow from them.

Slack. `Loose` is what a trader has in reserve beyond what its intents
hold, `Idle` what it has locked beyond its stakes. Every handler leaves both as
they are for every trader, or, where an inline match fails, lets them grow
(`SlackStep`). So neither is ever negative (`BalancesCover`), and both stay zero
if no inline match fails (`ReservedBacked`, `LockedBacked`). One position's stake
and any set of intents' escrow are parts of the totals, hence `ExitsStayFunded`. The work is in one
trader being on both sides of a match, a novation or a substitution.

Custody. `WealthIsWorth` makes the mapped `wealth` of an account the sum of its
balances, and `AdjustWorth` says what a handler's adjustment does to it: moving an
atom between free, reserved and locked is nothing, so that posts, cancels and
prunes are stutters. `MatchMoves` gives the single payer of a match also where
one trader is on both sides, and the settlement lemmas the two shares and the
bounty. Each group of handlers then is a step of `Custody` or leaves its
variables alone (`Keeps`, one lemma a group, joined in `CustodyStep`). That a
transfer costs at most a stake, for any mark and leverage, is a fact about the
bounded profit (`Swaps` in `LedgerProofs`). The second half of `Custody`'s step,
that nobody is worth less than its stakes (`StakesCovered`), follows from
`LocksExact`: the locked balance alone covers them. Both hypotheses are needed:
an inline match that fails half-way takes an intent's escrow, or accrues a fee
that nobody pays, and a bounty above `2c` is paid out of nothing.

Conservation follows from the abstract specification alone: each of its six
steps changes the sum of all wealth and the treasury by as much as the vault
(`CustodyConserves`), so `VaultSolvent` is a corollary of the refinement.
`MovesTotal` says what the total makes of the at most three accounts that a step
touches, some of which may be the same. `SettlementsBounded` reads the moves of
a settlement account by account.

`TotalsProofs` has what all of this needs of totals over finite sets: they are
numbers, split over unions, move with a single weight, grow along injections,
and bound each of their members.

### The other components

`DelegationProofs` shows that each step with delegates is a step of `Exchange`
or leaves its variables alone, so all invariants carry over. The case that is not
immediate is the cancel, which the two modules write differently: that one
checked subtraction and two assignments are the adjustment of the owner's cancel,
with all that it requires of the balances, takes `TypeInv` (`DelegatedCancel`).
`SessionSteps` lists the four things a step can do to the sessions. For
`DebitAccounted`, `LegFree` and `MatchFree` say what a leg and a match leave of a
trader's free collateral, whichever side it is on, or both; no buffer need cover
the fee. For `ExposureCharged` the invariant adds
that what a session posted has an id from the past: an intent that rests after a
step descends from one that rested before, with no more in escrow, or is the
posted one, which the session is charged for.

In `OracleProofs` the invariant of `Governance` adds that a threshold lies
between one and the number of members, that an id has one proposal, and that its
delay is the one it was made with; `SignerDelayed` speaks of the time of the
proposal, while the code compares with the end of the delay computed then. It
carries over to `Oracle` (a settlement leaves the administration alone), which
adds that the key in force is announced, as is every key that ended a position,
and that the nonces which ended the positions of a market do not exceed the last
one accepted. An executed proposal is never changed again, so that what was
announced stays so. `WrapperProofs` adds to `SupplyBacked` that the list holds no
mint twice and none of other decimals; `GoodChange` says what a payment does to
the total of the good reserves.

In `PoolAndFeeProofs`, `PoolType` adds to `Partition` that `node_count` and the
initial capacity do not exceed the capacity: slots of an expansion then lie
beyond all that was handed out, and are on no list yet. `AllocKeeps` says what
one allocation does to any header and slots, so that it can be used twice for a
post that takes two. `StorageInv` joins the pool's invariant with `SeatsResolve`,
which is not inductive alone: a post keeps the seats because the slot it is given
was vacant, which is what the partition of the slots says while `node_count` is
within the initial capacity; a removal keeps them because only intents are
removed. `ScheduleInv` says that
the highest fee of the schedule in force bounds its tiers and is at most every
maximum announced before. `VolumeInv` says which slots the two accumulators of a
trader have added up, relative to the epoch that was current at the last credit
(`Tracks`); rolling over zero, one or more idle epochs keeps that, and the window
of `VolumeTracksWindow` lies between the two sets of slots.

### Only model-checked

* `ExpiredLeave` and `CrossedClears`: liveness under fairness.
* `SettlementOpen`: it speaks of ENABLED. What it asks of the balances is proved
  (`ExitsStayFunded`); its other guards are the hypotheses it is stated under.
* `RedBlack`, `ImplementsPriceTime` and `ImplementsStorage`: the operators of
  `IntentTree` are recursive, and what they compute for every tree takes an
  induction over trees. `Partition` and `SeatsResolve` are proved of `Storage`,
  and so hold of the book wherever the tree of seats finds what is in it; that
  is checked.

## 5. Not modelled, and the plan

What would come next, should the provers allow it: the refinement of `Storage`
by `Book` for every tree, from a lemma on search trees under rotations.

Left out for good: byte layouts, instruction decoding, address derivation and
the layout of the signature precompile, which are stateless; the bucket
registry, a list of allowed sizes that only CreateInstrument reads, once; an
instrument's own admin key, which is compared and never changed.
