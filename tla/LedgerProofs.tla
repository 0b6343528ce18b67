---------------------------- MODULE LedgerProofs ----------------------------
(***************************************************************************)
(* What the handlers keep true of the ledger: identifiers, the backing of   *)
(* intents, and the balances behind intents and positions.                  *)
(***************************************************************************)
EXTENDS ExchangeProofs

-----------------------------------------------------------------------------
(* Identifiers.  The parts of IdsUnique, of any book and positions, when the *)
(* counters stand at id and seq.                                             *)

UniqueBook(bk, id, seq) ==
  /\ \A i, j \in bk : i.id = j.id \/ i.seq = j.seq => i = j
  /\ \A i \in bk : i.id < id /\ i.seq < seq

UniquePositions(ps, id) ==
  /\ \A p, q \in ps : p.id = q.id => p = q
  /\ \A p \in ps : p.id < id

Apart(bk, ps) == \A i \in bk, p \in ps : i.id # p.id

IdsApart(bk, ps, id, seq) ==
  UniqueBook(bk, id, seq) /\ UniquePositions(ps, id) /\ Apart(bk, ps)

(* IdsUnique is the conjunction of the parts. *)
LEMMA IdsParts == IdsUnique <=> IdsApart(book, pmlcs, nextId, nextSeq)
BY DEF IdsUnique, IdsApart, UniqueBook, UniquePositions, Apart

(* Intents and positions may go. *)
LEMMA IdsShrink ==
  ASSUME NEW bk, NEW ps, NEW id, NEW seq, IdsApart(bk, ps, id, seq),
         NEW b \in SUBSET bk, NEW r \in SUBSET ps
  PROVE  IdsApart(b, r, id, seq)
BY DEF IdsApart, UniqueBook, UniquePositions, Apart

(* An intent that is given the next id and sequence number. *)
LEMMA IdsPost ==
  ASSUME NEW bk \in SUBSET Intents, NEW ps \in SUBSET Pmlcs, NEW id \in Nat, NEW seq \in Nat,
         IdsApart(bk, ps, id, seq),
         NEW i \in Intents, i.id = id, i.seq = seq
  PROVE  IdsApart(bk \cup {i}, ps, id + 1, seq + 1)
<1>1. /\ \A j \in bk : j.id \in Nat /\ j.seq \in Nat /\ j.id < id /\ j.seq < seq
      /\ \A p \in ps : p.id \in Nat /\ p.id < id
  BY DEF IdsApart, UniqueBook, UniquePositions, Intents, Pmlcs
<1>2. UniqueBook(bk \cup {i}, id + 1, seq + 1)
  BY <1>1 DEF IdsApart, UniqueBook
<1>3. UniquePositions(ps, id + 1)
  BY <1>1 DEF IdsApart, UniquePositions
<1>4. Apart(bk \cup {i}, ps)
  BY <1>1 DEF IdsApart, Apart
<1> QED BY <1>2, <1>3, <1>4 DEF IdsApart

(* Ids may be skipped. *)
LEMMA IdsSkip ==
  ASSUME NEW bk \in SUBSET Intents, NEW ps \in SUBSET Pmlcs, NEW id \in Nat, NEW seq,
         IdsApart(bk, ps, id, seq)
  PROVE  IdsApart(bk, ps, id + 1, seq)
<1>1. (\A j \in bk : j.id \in Nat) /\ (\A p \in ps : p.id \in Nat)
  BY DEF Intents, Pmlcs
<1> QED BY <1>1 DEF IdsApart, UniqueBook, UniquePositions

(* A position that is given the next id. *)
LEMMA IdsOpen ==
  ASSUME NEW bk \in SUBSET Intents, NEW ps \in SUBSET Pmlcs, NEW id \in Nat, NEW seq,
         IdsApart(bk, ps, id, seq),
         NEW q \in Pmlcs, q.id = id
  PROVE  IdsApart(bk, ps \cup {q}, id + 1, seq)
<1>1. /\ \A j \in bk : j.id \in Nat /\ j.id < id
      /\ \A p \in ps : p.id \in Nat /\ p.id < id
  BY DEF IdsApart, UniqueBook, UniquePositions, Intents, Pmlcs
<1>2. UniqueBook(bk, id + 1, seq)
  BY <1>1 DEF IdsApart, UniqueBook
<1>3. UniquePositions(ps \cup {q}, id + 1)
  BY <1>1 DEF IdsApart, UniquePositions
<1>4. Apart(bk, ps \cup {q})
  BY <1>1 DEF IdsApart, Apart
<1> QED BY <1>2, <1>3, <1>4 DEF IdsApart

(* A position that keeps its id. *)
LEMMA IdsReplace ==
  ASSUME NEW bk, NEW ps, NEW id, NEW seq, IdsApart(bk, ps, id, seq),
         NEW p \in ps, NEW q, q.id = p.id
  PROVE  IdsApart(bk, (ps \ {p}) \cup {q}, id, seq)
<1>1. UniquePositions((ps \ {p}) \cup {q}, id)
  BY DEF IdsApart, UniquePositions
<1>2. Apart(bk, (ps \ {p}) \cup {q})
  BY DEF IdsApart, Apart
<1> QED BY <1>1, <1>2 DEF IdsApart

(* Intents that are filled keep their id and sequence number, whether they    *)
(* leave the book or not.                                                     *)
LEMMA IdsFill ==
  ASSUME NEW bk \in SUBSET Intents, NEW ps, NEW id, NEW seq, IdsApart(bk, ps, id, seq),
         NEW l \in bk, NEW s \in bk, l # s, CanFill(l), CanFill(s)
  PROVE  IdsApart(FilledBook(bk, l, s), ps, id, seq)
<1> DEFINE a == Fill(l)
           b == Fill(s)
<1>1. a.id = l.id /\ a.seq = l.seq /\ b.id = s.id /\ b.seq = s.seq
  BY FillType
<1>2. FilledBook(bk, l, s) \subseteq (bk \ {l, s}) \cup {a, b}
  BY DEF FilledBook
<1> HIDE DEF a, b
<1>3. UniqueBook((bk \ {l, s}) \cup {a, b}, id, seq)
  BY <1>1 DEF IdsApart, UniqueBook
<1>4. Apart((bk \ {l, s}) \cup {a, b}, ps)
  BY <1>1 DEF IdsApart, Apart
<1>5. IdsApart((bk \ {l, s}) \cup {a, b}, ps, id, seq)
  BY <1>3, <1>4 DEF IdsApart
<1> QED BY <1>2, <1>5, IdsShrink

-----------------------------------------------------------------------------
(* The forms of a post.  All three refund the pruned intents, pay for the new *)
(* one and add it to the book; they differ in what becomes of it.             *)

(* A new intent of t for n contracts, paid for and numbered. *)
Fresh(i, t, n) ==
  /\ i \in Intents
  /\ i.id = nextId /\ i.seq = nextSeq /\ i.owner = t
  /\ i.remaining = n /\ i.reserved = n * Bucket /\ i.feeBuffer = FeeBufferFor(n)
  /\ 0 < i.price /\ i.price < PRICE_ONE

Posted(pruned, i) == (book \ pruned) \cup {i}

(* The new intent rests. *)
Rests(t, n, pruned, i) ==
  /\ margin' = PostMargin(t, n, pruned)
  /\ book' = Posted(pruned, i)
  /\ nextId' = nextId + 1
  /\ UNCHANGED <<accrued, pmlcs>>

(* It is one side of a match. *)
IsMatched(t, n, pruned, i) ==
  \E l, s \in Posted(pruned, i), bps \in MatchBps :
    MatchPairCore(PostMargin(t, n, pruned), Posted(pruned, i), nextId + 1, l, s, bps)

(* It is consumed with its counterparty, but no position is made. *)
IsLost(t, n, pruned, i) ==
  /\ InlineMatchCanFail
  /\ nextId' = nextId + 2
  /\ UNCHANGED pmlcs
  /\ \E cp \in book \ pruned, bps \in MatchBps :
       /\ CanFill(i) /\ CanFill(cp) /\ cp.side # i.side
       /\ book' = FilledBook(Posted(pruned, i), i, cp)
       /\ \/ margin' = PostMargin(t, n, pruned) /\ UNCHANGED accrued
          \/ \E first \in {PostMargin(t, n, pruned), Leg(PostMargin(t, n, pruned), cp, 0)} :
               /\ Covered(first, cp.owner)
               /\ Covered(Leg(first, i, 0), t)
               /\ accrued' = accrued + TakerFee(bps)
               /\ margin' = Leg(first, i, 0)

(* What the three forms have in common. *)
PostFrame(t, n, pruned, i) ==
  /\ n > 0
  /\ pruned \subseteq IntentsOf(t)
  /\ Fresh(i, t, n)
  /\ PostMargin(t, n, pruned) \in [Traders -> Balances]
  /\ nextSeq' = nextSeq + 1
  /\ UNCHANGED <<opened, vault, market>>

(* Every post has one of the forms. *)
LEMMA PostForm ==
  ASSUME TypeInv, NEW t \in Traders, NEW side \in Sides, NEW n \in Contracts, NEW price \in Prices,
         NEW expiration \in Expirations, NEW reentry \in ReentryInputs,
         \/ PostIntent(t, side, n, price, expiration, reentry)
         \/ \E bps \in InlineBps :
              PostIntentMatched(t, side, n, price, expiration, reentry, bps)
         \/ \E bps \in InlineBps :
              PostIntentMatchFailed(t, side, n, price, expiration, reentry, bps)
  PROVE  \E pruned \in SUBSET book, i \in Intents :
           /\ PostFrame(t, n, pruned, i)
           /\ Rests(t, n, pruned, i) \/ IsMatched(t, n, pruned, i) \/ IsLost(t, n, pruned, i)
<1> DEFINE i == NewIntent(t, side, n, price, expiration, reentry)
<1>2. n \in Nat /\ price \in Nat /\ expiration \in Nat /\ reentry \in BOOLEAN
  BY InputsAssumption, InstrumentAssumption DEF Expirations
<1>3. i \in Intents
  BY <1>2, NewIntentType
<1>f. ASSUME NEW pruned \in PrunedOnPost(t), CanPost(t, n, price, expiration, pruned),
             PostCounters(t, pruned), UNCHANGED <<opened, vault, market>>
      PROVE  pruned \in SUBSET book /\ PostFrame(t, n, pruned, i)
  <2>1. pruned \in SUBSET book /\ pruned \subseteq IntentsOf(t)
    BY DEF PrunedOnPost, IntentsOf
  <2>2. PostMargin(t, n, pruned) \in [Traders -> Balances]
    <3> DEFINE bk == (book \ pruned) \cup {i}
    <3>1. i = NewIntent(t, side, n, price, expiration, reentry) /\ bk = (book \ pruned) \cup {i}
      OBVIOUS
    <3> HIDE DEF i, bk
    <3> QED BY <1>f, <3>1, PostType
  <2>3. 0 < price /\ price < PRICE_ONE /\ n > 0
    BY <1>f DEF CanPost, ValidatePriceTicked
  <2>4. Fresh(i, t, n)
    BY <1>3, <2>3 DEF NewIntent, Fresh
  <2>5. nextSeq' = nextSeq + 1
    BY <1>f DEF PostCounters
  <2> HIDE DEF i
  <2> QED BY <1>f, <2>1, <2>2, <2>3, <2>4, <2>5 DEF PostFrame
<1>4. CASE PostIntent(t, side, n, price, expiration, reentry)
  <2>1. PICK pruned \in PrunedOnPost(t) :
          /\ CanPost(t, n, price, expiration, pruned)
          /\ margin' = PostMargin(t, n, pruned)
          /\ book' = (book \ pruned) \cup {i}
          /\ nextId' = nextId + 1
          /\ PostCounters(t, pruned)
          /\ UNCHANGED <<opened, vault, accrued, pmlcs, market>>
    BY <1>4 DEF PostIntent
  <2>2. Rests(t, n, pruned, i)
    BY <2>1 DEF Rests, Posted
  <2>3. pruned \in SUBSET book /\ PostFrame(t, n, pruned, i)
    BY <2>1, <1>f
  <2> HIDE DEF i
  <2> QED BY <1>2, <1>3, <2>2, <2>3
<1>b. \A bps \in InlineBps : bps \in MatchBps
  BY DEF MatchBps
<1>5. ASSUME NEW bps \in InlineBps,
             PostIntentMatched(t, side, n, price, expiration, reentry, bps)
      PROVE  \E pruned \in SUBSET book :
               PostFrame(t, n, pruned, i) /\ IsMatched(t, n, pruned, i)
  <2> DEFINE M(pruned, cp) ==
               /\ CanPost(t, n, price, expiration, pruned)
               /\ MatchPairCore(PostMargin(t, n, pruned), (book \ pruned) \cup {i}, nextId + 1,
                                IF side = "long" THEN i ELSE cp,
                                IF side = "long" THEN cp ELSE i, bps)
               /\ PostCounters(t, pruned)
               /\ UNCHANGED <<opened, vault, market>>
  <2>1. PICK pruned \in PrunedOnPost(t) : \E cp \in book \ pruned : M(pruned, cp)
    BY <1>5 DEF PostIntentMatched
  <2>2. PICK cp \in book \ pruned : M(pruned, cp)
    BY <2>1
  <2>3. pruned \in SUBSET book /\ PostFrame(t, n, pruned, i)
    BY <2>2, <1>f
  <2>4. PICK l, s \in Posted(pruned, i) :
          MatchPairCore(PostMargin(t, n, pruned), Posted(pruned, i), nextId + 1, l, s, bps)
    <3> DEFINE l == IF side = "long" THEN i ELSE cp
               s == IF side = "long" THEN cp ELSE i
    <3>1. l \in Posted(pruned, i) /\ s \in Posted(pruned, i)
      BY DEF Posted
    <3>2. MatchPairCore(PostMargin(t, n, pruned), Posted(pruned, i), nextId + 1, l, s, bps)
      BY <2>2 DEF Posted
    <3> HIDE DEF i, l, s
    <3> QED BY <3>1, <3>2
  <2> HIDE DEF i
  <2>5. IsMatched(t, n, pruned, i)
    BY <1>b, <1>5, <2>4 DEF IsMatched
  <2> QED BY <2>3, <2>5
<1>6. ASSUME NEW bps \in InlineBps,
             PostIntentMatchFailed(t, side, n, price, expiration, reentry, bps)
      PROVE  \E pruned \in SUBSET book :
               PostFrame(t, n, pruned, i) /\ IsLost(t, n, pruned, i)
  <2> DEFINE F(pruned, cp, first) ==
               /\ InlineMatchCanFail
               /\ CanPost(t, n, price, expiration, pruned)
               /\ IsOverlap(book \ pruned, i, cp)
               /\ CanFill(i) /\ CanFill(cp)
               /\ book' = FilledBook((book \ pruned) \cup {i}, i, cp)
               /\ nextId' = nextId + 2
               /\ \/ /\ margin' = PostMargin(t, n, pruned)
                     /\ UNCHANGED accrued
                  \/ /\ Covered(first, cp.owner)
                     /\ Covered(Leg(first, i, 0), t)
                     /\ accrued' = accrued + TakerFee(bps)
                     /\ margin' = Leg(first, i, 0)
               /\ PostCounters(t, pruned)
               /\ UNCHANGED <<opened, vault, pmlcs, market>>
             First(pruned, cp) == IF side = "long" THEN PostMargin(t, n, pruned)
                                  ELSE Leg(PostMargin(t, n, pruned), cp, 0)
  <2>0. \E pruned \in PrunedOnPost(t) : \E cp \in book \ pruned :
          F(pruned, cp, First(pruned, cp))
    BY <1>6 DEF PostIntentMatchFailed
  <2>1. PICK pruned \in PrunedOnPost(t) :
          \E cp \in book \ pruned : F(pruned, cp, First(pruned, cp))
    BY <2>0
  <2>2. PICK cp \in book \ pruned : F(pruned, cp, First(pruned, cp))
    BY <2>1
  <2>3. pruned \in SUBSET book /\ PostFrame(t, n, pruned, i)
    BY <2>2, <1>f
  <2>4. cp.side # i.side
    <3>1. i.side = side /\ side \in {"long", "short"}
      BY DEF NewIntent, Sides
    <3>2. cp.side = Opposite(i.side)
      BY <2>2 DEF IsOverlap, IsFirstLive
    <3> HIDE DEF i
    <3> QED BY <3>1, <3>2 DEF Opposite
  <2>5. PICK first \in {PostMargin(t, n, pruned), Leg(PostMargin(t, n, pruned), cp, 0)} :
          F(pruned, cp, first)
    <3>1. First(pruned, cp) \in {PostMargin(t, n, pruned), Leg(PostMargin(t, n, pruned), cp, 0)}
      OBVIOUS
    <3> HIDE DEF F, First
    <3> QED BY <2>2, <3>1
  <2> HIDE DEF i
  <2>6. IsLost(t, n, pruned, i)
    BY <1>b, <1>6, <2>4, <2>5 DEF IsLost, Posted
  <2> QED BY <2>3, <2>6
<1> HIDE DEF i
<1> QED BY <1>3, <1>4, <1>5, <1>6

(* The same of a step that posts, whatever its arguments. *)
LEMMA PostingForms ==
  ASSUME TypeInv, Posting
  PROVE  \E t \in Traders, n \in Nat, pruned \in SUBSET book, i \in Intents :
           /\ PostFrame(t, n, pruned, i)
           /\ Rests(t, n, pruned, i) \/ IsMatched(t, n, pruned, i) \/ IsLost(t, n, pruned, i)
<1>1. PICK t \in Traders, side \in Sides, n \in Contracts, price \in Prices,
           expiration \in Expirations, reentry \in ReentryInputs :
        \/ PostIntent(t, side, n, price, expiration, reentry)
        \/ \E bps \in InlineBps :
             PostIntentMatched(t, side, n, price, expiration, reentry, bps)
        \/ \E bps \in InlineBps :
             PostIntentMatchFailed(t, side, n, price, expiration, reentry, bps)
  BY Zenon DEF Posting
<1>2. n \in Nat
  BY InputsAssumption, InstrumentAssumption
<1>3. \E pruned \in SUBSET book, i \in Intents :
        /\ PostFrame(t, n, pruned, i)
        /\ Rests(t, n, pruned, i) \/ IsMatched(t, n, pruned, i) \/ IsLost(t, n, pruned, i)
  BY <1>1, PostForm
<1> QED BY <1>2, <1>3, Zenon

-----------------------------------------------------------------------------
(* The forms of the other steps *)

(* q is what a handler may make of position p. *)
Evolves(p, q) ==
  /\ q \in Pmlcs
  /\ q.id = p.id
  /\ <<q.entry, q.longPrice, q.shortPrice>> = <<p.entry, p.longPrice, p.shortPrice>>
  /\ p.status # "live" => <<q.status, q.long, q.short>> = <<p.status, p.long, p.short>>
  /\ q.longReentry => p.longReentry
  /\ q.shortReentry => p.shortReentry
  /\ p.status = "live" => q.longReentry = p.longReentry /\ q.shortReentry = p.shortReentry

(* A match of two intents that rest. *)
LEMMA MatchingForm ==
  ASSUME Matching
  PROVE  /\ \E l, s \in book, bps \in MatchBps :
              MatchPairCore(margin, book, nextId, l, s, bps)
         /\ UNCHANGED <<opened, vault, seatCount, nextSeq, market>>
BY DEF Matching, MatchPair, MatchBestAvailable, MatchBps

(* What match_pair_core needs of its two intents. *)
LEMMA MatchNeeds ==
  ASSUME NEW mg, NEW bk \in SUBSET Intents, NEW id \in Nat,
         NEW l \in bk, NEW s \in bk, NEW bps \in MatchBps,
         \A i \in bk : 0 < i.price /\ i.price < PRICE_ONE,
         MatchPairCore(mg, bk, id, l, s, bps)
  PROVE  /\ l # s /\ CanFill(l) /\ CanFill(s)
         /\ l.owner \in Traders /\ s.owner \in Traders
         /\ l.remaining # 0 /\ s.remaining # 0
         /\ NewPmlc(id, l, s) \in Pmlcs
         /\ NewPmlc(id, l, s).id = id /\ NewPmlc(id, l, s).status = "live"
         /\ NewPmlc(id, l, s).long = l.owner /\ NewPmlc(id, l, s).short = s.owner
         /\ book' = FilledBook(bk, l, s)
         /\ pmlcs' = pmlcs \cup {NewPmlc(id, l, s)}
         /\ nextId' = id + 1
<1>1. /\ l.side = "long" /\ s.side = "short" /\ s.price <= l.price
      /\ CanFill(l) /\ CanFill(s)
  BY DEF MatchPairCore, CanCross
<1>2. NewPmlc(id, l, s) \in Pmlcs
  BY <1>1, NewPmlcType
<1>3. /\ l.remaining # 0 /\ s.remaining # 0
      /\ l.owner \in Traders /\ s.owner \in Traders
  BY <1>1 DEF CanFill, Live, Intents
<1>4. /\ NewPmlc(id, l, s).id = id /\ NewPmlc(id, l, s).status = "live"
      /\ NewPmlc(id, l, s).long = l.owner /\ NewPmlc(id, l, s).short = s.owner
  BY DEF NewPmlc
<1>5. l # s
  BY <1>1
<1> QED BY <1>1, <1>2, <1>3, <1>4, <1>5 DEF MatchPairCore

(* A settlement ends one position, and takes an attestation. *)
LEMMA SettlingForm ==
  ASSUME TypeInv, Settling
  PROVE  /\ \E p \in pmlcs, status \in Terminal :
              /\ CanSettle(p)
              /\ Evolves(p, [p EXCEPT !.status = status])
              /\ Replace(p, [p EXCEPT !.status = status])
         /\ market'.nonce > market.nonce
         /\ UNCHANGED <<opened, vault, accrued, orders, now>>
<1>1. PICK p \in pmlcs, status \in Terminal, nonce \in Nonces :
        /\ CanSettle(p)
        /\ AcceptNonce(nonce)
        /\ Replace(p, [p EXCEPT !.status = status])
        /\ market'.nonce = nonce
        /\ UNCHANGED <<opened, vault, accrued, orders, now>>
  <2>m. market \in [nonce : Nat, resolved : BOOLEAN, outcome : Outcomes]
    BY DEF TypeInv, TypeOK
  <2>1. ASSUME NEW p \in pmlcs, NEW keeper \in Traders, NEW mark \in Marks, NEW nonce \in Nonces,
               Liquidate(p, keeper, mark, nonce)
        PROVE  /\ CanSettle(p) /\ AcceptNonce(nonce) /\ market'.nonce = nonce
               /\ Replace(p, [p EXCEPT !.status = "liquidated"])
               /\ UNCHANGED <<opened, vault, accrued, orders, now>>
    BY <2>m, <2>1 DEF Liquidate
  <2>2. ASSUME NEW p \in pmlcs, NEW outcome \in Outcomes, NEW nonce \in Nonces,
               Resolve(p, outcome, nonce)
        PROVE  /\ CanSettle(p) /\ AcceptNonce(nonce) /\ market'.nonce = nonce
               /\ Replace(p, [p EXCEPT !.status = "resolved"])
               /\ UNCHANGED <<opened, vault, accrued, orders, now>>
    BY <2>2 DEF Resolve
  <2>3. ASSUME NEW p \in pmlcs, NEW mark \in Marks, NEW nonce \in Nonces,
               CloseMutual(p, mark, nonce)
        PROVE  /\ CanSettle(p) /\ AcceptNonce(nonce) /\ market'.nonce = nonce
               /\ Replace(p, [p EXCEPT !.status = "closed"])
               /\ UNCHANGED <<opened, vault, accrued, orders, now>>
    BY <2>m, <2>3 DEF CloseMutual
  <2>4. {"liquidated", "resolved", "closed"} \subseteq Terminal
    BY DEF Terminal
  <2> QED BY <2>1, <2>2, <2>3, <2>4 DEF Settling
<1>2. Evolves(p, [p EXCEPT !.status = status])
  BY <1>1 DEF Evolves, CanSettle, Pmlcs, Terminal, TypeInv, TypeOK
<1> QED BY <1>1, <1>2 DEF AcceptNonce

(* The owner of one side of a live position may change. *)
LEMMA OwnerChanges ==
  ASSUME TypeInv, NEW p \in pmlcs, p.status = "live", NEW side \in Sides, NEW t \in Traders
  PROVE  Evolves(p, WithOwner(p, side, t))
BY DEF Evolves, WithOwner, Pmlcs, TypeInv, TypeOK

(* A right of reentry may be given up once a position has ended. *)
LEMMA ReentryGivenUp ==
  ASSUME TypeInv, NEW p \in pmlcs, p.status \in Terminal, NEW side \in Sides
  PROVE  Evolves(p, WithoutReentry(p, side))
BY DEF Evolves, WithoutReentry, Pmlcs, Terminal, TypeInv, TypeOK

(* A claim of reentry, paid for. *)
LEMMA ClaimForm ==
  ASSUME TypeInv, NEW p \in pmlcs, NEW side \in Sides, NEW expiration \in Expirations,
         ClaimReentry(p, side, expiration)
  PROVE  \E t \in Traders, n \in Nat, i \in Intents :
           /\ n > 0
           /\ Fresh(i, t, n)
           /\ Outlay(n) <= margin[t].free
           /\ margin' = Adjust(margin, t, -Outlay(n), Outlay(n), 0)
           /\ book' = book \cup {i}
           /\ nextId' = nextId + 1
           /\ nextSeq' = nextSeq + 1
           /\ p.status \in Terminal
           /\ Replace(p, WithoutReentry(p, side))
           /\ UNCHANGED <<opened, vault, accrued, market>>
<1> DEFINE t == OwnerOf(p, side)
           price == ReentryPrice(p, side)
           i(n) == NewIntent(t, side, n, price, expiration, TRUE)
<1>1. PICK n \in 1..MAX_CONTRACTS :
        /\ CanClaim(p, side, expiration)
        /\ Affordable(t, n)
        /\ margin' = Adjust(margin, t, -Outlay(n), Outlay(n), 0)
        /\ book' = book \cup {i(n)}
        /\ nextId' = nextId + 1
        /\ nextSeq' = nextSeq + 1
        /\ Replace(p, WithoutReentry(p, side))
        /\ UNCHANGED <<opened, vault, accrued, market>>
  BY DEF ClaimReentry
<1>2. t \in Traders /\ price \in Nat /\ n \in Nat /\ expiration \in Nat /\ n > 0
  BY InstrumentAssumption DEF OwnerOf, ReentryPrice, Pmlcs, TypeInv, TypeOK, Expirations
<1>3. p.status \in Terminal /\ 0 < price /\ price < PRICE_ONE
  BY <1>1 DEF CanClaim, ValidatePriceTicked
<1>4. i(n) \in Intents
  <2> HIDE DEF t, price
  <2>1. \A reentry \in BOOLEAN : NewIntent(t, side, n, price, expiration, reentry) \in Intents
    BY <1>2, NewIntentType
  <2> QED BY <2>1, Zenon
<1>5. Fresh(i(n), t, n)
  <2> HIDE DEF t, price
  <2> QED BY <1>3, <1>4 DEF Fresh, NewIntent
<1>6. Outlay(n) <= margin[t].free
  BY <1>1 DEF Affordable
<1> HIDE DEF i, t
<1> QED BY <1>1, <1>2, <1>3, <1>4, <1>5, <1>6

-----------------------------------------------------------------------------
(* Identifiers are never handed out twice *)

(* The match of two intents gives its position the next id. *)
LEMMA IdsMatch ==
  ASSUME NEW mg, NEW bk \in SUBSET Intents, NEW id \in Nat, NEW seq, pmlcs \subseteq Pmlcs,
         NEW l \in bk, NEW s \in bk, NEW bps \in MatchBps,
         \A i \in bk : 0 < i.price /\ i.price < PRICE_ONE,
         MatchPairCore(mg, bk, id, l, s, bps),
         IdsApart(bk, pmlcs, id, seq),
         FilledBook(bk, l, s) \subseteq Intents
  PROVE  IdsApart(book', pmlcs', nextId', seq)
<1> DEFINE q == NewPmlc(id, l, s)
           fb == FilledBook(bk, l, s)
<1>1. /\ l # s /\ CanFill(l) /\ CanFill(s) /\ q \in Pmlcs /\ q.id = id
      /\ book' = fb /\ pmlcs' = pmlcs \cup {q} /\ nextId' = id + 1
  BY MatchNeeds
<1>2. IdsApart(fb, pmlcs, id, seq)
  BY <1>1, IdsFill
<1> HIDE DEF q, fb
<1>3. IdsApart(fb, pmlcs \cup {q}, id + 1, seq)
  BY <1>1, <1>2, IdsOpen DEF fb
<1> QED BY <1>1, <1>3

(* A post, whatever becomes of the new intent. *)
LEMMA IdsPosting == TypeInv /\ IdsUnique /\ Posting => IdsUnique'
<1> SUFFICES ASSUME TypeInv, IdsUnique, Posting PROVE IdsApart(book', pmlcs', nextId', nextSeq')
  BY DEF IdsUnique, IdsApart, UniqueBook, UniquePositions, Apart
<1>1. PICK t \in Traders, n \in Nat, pruned \in SUBSET book, i \in Intents :
        /\ PostFrame(t, n, pruned, i)
        /\ Rests(t, n, pruned, i) \/ IsMatched(t, n, pruned, i) \/ IsLost(t, n, pruned, i)
  BY PostingForms
<1> DEFINE bk == Posted(pruned, i)
<1>t. /\ book \subseteq Intents /\ pmlcs \subseteq Pmlcs /\ nextId \in Nat /\ nextSeq \in Nat
      /\ IsFiniteSet(book)
      /\ \A j \in book : 0 < j.price /\ j.price < PRICE_ONE
  BY DEF TypeInv, TypeOK, PricesValid
<1>f. /\ i.id = nextId /\ i.seq = nextSeq /\ nextSeq' = nextSeq + 1
      /\ 0 < i.price /\ i.price < PRICE_ONE
  BY <1>1 DEF PostFrame, Fresh
<1>2. IdsApart(bk, pmlcs, nextId + 1, nextSeq + 1)
  <2>1. IdsApart(book, pmlcs, nextId, nextSeq)
    BY IdsParts
  <2>2. IdsApart(book \ pruned, pmlcs, nextId, nextSeq)
    BY <2>1, IdsShrink
  <2>3. book \ pruned \in SUBSET Intents
    BY <1>t
  <2> QED BY <1>t, <1>f, <2>2, <2>3, IdsPost DEF Posted
<1>3. /\ bk \in SUBSET Intents /\ i \in bk /\ IsFiniteSet(bk)
      /\ \A j \in bk : 0 < j.price /\ j.price < PRICE_ONE
  <2>1. IsFiniteSet(book \ pruned)
    BY <1>t, FS_Subset
  <2>2. IsFiniteSet(bk)
    BY <2>1, FS_AddElement DEF Posted
  <2> QED BY <1>t, <1>f, <2>2 DEF Posted
<1>4. CASE Rests(t, n, pruned, i)
  BY <1>2, <1>4, <1>f DEF Rests
<1>5. CASE IsMatched(t, n, pruned, i)
  <2>1. PICK l \in bk, s \in bk, bps \in MatchBps :
          MatchPairCore(PostMargin(t, n, pruned), bk, nextId + 1, l, s, bps)
    BY <1>5 DEF IsMatched
  <2> DEFINE mg == PostMargin(t, n, pruned)
             id == nextId + 1
  <2>2. MatchPairCore(mg, bk, id, l, s, bps) /\ id \in Nat
    BY <2>1, <1>t
  <2>3. mg \in [Traders -> Balances]
    BY <1>1 DEF PostFrame
  <2> HIDE DEF mg, bk
  <2>4. FilledBook(bk, l, s) \subseteq Intents
    BY <1>3, <2>2, FilledBookType DEF MatchPairCore, CanCross
  <2>5. IdsApart(book', pmlcs', nextId', nextSeq + 1)
    <3>1. IdsApart(bk, pmlcs, id, nextSeq + 1)
      BY <1>2
    <3> HIDE DEF id
    <3> QED BY <1>t, <1>3, <2>2, <2>4, <3>1, IdsMatch
  <2> QED BY <2>5, <1>f
<1>6. CASE IsLost(t, n, pruned, i)
  <2>1. PICK cp \in book \ pruned :
          CanFill(i) /\ CanFill(cp) /\ cp.side # i.side /\ book' = FilledBook(bk, i, cp)
    BY <1>6 DEF IsLost
  <2>2. cp \in bk /\ cp # i /\ nextId' = nextId + 2 /\ UNCHANGED pmlcs
    BY <1>6, <2>1 DEF Posted, IsLost
  <2> HIDE DEF bk
  <2>3. IdsApart(book', pmlcs', nextId + 1, nextSeq')
    BY <1>2, <1>3, <1>f, <2>1, <2>2, IdsFill
  <2>4. book' \in SUBSET Intents
    BY <1>3, <2>1, <2>2, FilledBookType
  <2>5. IdsApart(book', pmlcs', (nextId + 1) + 1, nextSeq')
    <3> DEFINE id == nextId + 1
    <3>1. id \in Nat /\ IdsApart(book', pmlcs', id, nextSeq') /\ pmlcs' \in SUBSET Pmlcs
      BY <1>t, <2>2, <2>3
    <3> HIDE DEF id
    <3>2. IdsApart(book', pmlcs', id + 1, nextSeq')
      BY <2>4, <3>1, IdsSkip
    <3> QED BY <3>2 DEF id
  <2>6. (nextId + 1) + 1 = nextId'
    BY <1>t, <2>2
  <2> QED BY <2>5, <2>6
<1> QED BY <1>1, <1>4, <1>5, <1>6

(* Every step keeps identifiers apart. *)
LEMMA IdsStep == TypeInv /\ IdsUnique /\ [Next]_vars => IdsUnique'
<1> SUFFICES ASSUME TypeInv, IdsUnique, [Next]_vars
             PROVE  IdsApart(book', pmlcs', nextId', nextSeq')
  BY DEF IdsUnique, IdsApart, UniqueBook, UniquePositions, Apart
<1>t. /\ book \subseteq Intents /\ pmlcs \subseteq Pmlcs /\ nextId \in Nat /\ nextSeq \in Nat
      /\ IsFiniteSet(book)
      /\ \A j \in book : 0 < j.price /\ j.price < PRICE_ONE
  BY DEF TypeInv, TypeOK, PricesValid
<1>i. IdsApart(book, pmlcs, nextId, nextSeq)
  BY IdsParts
<1>u. ASSUME UNCHANGED <<orders, pmlcs>> PROVE IdsApart(book', pmlcs', nextId', nextSeq')
  BY <1>i, <1>u DEF orders
<1>r. ASSUME NEW p \in pmlcs, NEW q, Evolves(p, q), Replace(p, q)
      PROVE  IdsApart(book, pmlcs', nextId, nextSeq)
  BY <1>i, <1>r, IdsReplace DEF Evolves, Replace
<1>1. CASE UNCHANGED vars
  BY <1>1, <1>u DEF vars
<1>2. CASE Accounts \/ Administering
  BY <1>2, <1>u DEF Accounts, CreateMarginAccount, Deposit, Withdraw, SweepFees,
       Administering, SetGlobalPause, SetInstrumentStatus, Tick
<1>3. CASE Posting
  BY <1>3, IdsPosting, IdsParts DEF IdsUnique, IdsApart, UniqueBook, UniquePositions, Apart
<1>4. CASE Leaving
  <2>1. book' \in SUBSET book /\ UNCHANGED <<nextId, nextSeq, pmlcs>>
    BY <1>4 DEF Leaving, CancelIntent, PruneExpired
  <2> QED BY <1>i, <2>1, IdsShrink
<1>5. CASE Matching
  <2>1. PICK l \in book, s \in book, bps \in MatchBps :
          MatchPairCore(margin, book, nextId, l, s, bps)
    BY <1>5, MatchingForm
  <2>2. nextSeq' = nextSeq
    BY <1>5, MatchingForm
  <2>3. FilledBook(book, l, s) \subseteq Intents
    BY <1>t, <2>1, FilledBookType DEF MatchPairCore, CanCross
  <2> QED BY <1>t, <1>i, <2>1, <2>2, <2>3, IdsMatch
<1>6. CASE Settling
  <2>1. UNCHANGED orders /\ \E p \in pmlcs : \E q : Evolves(p, q) /\ Replace(p, q)
    BY <1>6, SettlingForm
  <2> QED BY <1>r, <2>1 DEF orders
<1>7. CASE Transferring
  <2>1. ASSUME NEW p \in pmlcs, NEW side \in Sides, NEW t \in Traders, Novate(p, side, t)
        PROVE  IdsApart(book', pmlcs', nextId', nextSeq')
    <3>1. p.status = "live" /\ Replace(p, WithOwner(p, side, t)) /\ UNCHANGED orders
      BY <2>1 DEF Novate
    <3> QED BY <1>r, <3>1, OwnerChanges DEF orders
  <2>2. ASSUME NEW p \in pmlcs, NEW sub \in Traders, NEW l \in book, NEW s \in book,
               NEW withSettle \in BOOLEAN, Substitute(p, sub, l, s, withSettle)
        PROVE  IdsApart(book', pmlcs', nextId', nextSeq')
    <3>1. PICK side \in Sides, t \in Traders :
            /\ p.status = "live"
            /\ CanCross(l, s)
            /\ book' = FilledBook(book, l, s)
            /\ Replace(p, WithOwner(p, side, t))
            /\ UNCHANGED <<nextId, nextSeq>>
      <4>1. l.owner \in Traders /\ s.owner \in Traders
        BY <1>t DEF Intents
      <4> QED BY <2>2, <4>1 DEF Substitute, Sides
    <3>2. IdsApart(book, pmlcs', nextId, nextSeq)
      BY <1>r, <3>1, OwnerChanges
    <3>3. l # s /\ CanFill(l) /\ CanFill(s)
      BY <3>1 DEF CanCross
    <3> QED BY <1>t, <3>1, <3>2, <3>3, IdsFill
  <2> QED BY <1>7, <2>1, <2>2 DEF Transferring
<1>8. CASE Ending
  <2>1. ASSUME NEW p \in pmlcs, ClosePmlc(p)
        PROVE  IdsApart(book', pmlcs', nextId', nextSeq')
    <3>1. pmlcs' \in SUBSET pmlcs /\ UNCHANGED orders
      BY <2>1 DEF ClosePmlc
    <3> QED BY <1>i, <3>1, IdsShrink DEF orders
  <2>2. ASSUME NEW p \in pmlcs, NEW side \in Sides, NEW expiration \in Expirations,
               ClaimReentry(p, side, expiration)
        PROVE  IdsApart(book', pmlcs', nextId', nextSeq')
    <3>1. PICK i \in Intents :
            /\ i.id = nextId /\ i.seq = nextSeq
            /\ book' = book \cup {i} /\ nextId' = nextId + 1 /\ nextSeq' = nextSeq + 1
            /\ p.status \in Terminal /\ Replace(p, WithoutReentry(p, side))
      BY <2>2, ClaimForm DEF Fresh
    <3>2. IdsApart(book, pmlcs', nextId, nextSeq)
      BY <1>r, <3>1, ReentryGivenUp
    <3>3. pmlcs' \in SUBSET Pmlcs
      BY <1>t, <3>1, ReentryGivenUp DEF Evolves, Replace
    <3> QED BY <1>t, <3>1, <3>2, <3>3, IdsPost
  <2>3. ASSUME NEW p \in pmlcs, NEW side \in Sides, NEW expiration \in Expirations,
               ClaimReentryUnfunded(p, side, expiration)
        PROVE  IdsApart(book', pmlcs', nextId', nextSeq')
    <3>1. p.status \in Terminal /\ Replace(p, WithoutReentry(p, side)) /\ UNCHANGED orders
      BY <2>3 DEF ClaimReentryUnfunded, CanClaim
    <3> QED BY <1>r, <3>1, ReentryGivenUp DEF orders
  <2> QED BY <1>8, <2>1, <2>2, <2>3 DEF Ending
<1> QED BY <1>1, <1>2, <1>3, <1>4, <1>5, <1>6, <1>7, <1>8 DEF Next

(* Neither an id nor a sequence number is ever handed out twice, even by a    *)
(* post whose inline match fails after it took two ids.                       *)
THEOREM IdsNeverReused == Spec => []IdsUnique
<1>1. Init => IdsUnique
  BY DEF Init, IdsUnique
<1> QED BY <1>1, TypeInit, TypeStep, IdsStep, PTL DEF Spec

-----------------------------------------------------------------------------
(* The life of a position *)

(* A step leaves the positions alone, opens one, closes the account of one    *)
(* that has ended, or changes one; only a settlement ends one, and with it    *)
(* the market's nonce goes up.                                                *)
PositionsKept == UNCHANGED pmlcs /\ market'.nonce = market.nonce

PositionOpened ==
  /\ \E q \in Pmlcs : (\A p \in pmlcs : p.id # q.id) /\ pmlcs' = pmlcs \cup {q}
  /\ market'.nonce = market.nonce

PositionErased ==
  /\ \E p \in pmlcs : p.status \in Terminal /\ pmlcs' = pmlcs \ {p}
  /\ market'.nonce = market.nonce

PositionChanged ==
  \E p \in pmlcs, q \in Pmlcs :
    /\ Evolves(p, q) /\ Replace(p, q)
    /\ IF p.status = "live" /\ q.status # "live"
       THEN market'.nonce > market.nonce
       ELSE market'.nonce = market.nonce

(* An id that was not given out yet is no position's. *)
LEMMA NextIdFree ==
  ASSUME TypeInv, IdsUnique, NEW id \in Nat, id >= nextId
  PROVE  \A p \in pmlcs : p.id # id
BY DEF IdsUnique, TypeInv, TypeOK, Pmlcs

(* Every step has one of the forms. *)
LEMMA PositionForms ==
  ASSUME TypeInv, IdsUnique, [Next]_vars
  PROVE  PositionsKept \/ PositionOpened \/ PositionErased \/ PositionChanged
<1>t. /\ book \subseteq Intents /\ pmlcs \subseteq Pmlcs /\ nextId \in Nat
      /\ \A j \in book : 0 < j.price /\ j.price < PRICE_ONE
  BY DEF TypeInv, TypeOK, PricesValid
<1>1. CASE UNCHANGED vars
  BY <1>1 DEF vars, PositionsKept
<1>2. CASE Accounts \/ Administering \/ Leaving
  BY <1>2 DEF PositionsKept, Accounts, CreateMarginAccount, Deposit, Withdraw, SweepFees,
       Administering, SetGlobalPause, SetInstrumentStatus, Tick,
       Leaving, CancelIntent, PruneExpired
<1>3. CASE Posting
  <2>1. PICK t \in Traders, n \in Nat, pruned \in SUBSET book, i \in Intents :
          /\ PostFrame(t, n, pruned, i)
          /\ Rests(t, n, pruned, i) \/ IsMatched(t, n, pruned, i) \/ IsLost(t, n, pruned, i)
    BY <1>3, PostingForms
  <2>2. UNCHANGED market
    BY <2>1 DEF PostFrame
  <2>3. CASE Rests(t, n, pruned, i) \/ IsLost(t, n, pruned, i)
    BY <2>2, <2>3 DEF Rests, IsLost, PositionsKept
  <2>4. CASE IsMatched(t, n, pruned, i)
    <3> DEFINE bk == Posted(pruned, i)
               id == nextId + 1
               mg == PostMargin(t, n, pruned)
    <3>1. PICK l \in bk, s \in bk, bps \in MatchBps : MatchPairCore(mg, bk, id, l, s, bps)
      BY <2>4 DEF IsMatched
    <3>2. bk \in SUBSET Intents /\ \A j \in bk : 0 < j.price /\ j.price < PRICE_ONE
      BY <1>t, <2>1 DEF Posted, PostFrame, Fresh
    <3>3. id \in Nat /\ id >= nextId
      BY <1>t
    <3> DEFINE q == NewPmlc(id, l, s)
    <3> HIDE DEF bk, id, mg
    <3>4. q \in Pmlcs /\ q.id = id /\ pmlcs' = pmlcs \cup {q}
      BY <3>1, <3>2, <3>3, MatchNeeds
    <3>5. \A p \in pmlcs : p.id # q.id
      BY <3>3, <3>4, NextIdFree
    <3> HIDE DEF q
    <3> QED BY <2>2, <3>4, <3>5 DEF PositionOpened
  <2> QED BY <2>1, <2>3, <2>4
<1>4. CASE Matching
  <2>1. PICK l \in book, s \in book, bps \in MatchBps :
          MatchPairCore(margin, book, nextId, l, s, bps)
    BY <1>4, MatchingForm
  <2> DEFINE q == NewPmlc(nextId, l, s)
  <2>2. q \in Pmlcs /\ q.id = nextId /\ pmlcs' = pmlcs \cup {q}
    BY <1>t, <2>1, MatchNeeds
  <2>3. \A p \in pmlcs : p.id # q.id
    BY <1>t, <2>2, NextIdFree
  <2>4. market' = market
    BY <1>4, MatchingForm
  <2> HIDE DEF q
  <2> QED BY <2>2, <2>3, <2>4 DEF PositionOpened
<1>5. CASE Settling
  <2>1. PICK p \in pmlcs, status \in Terminal :
          /\ CanSettle(p)
          /\ Evolves(p, [p EXCEPT !.status = status])
          /\ Replace(p, [p EXCEPT !.status = status])
    BY <1>5, SettlingForm
  <2>2. market'.nonce > market.nonce
    BY <1>5, SettlingForm
  <2> DEFINE q == [p EXCEPT !.status = status]
  <2>3. p.status = "live" /\ q.status # "live"
    BY <1>t, <2>1 DEF CanSettle, Terminal, Pmlcs
  <2>4. Evolves(p, q) /\ Replace(p, q)
    BY <2>1
  <2> HIDE DEF q
  <2> QED BY <2>2, <2>3, <2>4 DEF PositionChanged, Evolves
<1>6. CASE Transferring
  <2>1. PICK p \in pmlcs, side \in Sides, t \in Traders :
          /\ p.status = "live"
          /\ Replace(p, WithOwner(p, side, t))
          /\ UNCHANGED market
    <3>1. \A l, s \in book : l.owner \in Traders /\ s.owner \in Traders
      BY <1>t DEF Intents
    <3> QED BY <1>6, <3>1 DEF Transferring, Novate, Substitute, Sides
  <2> DEFINE q == WithOwner(p, side, t)
  <2>2. Evolves(p, q)
    BY <2>1, OwnerChanges
  <2>3. q.status = "live" /\ Replace(p, q)
    BY <1>t, <2>1 DEF WithOwner, Pmlcs
  <2> HIDE DEF q
  <2> QED BY <2>1, <2>2, <2>3 DEF PositionChanged, Evolves
<1>7. CASE Ending
  <2>1. CASE \E p \in pmlcs : ClosePmlc(p)
    BY <2>1 DEF ClosePmlc, PositionErased
  <2>2. ASSUME NEW p \in pmlcs, NEW side \in Sides, NEW expiration \in Expirations,
               ClaimReentry(p, side, expiration) \/ ClaimReentryUnfunded(p, side, expiration)
        PROVE  PositionChanged
    <3> DEFINE q == WithoutReentry(p, side)
    <3>1. p.status \in Terminal /\ Replace(p, q) /\ UNCHANGED market
      BY <2>2, ClaimForm DEF ClaimReentryUnfunded, CanClaim
    <3>2. Evolves(p, q)
      BY <3>1, ReentryGivenUp
    <3>3. p.status # "live"
      BY <3>1 DEF Terminal
    <3> HIDE DEF q
    <3> QED BY <3>1, <3>2, <3>3 DEF PositionChanged, Evolves
  <2> QED BY <1>7, <2>1, <2>2 DEF Ending
<1> QED BY <1>1, <1>2, <1>3, <1>4, <1>5, <1>6, <1>7 DEF Next

(* The terms of a position are fixed, it ends once, and its account outlives  *)
(* it: no order of novations, substitutions, settlements, claims and closes,  *)
(* and no failed post, does otherwise.                                        *)
THEOREM LifecycleKept == Spec => PositionLifecycle
<1> DEFINE Life ==
      \A p \in pmlcs :
         /\ p.status = "live" => \E q \in pmlcs' : Same(p, q)
         /\ \A q \in pmlcs' : Same(p, q) =>
              /\ <<q.entry, q.longPrice, q.shortPrice>> = <<p.entry, p.longPrice, p.shortPrice>>
              /\ p.status # "live" => <<q.status, q.long, q.short>> = <<p.status, p.long, p.short>>
              /\ q.longReentry => p.longReentry
              /\ q.shortReentry => p.shortReentry
              /\ p.status = "live" => /\ q.longReentry = p.longReentry
                                      /\ q.shortReentry = p.shortReentry
<1>1. TypeInv /\ IdsUnique /\ [Next]_vars => [Life]_vars
  <2> SUFFICES ASSUME TypeInv, IdsUnique, [Next]_vars PROVE Life
    OBVIOUS
  <2>u. \A p, q \in pmlcs : p.id = q.id => p = q
    BY DEF IdsUnique
  <2>1. CASE PositionsKept
    BY <2>u, <2>1 DEF PositionsKept, Same
  <2>2. CASE PositionOpened
    BY <2>u, <2>2 DEF PositionOpened, Same
  <2>3. CASE PositionErased
    BY <2>u, <2>3 DEF PositionErased, Same, Terminal
  <2>4. CASE PositionChanged
    <3>1. PICK p0 \in pmlcs, q0 \in Pmlcs : Evolves(p0, q0) /\ Replace(p0, q0)
      BY <2>4 DEF PositionChanged
    <3>2. pmlcs' = (pmlcs \ {p0}) \cup {q0} /\ q0.id = p0.id
      BY <3>1 DEF Replace, Evolves
    <3> SUFFICES ASSUME NEW p \in pmlcs
                 PROVE  /\ \E q \in pmlcs' : Same(p, q)
                        /\ \A q \in pmlcs' : Same(p, q) => (p = p0 /\ q = q0) \/ q = p
      BY <3>1 DEF Evolves
    <3>3. \E q \in pmlcs' : Same(p, q)
      BY <3>2 DEF Same
    <3>4. \A q \in pmlcs' : Same(p, q) => (p = p0 /\ q = q0) \/ q = p
      BY <2>u, <3>2 DEF Same
    <3> QED BY <3>3, <3>4
  <2> QED BY <2>1, <2>2, <2>3, <2>4, PositionForms
<1>2. Spec => [](TypeInv /\ IdsUnique)
  BY TypeInit, TypeStep, IdsNeverReused, PTL DEF Spec
<1>3. Spec => [][Life]_vars
  BY <1>1, <1>2, PTL DEF Spec
<1> QED BY <1>3 DEF PositionLifecycle

(* What a step may do to the nonce and the positions. *)
NonceOnce ==
  /\ market'.nonce >= market.nonce
  /\ \A p \in pmlcs : Ends(p) => market'.nonce > market.nonce
  /\ \A p, q \in pmlcs : Ends(p) /\ Ends(q) => p = q

(* A step ends a position only with a nonce it advances to. *)
LEMMA NonceStep == TypeInv /\ IdsUnique /\ [Next]_vars => NonceOnce
<1> SUFFICES ASSUME TypeInv, IdsUnique, [Next]_vars PROVE NonceOnce
  OBVIOUS
<1>u. \A p, q \in pmlcs : p.id = q.id => p = q
  BY DEF IdsUnique
<1>n. market.nonce \in Nat /\ market'.nonce \in Nat
  <2>1. TypeInv'
    BY TypeStep
  <2> QED BY <2>1 DEF TypeInv, TypeOK
<1>1. CASE PositionsKept
  BY <1>u, <1>n, <1>1 DEF NonceOnce, PositionsKept, Ends, Same
<1>2. CASE PositionOpened
  BY <1>u, <1>n, <1>2 DEF NonceOnce, PositionOpened, Ends, Same
<1>3. CASE PositionErased
  BY <1>u, <1>n, <1>3 DEF NonceOnce, PositionErased, Ends, Same
<1>4. CASE PositionChanged
  <2>1. PICK p0 \in pmlcs, q0 \in Pmlcs :
          /\ Evolves(p0, q0) /\ Replace(p0, q0)
          /\ IF p0.status = "live" /\ q0.status # "live"
             THEN market'.nonce > market.nonce
             ELSE market'.nonce = market.nonce
    BY <1>4 DEF PositionChanged
  <2>2. pmlcs' = (pmlcs \ {p0}) \cup {q0} /\ q0.id = p0.id
    BY <2>1 DEF Replace, Evolves
  <2>3. \A p \in pmlcs : Ends(p) => p = p0 /\ p0.status = "live" /\ q0.status # "live"
    BY <1>u, <2>2 DEF Ends, Same
  <2> QED BY <1>n, <2>1, <2>3 DEF NonceOnce
<1> QED BY <1>1, <1>2, <1>3, <1>4, PositionForms

(* One attestation ends at most one position, for any number of positions     *)
(* and whatever the other handlers do in between.                             *)
THEOREM AttestationUsedOnce == Spec => NonceConsumed
<1>1. TypeInv /\ IdsUnique /\ [Next]_vars => [NonceOnce]_vars
  BY NonceStep
<1>2. Spec => [](TypeInv /\ IdsUnique)
  BY TypeInit, TypeStep, IdsNeverReused, PTL DEF Spec
<1>3. Spec => [][NonceOnce]_vars
  BY <1>1, <1>2, PTL DEF Spec
<1> QED BY <1>3 DEF NonceConsumed, NonceOnce

-----------------------------------------------------------------------------
(* What a resting intent holds *)

(* The book becomes bk, or what a match leaves of it. *)
BecomesOrFills(bk) ==
  \/ book' = bk
  \/ \E l, s \in bk : /\ l # s /\ CanFill(l) /\ CanFill(s)
                      /\ book' = FilledBook(bk, l, s)

(* A post adds its intent to what is left of the book, and may fill it. *)
LEMMA PostBook ==
  ASSUME TypeInv, NEW t \in Traders, NEW n \in Nat, NEW pruned \in SUBSET book, NEW i \in Intents,
         PostFrame(t, n, pruned, i),
         Rests(t, n, pruned, i) \/ IsMatched(t, n, pruned, i) \/ IsLost(t, n, pruned, i)
  PROVE  n > 0 /\ Fresh(i, t, n) /\ BecomesOrFills((book \ pruned) \cup {i})
<1>t. /\ book \subseteq Intents /\ nextId \in Nat
      /\ \A j \in book : 0 < j.price /\ j.price < PRICE_ONE
  BY DEF TypeInv, TypeOK, PricesValid
<1> DEFINE bk == (book \ pruned) \cup {i}
<1>1. n > 0 /\ Fresh(i, t, n)
  BY DEF PostFrame
<1>2. ASSUME Rests(t, n, pruned, i) PROVE BecomesOrFills(bk)
  BY <1>2 DEF Rests, Posted, BecomesOrFills
<1>3. ASSUME IsMatched(t, n, pruned, i) PROVE BecomesOrFills(bk)
  <2> DEFINE id == nextId + 1
             mg == PostMargin(t, n, pruned)
  <2>1. PICK l \in bk, s \in bk, bps \in MatchBps : MatchPairCore(mg, bk, id, l, s, bps)
    BY <1>3 DEF IsMatched, Posted
  <2>2. bk \in SUBSET Intents /\ \A j \in bk : 0 < j.price /\ j.price < PRICE_ONE
    BY <1>t, <1>1 DEF Fresh
  <2>3. id \in Nat
    BY <1>t
  <2> HIDE DEF bk, id, mg
  <2>4. l # s /\ CanFill(l) /\ CanFill(s) /\ book' = FilledBook(bk, l, s)
    BY <2>1, <2>2, <2>3, MatchNeeds, Zenon
  <2> QED BY <2>4 DEF BecomesOrFills
<1>4. ASSUME IsLost(t, n, pruned, i) PROVE BecomesOrFills(bk)
  <2>1. PICK cp \in book \ pruned :
          /\ CanFill(i) /\ CanFill(cp) /\ cp.side # i.side
          /\ book' = FilledBook(bk, i, cp)
    BY <1>4 DEF IsLost, Posted
  <2>2. cp \in bk /\ i \in bk /\ cp # i
    BY <2>1
  <2> HIDE DEF bk
  <2> QED BY <2>1, <2>2 DEF BecomesOrFills
<1> QED BY <1>1, <1>2, <1>3, <1>4

(* Intents leave the book, at most one is added, and at most two are filled. *)
LEMMA BookForms ==
  ASSUME TypeInv, [Next]_vars
  PROVE  \/ \E rest \in SUBSET book : BecomesOrFills(rest)
         \/ \E rest \in SUBSET book, t \in Traders, n \in Nat, i \in Intents :
              n > 0 /\ Fresh(i, t, n) /\ BecomesOrFills(rest \cup {i})
<1>t. /\ book \subseteq Intents /\ nextId \in Nat
      /\ \A j \in book : 0 < j.price /\ j.price < PRICE_ONE
  BY DEF TypeInv, TypeOK, PricesValid
<1>u. ASSUME book' \in SUBSET book PROVE \E rest \in SUBSET book : BecomesOrFills(rest)
  BY <1>u DEF BecomesOrFills
<1>1. CASE UNCHANGED vars
  BY <1>1, <1>u DEF vars, orders
<1>2. CASE Accounts \/ Administering \/ Leaving
  BY <1>2, <1>u DEF Accounts, CreateMarginAccount, Deposit, Withdraw, SweepFees, orders,
       Administering, SetGlobalPause, SetInstrumentStatus, Tick,
       Leaving, CancelIntent, PruneExpired
<1>3. CASE Posting
  <2>1. PICK t \in Traders, n \in Nat, pruned \in SUBSET book, i \in Intents :
          /\ PostFrame(t, n, pruned, i)
          /\ Rests(t, n, pruned, i) \/ IsMatched(t, n, pruned, i) \/ IsLost(t, n, pruned, i)
    BY <1>3, PostingForms
  <2>2. n > 0 /\ Fresh(i, t, n) /\ BecomesOrFills((book \ pruned) \cup {i})
    BY <2>1, PostBook
  <2>3. book \ pruned \in SUBSET book
    OBVIOUS
  <2> QED BY <2>2, <2>3, Zenon
<1>4. CASE Matching
  <2>1. PICK l \in book, s \in book, bps \in MatchBps :
          MatchPairCore(margin, book, nextId, l, s, bps)
    BY <1>4, MatchingForm
  <2>2. l # s /\ CanFill(l) /\ CanFill(s) /\ book' = FilledBook(book, l, s)
    BY <1>t, <2>1, MatchNeeds
  <2> QED BY <2>2 DEF BecomesOrFills
<1>5. CASE Settling
  BY <1>5, <1>u, SettlingForm DEF orders
<1>6. CASE Transferring
  <2>1. ASSUME NEW p \in pmlcs, NEW sub \in Traders, NEW l \in book, NEW s \in book,
               NEW withSettle \in BOOLEAN, Substitute(p, sub, l, s, withSettle)
        PROVE  \E rest \in SUBSET book : BecomesOrFills(rest)
    <3>1. CanCross(l, s) /\ book' = FilledBook(book, l, s)
      BY <2>1 DEF Substitute
    <3>2. l # s /\ CanFill(l) /\ CanFill(s)
      BY <3>1 DEF CanCross
    <3> QED BY <3>1, <3>2 DEF BecomesOrFills
  <2>2. CASE \E p \in pmlcs, side \in Sides, new \in Traders : Novate(p, side, new)
    BY <2>2, <1>u DEF Novate, orders
  <2> QED BY <1>6, <2>1, <2>2 DEF Transferring
<1>7. CASE Ending
  <2>1. ASSUME NEW p \in pmlcs, NEW side \in Sides, NEW expiration \in Expirations,
               ClaimReentry(p, side, expiration)
        PROVE  \E t \in Traders, n \in Nat, i \in Intents :
                 n > 0 /\ Fresh(i, t, n) /\ BecomesOrFills(book \cup {i})
    BY <2>1, ClaimForm DEF BecomesOrFills
  <2>2. CASE \/ \E p \in pmlcs : ClosePmlc(p)
             \/ \E p \in pmlcs, side \in Sides, expiration \in Expirations :
                  ClaimReentryUnfunded(p, side, expiration)
    BY <2>2, <1>u DEF ClosePmlc, ClaimReentryUnfunded, orders
  <2> QED BY <1>7, <2>1, <2>2 DEF Ending
<1> QED BY <1>1, <1>2, <1>3, <1>4, <1>5, <1>6, <1>7 DEF Next

(* A bucket for each contract. *)
Backed(i) == i.remaining > 0 /\ i.reserved = i.remaining * Bucket

(* A fill takes the bucket of the contract it fills. *)
LEMMA FillBacked ==
  ASSUME NEW i \in Intents, CanFill(i), Backed(i), Fill(i).remaining # 0
  PROVE  Backed(Fill(i))
<1> DEFINE r == i.remaining
           b == Bucket
<1>1. r \in Nat /\ r > 0 /\ b \in Nat /\ i.reserved = r * b
  BY InstrumentAssumption DEF Intents, Backed
<1>2. Fill(i).remaining = r - 1 /\ Fill(i).reserved = i.reserved - b
  BY FillType
<1>3. r * b - b = (r - 1) * b
  <2> HIDE DEF r, b
  <2> QED BY <1>1
<1>4. r - 1 > 0
  BY <1>1, <1>2
<1> QED BY <1>1, <1>2, <1>3, <1>4 DEF Backed

(* Every step keeps the book backed. *)
LEMMA BackingStep == TypeInv /\ NodeBacking /\ [Next]_vars => NodeBacking'
<1> SUFFICES ASSUME TypeInv, NodeBacking, [Next]_vars PROVE \A i \in book' : Backed(i)
  BY DEF NodeBacking, Backed
<1>t. book \subseteq Intents /\ \A i \in book : Backed(i)
  BY DEF TypeInv, TypeOK, NodeBacking, Backed
<1>1. ASSUME NEW bk \in SUBSET Intents, \A i \in bk : Backed(i), BecomesOrFills(bk)
      PROVE  \A i \in book' : Backed(i)
  <2>1. CASE book' = bk
    BY <1>1, <2>1
  <2>2. ASSUME NEW l \in bk, NEW s \in bk, CanFill(l), CanFill(s), book' = FilledBook(bk, l, s)
        PROVE  \A i \in book' : Backed(i)
    <3>1. \A i \in book' : \/ i \in bk
                           \/ i = Fill(l) /\ i.remaining # 0
                           \/ i = Fill(s) /\ i.remaining # 0
      BY <2>2 DEF FilledBook
    <3> QED BY <1>1, <2>2, <3>1, FillBacked
  <2> QED BY <1>1, <2>1, <2>2 DEF BecomesOrFills
<1>2. CASE \E rest \in SUBSET book : BecomesOrFills(rest)
  BY <1>t, <1>1, <1>2
<1>3. ASSUME NEW rest \in SUBSET book, NEW t \in Traders, NEW n \in Nat, NEW i \in Intents,
             n > 0, Fresh(i, t, n), BecomesOrFills(rest \cup {i})
      PROVE  \A j \in book' : Backed(j)
  <2>1. Backed(i)
    BY <1>3 DEF Fresh, Backed
  <2> QED BY <1>t, <1>1, <1>3, <2>1
<1> QED BY <1>2, <1>3, BookForms

(* A fill can neither underflow a reservation nor leave dust behind, whatever *)
(* the fills before it: match, failed match or substitution.                  *)
THEOREM NodesBacked == Spec => []NodeBacking
<1>1. Init => NodeBacking
  BY DEF Init, NodeBacking
<1> QED BY <1>1, TypeInit, TypeStep, BackingStep, PTL DEF Spec

-----------------------------------------------------------------------------
(* What the intents of a trader hold *)

Held(bk, t) == EscrowOf({i \in bk : i.owner = t})

(* x for trader t, nothing for any other trader u. *)
At(u, t, x) == IF u = t THEN x ELSE 0

(* The escrow of a set is that of a part and of the rest. *)
LEMMA EscrowSplit ==
  ASSUME NEW S \in SUBSET Intents, IsFiniteSet(S), NEW P \in SUBSET S
  PROVE  EscrowOf(S) = EscrowOf(P) + EscrowOf(S \ P)
<1> DEFINE w == [i \in S |-> Escrow(i)]
           v == [i \in P |-> Escrow(i)]
           R == S \ P
           u == [i \in R |-> Escrow(i)]
<1>1. \A i \in S : w[i] \in Nat
  BY DEF Escrow, Intents
<1>2. /\ S = P \cup R /\ P \cap R = {}
      /\ IsFiniteSet(P) /\ IsFiniteSet(R)
  BY FS_Subset
<1>3. (\A i \in P : v[i] = w[i]) /\ (\A i \in R : u[i] = w[i])
  OBVIOUS
<1>4. EscrowOf(S) = Total(S, w) /\ EscrowOf(P) = Total(P, v) /\ EscrowOf(R) = Total(R, u)
  BY DEF EscrowOf
<1> HIDE DEF w, v, u, R
<1>5. Total(P \cup R, w) = Total(P, w) + Total(R, w)
  BY <1>1, <1>2, TotalUnion
<1>6. Total(P, v) = Total(P, w) /\ Total(R, u) = Total(R, w)
  BY <1>3, TotalAgree
<1> QED BY <1>2, <1>4, <1>5, <1>6 DEF R

(* What a trader holds in a book is what it holds in two parts of it. *)
LEMMA HeldSplit ==
  ASSUME NEW bk \in SUBSET Intents, IsFiniteSet(bk), NEW P \in SUBSET bk, NEW t
  PROVE  /\ Held(bk, t) = Held(P, t) + Held(bk \ P, t)
         /\ Held(bk, t) \in Nat /\ Held(P, t) \in Nat /\ Held(bk \ P, t) \in Nat
<1> DEFINE S == {i \in bk : i.owner = t}
           Q == {i \in P : i.owner = t}
           R == {i \in bk \ P : i.owner = t}
<1>1. /\ S \in SUBSET Intents /\ IsFiniteSet(S) /\ Q \in SUBSET S /\ R = S \ Q
      /\ Q \in SUBSET Intents /\ R \in SUBSET Intents
      /\ IsFiniteSet(Q) /\ IsFiniteSet(R)
  <2>1. S \in SUBSET bk /\ Q \in SUBSET S /\ R = S \ Q /\ R \in SUBSET bk /\ Q \in SUBSET bk
    OBVIOUS
  <2> QED BY <2>1, FS_Subset
<1>2. Held(bk, t) = EscrowOf(S) /\ Held(P, t) = EscrowOf(Q) /\ Held(bk \ P, t) = EscrowOf(R)
  BY DEF Held
<1> HIDE DEF S, Q, R
<1>3. EscrowOf(S) = EscrowOf(Q) + EscrowOf(R)
  BY <1>1, EscrowSplit
<1>4. EscrowOf(S) \in Nat /\ EscrowOf(Q) \in Nat /\ EscrowOf(R) \in Nat
  BY <1>1, EscrowType
<1> QED BY <1>2, <1>3, <1>4

(* One intent. *)
LEMMA HeldOne ==
  ASSUME NEW i \in Intents, NEW t
  PROVE  Held({i}, t) = At(t, i.owner, Escrow(i))
<1> DEFINE w == [j \in {i} |-> Escrow(j)]
<1>1. w[i] \in Nat /\ w[i] = Escrow(i)
  BY DEF Escrow, Intents
<1>2. EscrowOf({i}) = Total({i}, w)
  BY DEF EscrowOf
<1>3. EscrowOf({}) = 0
  BY TotalEmpty DEF EscrowOf
<1> HIDE DEF w
<1>4. EscrowOf({i}) = Escrow(i)
  BY <1>1, <1>2, TotalSingle
<1>5. CASE i.owner = t
  <2>1. {j \in {i} : j.owner = t} = {i}
    BY <1>5
  <2> QED BY <1>4, <1>5, <2>1 DEF Held, At
<1>6. CASE i.owner # t
  <2>1. {j \in {i} : j.owner = t} = {}
    BY <1>6
  <2> QED BY <1>3, <1>6, <2>1 DEF Held, At
<1> QED BY <1>5, <1>6

(* An intent more. *)
LEMMA HeldAdd ==
  ASSUME NEW bk \in SUBSET Intents, IsFiniteSet(bk), NEW i \in Intents, i \notin bk, NEW t
  PROVE  /\ Held(bk \cup {i}, t) = Held(bk, t) + At(t, i.owner, Escrow(i))
         /\ Held(bk, t) \in Nat
<1> DEFINE all == bk \cup {i}
<1>1. all \in SUBSET Intents /\ IsFiniteSet(all) /\ {i} \in SUBSET all /\ all \ {i} = bk
  BY FS_AddElement
<1> HIDE DEF all
<1>2. Held(all, t) = Held({i}, t) + Held(bk, t) /\ Held({i}, t) \in Nat /\ Held(bk, t) \in Nat
  BY <1>1, HeldSplit
<1> QED BY <1>2, HeldOne DEF all

(* What a fill takes out of the escrow of trader t. *)
Taken(i, t) == At(t, i.owner, Bucket + FeeRelease(i))

(* A fill, of an intent that it may exhaust. *)
LEMMA HeldFilled ==
  ASSUME NEW i \in Intents, CanFill(i), Backed(i), NEW t
  PROVE  /\ Held({f \in {Fill(i)} : f.remaining # 0}, t) = Held({i}, t) - Taken(i, t)
         /\ Taken(i, t) \in Nat /\ Held({i}, t) \in Nat
<1> DEFINE g == Fill(i)
           x == FeeRelease(i)
<1>1. /\ g \in Intents /\ g.owner = i.owner
      /\ g.remaining = i.remaining - 1
      /\ g.reserved = i.reserved - Bucket
      /\ g.feeBuffer = i.feeBuffer - x
  BY FillType
<1>2. x \in Nat /\ i.remaining \in Nat /\ i.remaining > 0 /\ i.reserved \in Nat
      /\ i.feeBuffer \in Nat /\ Bucket \in Nat
  BY FeeReleaseType, InstrumentAssumption DEF Backed, Intents
<1>3. Held({i}, t) = At(t, i.owner, i.reserved + i.feeBuffer)
  BY HeldOne DEF Escrow
<1>4. Held({g}, t) = At(t, i.owner, i.reserved + i.feeBuffer - Bucket - x)
  <2>1. Held({g}, t) = At(t, g.owner, Escrow(g))
    BY <1>1, HeldOne
  <2>2. Escrow(g) = i.reserved + i.feeBuffer - Bucket - x
    <3> HIDE DEF g, x
    <3> QED BY <1>1, <1>2 DEF Escrow
  <2> QED BY <1>1, <2>1, <2>2
<1>5. Taken(i, t) = At(t, i.owner, Bucket + x)
  BY DEF Taken
<1> DEFINE F == {f \in {g} : f.remaining # 0}
<1>6. ASSUME g.remaining # 0
      PROVE  Held(F, t) = Held({i}, t) - Taken(i, t) /\ Taken(i, t) \in Nat /\ Held({i}, t) \in Nat
  <2>1. F = {g}
    BY <1>6
  <2> HIDE DEF F, g, x
  <2> QED BY <1>2, <1>3, <1>4, <1>5, <2>1 DEF At
<1>7. ASSUME g.remaining = 0
      PROVE  Held(F, t) = Held({i}, t) - Taken(i, t) /\ Taken(i, t) \in Nat /\ Held({i}, t) \in Nat
  <2>1. F = {}
    BY <1>7
  <2>2. Held({}, t) = 0
    <3>1. {j \in {} : j.owner = t} = {}
      OBVIOUS
    <3> QED BY <3>1, TotalEmpty DEF Held, EscrowOf
  <2>3. i.remaining = 1
    BY <1>1, <1>2, <1>7
  <2>4. x = i.feeBuffer /\ i.reserved = Bucket
    BY <1>2, <2>3 DEF FeeRelease, Backed
  <2> HIDE DEF F, g, x
  <2> QED BY <1>2, <1>3, <1>5, <2>1, <2>2, <2>4 DEF At
<1> HIDE DEF F
<1>8. Held(F, t) = Held({i}, t) - Taken(i, t) /\ Taken(i, t) \in Nat /\ Held({i}, t) \in Nat
  BY <1>1, <1>2, <1>6, <1>7
<1> QED BY <1>8 DEF F

(* A match or a substitution takes what it fills, from a book whose ids are   *)
(* apart: a filled intent is never mistaken for another.                      *)
LEMMA HeldFill ==
  ASSUME NEW bk \in SUBSET Intents, IsFiniteSet(bk), NEW id, NEW seq, UniqueBook(bk, id, seq),
         NEW l \in bk, NEW s \in bk, l # s, CanFill(l), CanFill(s), Backed(l), Backed(s), NEW t
  PROVE  /\ Held(FilledBook(bk, l, s), t) = Held(bk, t) - Taken(l, t) - Taken(s, t)
         /\ Held(bk, t) \in Nat /\ Taken(l, t) \in Nat /\ Taken(s, t) \in Nat
<1> DEFINE kept == bk \ {l, s}
           A == {f \in {Fill(l)} : f.remaining # 0}
           B == {f \in {Fill(s)} : f.remaining # 0}
           fb == FilledBook(bk, l, s)
<1>1. /\ Fill(l) \in Intents /\ Fill(l).id = l.id
      /\ Fill(s) \in Intents /\ Fill(s).id = s.id
  BY FillType
<1>2. fb = (kept \cup A) \cup B
  BY DEF FilledBook
<1>3. \A i, j \in bk : i.id = j.id => i = j
  BY DEF UniqueBook
<1>4. /\ kept \cap A = {} /\ (kept \cup A) \cap B = {}
      /\ kept \in SUBSET Intents /\ A \in SUBSET Intents /\ B \in SUBSET Intents
  BY <1>1, <1>3
<1>5. IsFiniteSet(kept) /\ IsFiniteSet(A) /\ IsFiniteSet(B)
  <2>1. A \in SUBSET {Fill(l)} /\ B \in SUBSET {Fill(s)} /\ kept \in SUBSET bk
    OBVIOUS
  <2>2. IsFiniteSet({Fill(l)}) /\ IsFiniteSet({Fill(s)})
    BY FS_Singleton
  <2> QED BY <2>1, <2>2, FS_Subset
<1>6. /\ Held(A, t) = Held({l}, t) - Taken(l, t) /\ Taken(l, t) \in Nat
      /\ Held(B, t) = Held({s}, t) - Taken(s, t) /\ Taken(s, t) \in Nat
  BY HeldFilled
<1>7. /\ Held(bk, t) = Held({l}, t) + Held(bk \ {l}, t)
      /\ Held(bk, t) \in Nat /\ Held({l}, t) \in Nat /\ Held(bk \ {l}, t) \in Nat
  BY HeldSplit
<1>8. /\ Held(bk \ {l}, t) = Held({s}, t) + Held(kept, t)
      /\ Held({s}, t) \in Nat /\ Held(kept, t) \in Nat
  <2> DEFINE b == bk \ {l}
  <2>1. b \in SUBSET Intents /\ IsFiniteSet(b) /\ {s} \in SUBSET b /\ b \ {s} = kept
    BY FS_Subset
  <2> HIDE DEF b, kept
  <2>2. Held(b, t) = Held({s}, t) + Held(kept, t) /\ Held({s}, t) \in Nat /\ Held(kept, t) \in Nat
    BY <2>1, HeldSplit
  <2> QED BY <2>2 DEF b
<1> HIDE DEF kept, A, B, fb
<1>9. Held(kept \cup A, t) = Held(kept, t) + Held(A, t) /\ Held(A, t) \in Nat
  <2> DEFINE b == kept \cup A
  <2>1. b \in SUBSET Intents /\ IsFiniteSet(b) /\ kept \in SUBSET b /\ b \ kept = A
    BY <1>4, <1>5, FS_Union
  <2> HIDE DEF b
  <2>2. Held(b, t) = Held(kept, t) + Held(A, t) /\ Held(A, t) \in Nat
    BY <2>1, HeldSplit
  <2> QED BY <2>2 DEF b
<1>10. Held(fb, t) = Held(kept \cup A, t) + Held(B, t) /\ Held(B, t) \in Nat
  <2> DEFINE b == kept \cup A
  <2>1. fb \in SUBSET Intents /\ IsFiniteSet(fb) /\ b \in SUBSET fb /\ fb \ b = B
    BY <1>2, <1>4, <1>5, FS_Union
  <2> HIDE DEF b
  <2>2. Held(fb, t) = Held(b, t) + Held(B, t) /\ Held(B, t) \in Nat
    BY <2>1, HeldSplit
  <2> QED BY <2>2 DEF b
<1> QED BY <1>6, <1>7, <1>8, <1>9, <1>10 DEF fb

-----------------------------------------------------------------------------
(* What the positions of a trader have at stake *)

Longs(ps, t) == {p \in ps : p.status = "live" /\ p.long = t}
Shorts(ps, t) == {p \in ps : p.status = "live" /\ p.short = t}
Staked(ps, t) == Bucket * (Cardinality(Longs(ps, t)) + Cardinality(Shorts(ps, t)))

(* What one position has at stake for trader t. *)
StakeIn(p, t) ==
  IF p.status = "live" THEN At(t, p.long, Bucket) + At(t, p.short, Bucket) ELSE 0

(* A position more. *)
LEMMA StakedAdd ==
  ASSUME NEW ps, IsFiniteSet(ps), NEW q, q \notin ps, NEW t
  PROVE  /\ Staked(ps \cup {q}, t) = Staked(ps, t) + StakeIn(q, t)
         /\ Staked(ps, t) \in Nat /\ StakeIn(q, t) \in Nat
<1> DEFINE L == Longs(ps, t)
           S == Shorts(ps, t)
           M == Longs(ps \cup {q}, t)
           T == Shorts(ps \cup {q}, t)
           a == IF q.status = "live" /\ q.long = t THEN 1 ELSE 0
           b == IF q.status = "live" /\ q.short = t THEN 1 ELSE 0
<1>1. IsFiniteSet(L) /\ IsFiniteSet(S) /\ Cardinality(L) \in Nat /\ Cardinality(S) \in Nat
  <2>1. L \in SUBSET ps /\ S \in SUBSET ps
    BY DEF Longs, Shorts
  <2>2. IsFiniteSet(L) /\ IsFiniteSet(S)
    BY <2>1, FS_Subset
  <2> QED BY <2>2, FS_CardinalityType
<1>2. q \notin L /\ q \notin S
  BY DEF Longs, Shorts
<1>3. M = IF q.status = "live" /\ q.long = t THEN L \cup {q} ELSE L
  BY DEF Longs
<1>4. T = IF q.status = "live" /\ q.short = t THEN S \cup {q} ELSE S
  BY DEF Shorts
<1> HIDE DEF L, S, M, T
<1>c. /\ Cardinality(L \cup {q}) = Cardinality(L) + 1
      /\ Cardinality(S \cup {q}) = Cardinality(S) + 1
  BY <1>1, <1>2, FS_AddElement
<1>5. Cardinality(M) = Cardinality(L) + a
  <2>1. CASE q.status = "live" /\ q.long = t
    BY <1>3, <1>c, <2>1
  <2>2. CASE ~(q.status = "live" /\ q.long = t)
    BY <1>1, <1>3, <2>2
  <2> QED BY <2>1, <2>2
<1>6. Cardinality(T) = Cardinality(S) + b
  <2>1. CASE q.status = "live" /\ q.short = t
    BY <1>4, <1>c, <2>1
  <2>2. CASE ~(q.status = "live" /\ q.short = t)
    BY <1>1, <1>4, <2>2
  <2> QED BY <2>1, <2>2
<1>7. StakeIn(q, t) = Bucket * a + Bucket * b /\ StakeIn(q, t) \in Nat
  BY InstrumentAssumption DEF StakeIn, At
<1>8. a \in Nat /\ b \in Nat /\ Bucket \in Nat
  BY InstrumentAssumption
<1>9. /\ Staked(ps \cup {q}, t) = Bucket * (Cardinality(M) + Cardinality(T))
      /\ Staked(ps, t) = Bucket * (Cardinality(L) + Cardinality(S))
  BY DEF Staked, L, M, S, T
<1> DEFINE m == Cardinality(L)
           n == Cardinality(S)
<1>10. m \in Nat /\ n \in Nat
  BY <1>1
<1> HIDE DEF a, b, m, n
<1>11. /\ Bucket * ((m + a) + (n + b)) = Bucket * (m + n) + (Bucket * a + Bucket * b)
       /\ Bucket * (m + n) \in Nat
  BY <1>8, <1>10
<1> QED BY <1>5, <1>6, <1>7, <1>9, <1>11 DEF m, n

(* A position less. *)
LEMMA StakedRemove ==
  ASSUME NEW ps, IsFiniteSet(ps), NEW p \in ps, NEW t
  PROVE  /\ Staked(ps \ {p}, t) = Staked(ps, t) - StakeIn(p, t)
         /\ Staked(ps, t) \in Nat /\ StakeIn(p, t) \in Nat
<1> DEFINE r == ps \ {p}
<1>1. IsFiniteSet(r) /\ p \notin r /\ ps = r \cup {p}
  BY FS_RemoveElement
<1> HIDE DEF r
<1>2. /\ Staked(r \cup {p}, t) = Staked(r, t) + StakeIn(p, t)
      /\ Staked(r, t) \in Nat /\ StakeIn(p, t) \in Nat
  BY <1>1, StakedAdd
<1>3. Staked(ps, t) = Staked(r, t) + StakeIn(p, t)
  BY <1>1, <1>2, Zenon
<1>4. Staked(r, t) = Staked(ps, t) - StakeIn(p, t) /\ Staked(ps, t) \in Nat
  BY <1>2, <1>3
<1> QED BY <1>2, <1>4 DEF r

(* A position changed, among positions whose ids are apart. *)
LEMMA StakedReplace ==
  ASSUME NEW ps, IsFiniteSet(ps), NEW id, UniquePositions(ps, id),
         NEW p \in ps, NEW q, q.id = p.id, NEW t
  PROVE  /\ Staked((ps \ {p}) \cup {q}, t) = Staked(ps, t) - StakeIn(p, t) + StakeIn(q, t)
         /\ Staked(ps, t) \in Nat /\ StakeIn(p, t) \in Nat /\ StakeIn(q, t) \in Nat
<1> DEFINE r == ps \ {p}
<1>1. IsFiniteSet(r)
  BY FS_RemoveElement
<1>2. q \notin r
  BY DEF UniquePositions
<1>3. Staked(r, t) = Staked(ps, t) - StakeIn(p, t)
      /\ Staked(ps, t) \in Nat /\ StakeIn(p, t) \in Nat
  BY StakedRemove
<1> HIDE DEF r
<1>4. /\ Staked(r \cup {q}, t) = Staked(r, t) + StakeIn(q, t)
      /\ Staked(r, t) \in Nat /\ StakeIn(q, t) \in Nat
  BY <1>1, <1>2, StakedAdd
<1> QED BY <1>3, <1>4 DEF r

-----------------------------------------------------------------------------
(* The balances behind them.  Loose is what a trader has in reserve beyond    *)
(* what its intents hold, Idle what it has locked beyond its stakes.          *)

Loose(mg, bk, t) == mg[t].reserved - Held(bk, t)
Idle(mg, ps, t) == mg[t].locked - Staked(ps, t)

(* No trader's balances move away from what they are to back ... *)
Steady ==
  \A t \in Traders :
    /\ Loose(margin', book', t) = Loose(margin, book, t)
    /\ Idle(margin', pmlcs', t) = Idle(margin, pmlcs, t)

(* ... or they move only upwards. *)
NotLess ==
  \A t \in Traders :
    /\ Loose(margin', book', t) >= Loose(margin, book, t)
    /\ Idle(margin', pmlcs', t) >= Idle(margin, pmlcs, t)

LedgerInv == TypeInv /\ IdsUnique /\ NodeBacking

(* What the proofs use of the invariant. *)
LEMMA LedgerFacts ==
  ASSUME LedgerInv
  PROVE  /\ margin \in [Traders -> Balances] /\ margin \in Drafts
         /\ book \in SUBSET Intents /\ IsFiniteSet(book)
         /\ pmlcs \in SUBSET Pmlcs /\ IsFiniteSet(pmlcs)
         /\ nextId \in Nat /\ nextSeq \in Nat
         /\ \A i \in book : Backed(i) /\ i.owner \in Traders /\ i.remaining # 0
         /\ \A p \in pmlcs : p.long \in Traders /\ p.short \in Traders
         /\ UniqueBook(book, nextId, nextSeq) /\ UniquePositions(pmlcs, nextId)
<1>1. /\ margin \in [Traders -> Balances]
      /\ book \in SUBSET Intents /\ IsFiniteSet(book)
      /\ pmlcs \in SUBSET Pmlcs /\ IsFiniteSet(pmlcs)
      /\ nextId \in Nat /\ nextSeq \in Nat
  BY DEF LedgerInv, TypeInv, TypeOK
<1>2. UniqueBook(book, nextId, nextSeq) /\ UniquePositions(pmlcs, nextId)
  BY IdsParts DEF LedgerInv, IdsApart
<1>3. \A i \in book : Backed(i) /\ i.owner \in Traders /\ i.remaining # 0
  BY <1>1 DEF LedgerInv, NodeBacking, Backed, Intents
<1>4. \A p \in pmlcs : p.long \in Traders /\ p.short \in Traders
  BY <1>1 DEF Pmlcs
<1> QED BY <1>1, <1>2, <1>3, <1>4, BalancesDrafts

(* An adjustment, from the point of view of any trader. *)
LEMMA AdjustAt ==
  ASSUME NEW mg \in Drafts, NEW t \in Traders, NEW u \in Traders,
         NEW f \in Int, NEW r \in Int, NEW k \in Int
  PROVE  /\ Adjust(mg, t, f, r, k) \in Drafts
         /\ Adjust(mg, t, f, r, k)[u].free = mg[u].free + At(u, t, f)
         /\ Adjust(mg, t, f, r, k)[u].reserved = mg[u].reserved + At(u, t, r)
         /\ Adjust(mg, t, f, r, k)[u].locked = mg[u].locked + At(u, t, k)
         /\ mg[u].free \in Int /\ mg[u].reserved \in Int /\ mg[u].locked \in Int
<1>1. mg[u].free \in Int /\ mg[u].reserved \in Int /\ mg[u].locked \in Int
  BY DEF Drafts
<1>2. CASE u = t
  BY <1>1, <1>2, AdjustEffect DEF At
<1>3. CASE u # t
  BY <1>1, <1>3, AdjustEffect DEF At
<1> QED BY <1>2, <1>3

(* A leg of a match, from the point of view of any trader. *)
LEMMA LegAt ==
  ASSUME NEW mg \in Drafts, NEW i \in Intents, i.remaining # 0, NEW fee \in Nat, NEW u \in Traders
  PROVE  /\ Leg(mg, i, fee) \in Drafts
         /\ Leg(mg, i, fee)[u].reserved = mg[u].reserved - Taken(i, u)
         /\ Leg(mg, i, fee)[u].locked = mg[u].locked + At(u, i.owner, Bucket)
         /\ Leg(mg, i, fee)[u].free = mg[u].free + At(u, i.owner, FeeRelease(i) - fee)
         /\ mg[u].free \in Int /\ mg[u].reserved \in Int /\ mg[u].locked \in Int
         /\ Taken(i, u) \in Nat
<1> DEFINE x == FeeRelease(i)
<1>1. x \in Nat /\ i.owner \in Traders /\ Bucket \in Nat
  BY FeeReleaseType, InstrumentAssumption DEF Intents
<1>2. Leg(mg, i, fee) = Adjust(mg, i.owner, x - fee, -(Bucket + x), Bucket)
  BY DEF Leg
<1>3. Taken(i, u) = At(u, i.owner, Bucket + x)
  BY DEF Taken
<1> HIDE DEF x
<1>4. x - fee \in Int /\ -(Bucket + x) \in Int /\ Bucket \in Int
  BY <1>1
<1>5. /\ Leg(mg, i, fee) \in Drafts
      /\ Leg(mg, i, fee)[u].free = mg[u].free + At(u, i.owner, x - fee)
      /\ Leg(mg, i, fee)[u].reserved = mg[u].reserved + At(u, i.owner, -(Bucket + x))
      /\ Leg(mg, i, fee)[u].locked = mg[u].locked + At(u, i.owner, Bucket)
      /\ mg[u].free \in Int /\ mg[u].reserved \in Int /\ mg[u].locked \in Int
  BY <1>1, <1>2, <1>4, AdjustAt
<1>6. Taken(i, u) \in Nat /\ At(u, i.owner, -(Bucket + x)) = -Taken(i, u)
  BY <1>1, <1>3 DEF At
<1>7. mg[u].reserved + (-Taken(i, u)) = mg[u].reserved - Taken(i, u)
  BY <1>5, <1>6
<1> QED BY <1>5, <1>6, <1>7 DEF x

(* match_pair_core moves what it fills from reserved to locked, and opens the *)
(* position that the locked collateral is for.                                *)
LEMMA SlackMatch ==
  ASSUME NEW mg \in Drafts, NEW bk \in SUBSET Intents, IsFiniteSet(bk),
         NEW id \in Nat, NEW seq, IdsApart(bk, pmlcs, id, seq),
         pmlcs \subseteq Pmlcs, IsFiniteSet(pmlcs),
         \A i \in bk : Backed(i) /\ 0 < i.price /\ i.price < PRICE_ONE,
         NEW l \in bk, NEW s \in bk, NEW bps \in MatchBps,
         MatchPairCore(mg, bk, id, l, s, bps), NEW u \in Traders
  PROVE  /\ Loose(margin', book', u) = Loose(mg, bk, u)
         /\ Idle(margin', pmlcs', u) = Idle(mg, pmlcs, u)
<1> DEFINE q == NewPmlc(id, l, s)
           fl == FeeOf(l, s, bps)
           fs == FeeOf(s, l, bps)
           al == Leg(mg, l, fl)
<1>1. /\ l # s /\ CanFill(l) /\ CanFill(s)
      /\ l.remaining # 0 /\ s.remaining # 0
      /\ q \in Pmlcs /\ q.id = id /\ q.status = "live" /\ q.long = l.owner /\ q.short = s.owner
      /\ book' = FilledBook(bk, l, s) /\ pmlcs' = pmlcs \cup {q}
  BY MatchNeeds
<1>2. margin' = Leg(al, s, fs)
  BY DEF MatchPairCore, AfterBoth, AfterLong
<1>3. fl \in Nat /\ fs \in Nat
  BY FeeOfType
<1> HIDE DEF q, fl, fs
<1>4. /\ al \in Drafts
      /\ al[u].reserved = mg[u].reserved - Taken(l, u)
      /\ al[u].locked = mg[u].locked + At(u, l.owner, Bucket)
      /\ mg[u].reserved \in Int /\ mg[u].locked \in Int
  BY <1>1, <1>3, LegAt
<1> HIDE DEF al
<1>5. /\ margin'[u].reserved = al[u].reserved - Taken(s, u)
      /\ margin'[u].locked = al[u].locked + At(u, s.owner, Bucket)
  BY <1>1, <1>2, <1>3, <1>4, LegAt
<1>6. /\ Held(book', u) = Held(bk, u) - Taken(l, u) - Taken(s, u)
      /\ Held(bk, u) \in Nat /\ Taken(l, u) \in Nat /\ Taken(s, u) \in Nat
  <2>1. UniqueBook(bk, id, seq)
    BY DEF IdsApart
  <2>2. Backed(l) /\ Backed(s)
    OBVIOUS
  <2> QED BY <1>1, <2>1, <2>2, HeldFill
<1>7. /\ Staked(pmlcs', u) = Staked(pmlcs, u) + StakeIn(q, u)
      /\ Staked(pmlcs, u) \in Nat /\ StakeIn(q, u) \in Nat
  <2>1. q \notin pmlcs
    BY <1>1 DEF IdsApart, UniquePositions
  <2> QED BY <1>1, <2>1, StakedAdd
<1>8. StakeIn(q, u) = At(u, l.owner, Bucket) + At(u, s.owner, Bucket)
  BY <1>1 DEF StakeIn
<1>9. Loose(margin', book', u) = Loose(mg, bk, u)
  BY <1>4, <1>5, <1>6 DEF Loose
<1>10. At(u, l.owner, Bucket) \in Int /\ At(u, s.owner, Bucket) \in Int
  BY InstrumentAssumption DEF At
<1>11. Idle(margin', pmlcs', u) = Idle(mg, pmlcs, u)
  BY <1>4, <1>5, <1>7, <1>8, <1>10 DEF Idle
<1> QED BY <1>9, <1>11

(* The book and the accounts between the two halves of a post. *)
LEMMA SlackPosted ==
  ASSUME LedgerInv, NEW t \in Traders, NEW n \in Nat, NEW pruned \in SUBSET book,
         NEW i \in Intents, PostFrame(t, n, pruned, i)
  PROVE  /\ PostMargin(t, n, pruned) \in Drafts
         /\ Posted(pruned, i) \in SUBSET Intents /\ IsFiniteSet(Posted(pruned, i))
         /\ IdsApart(Posted(pruned, i), pmlcs, nextId + 1, nextSeq + 1)
         /\ \A j \in Posted(pruned, i) : Backed(j) /\ 0 < j.price /\ j.price < PRICE_ONE
         /\ \A u \in Traders :
              /\ Loose(PostMargin(t, n, pruned), Posted(pruned, i), u) = Loose(margin, book, u)
              /\ Idle(PostMargin(t, n, pruned), pmlcs, u) = Idle(margin, pmlcs, u)
<1> DEFINE rest == book \ pruned
           esc == EscrowOf(pruned)
           out == Outlay(n)
           mg == PostMargin(t, n, pruned)
<1>t. /\ margin \in Drafts
      /\ book \in SUBSET Intents /\ IsFiniteSet(book)
      /\ pmlcs \in SUBSET Pmlcs
      /\ nextId \in Nat /\ nextSeq \in Nat
      /\ \A j \in book : Backed(j) /\ 0 < j.price /\ j.price < PRICE_ONE
      /\ UniqueBook(book, nextId, nextSeq)
  BY LedgerFacts DEF LedgerInv, TypeInv, PricesValid
<1>f. /\ n > 0 /\ i.id = nextId /\ i.seq = nextSeq /\ i.owner = t
      /\ i.remaining = n /\ i.reserved = n * Bucket /\ i.feeBuffer = FeeBufferFor(n)
      /\ 0 < i.price /\ i.price < PRICE_ONE
      /\ \A j \in pruned : j.owner = t
      /\ mg \in [Traders -> Balances]
  BY DEF PostFrame, Fresh, IntentsOf
<1>1. rest \in SUBSET Intents /\ IsFiniteSet(rest) /\ IsFiniteSet(pruned)
  BY <1>t, FS_Subset
<1>2. i \notin rest
  <2>1. \A j \in rest : j.id \in Nat /\ j.id < nextId
    BY <1>t DEF UniqueBook, Intents
  <2> QED BY <1>t, <1>f, <2>1
<1>3. Posted(pruned, i) = rest \cup {i}
  BY DEF Posted
<1>4. /\ Posted(pruned, i) \in SUBSET Intents /\ IsFiniteSet(Posted(pruned, i))
      /\ \A j \in Posted(pruned, i) : Backed(j) /\ 0 < j.price /\ j.price < PRICE_ONE
  <2>1. Backed(i)
    BY <1>f DEF Backed
  <2> QED BY <1>t, <1>f, <1>1, <1>3, <2>1, FS_AddElement
<1>5. IdsApart(Posted(pruned, i), pmlcs, nextId + 1, nextSeq + 1)
  <2>1. IdsApart(book, pmlcs, nextId, nextSeq)
    BY IdsParts DEF LedgerInv
  <2>2. IdsApart(rest, pmlcs, nextId, nextSeq)
    BY <2>1, IdsShrink
  <2> HIDE DEF rest
  <2> QED BY <1>t, <1>f, <1>1, <1>3, <2>2, IdsPost
<1>6. esc \in Nat /\ out \in Nat
  BY <1>t, <1>1, EscrowType, AmountTypes
<1>7. Escrow(i) = out
  BY <1>f DEF Escrow, Outlay
<1>8. mg = Adjust(margin, t, esc - out, out - esc, 0)
  BY DEF PostMargin
<1>9. ASSUME NEW u \in Traders
      PROVE  Loose(mg, Posted(pruned, i), u) = Loose(margin, book, u)
             /\ Idle(mg, pmlcs, u) = Idle(margin, pmlcs, u)
  <2>1. Held(pruned, u) = At(u, t, esc)
    <3>1. CASE u = t
      <4>1. {j \in pruned : j.owner = u} = pruned
        BY <1>f, <3>1
      <4> QED BY <3>1, <4>1 DEF Held, At
    <3>2. CASE u # t
      <4>1. {j \in pruned : j.owner = u} = {}
        BY <1>f, <3>2
      <4>2. EscrowOf({}) = 0
        BY TotalEmpty DEF EscrowOf
      <4> QED BY <3>2, <4>1, <4>2 DEF Held, At
    <3> QED BY <3>1, <3>2
  <2>2. /\ Held(book, u) = Held(pruned, u) + Held(rest, u)
        /\ Held(book, u) \in Nat /\ Held(pruned, u) \in Nat /\ Held(rest, u) \in Nat
    BY <1>t, HeldSplit
  <2>3. Held(Posted(pruned, i), u) = Held(rest, u) + At(u, t, out)
    <3> HIDE DEF rest, out
    <3> QED BY <1>f, <1>1, <1>2, <1>3, <1>7, HeldAdd
  <2> HIDE DEF rest, out, esc, mg
  <2>4. /\ mg[u].reserved = margin[u].reserved + At(u, t, out - esc)
        /\ mg[u].locked = margin[u].locked + At(u, t, 0)
        /\ margin[u].reserved \in Int /\ margin[u].locked \in Int
    <3>1. esc - out \in Int /\ out - esc \in Int /\ 0 \in Int
      BY <1>6
    <3> QED BY <1>t, <1>8, <3>1, AdjustAt
  <2>5. mg[u].locked = margin[u].locked
    BY <2>4 DEF At
  <2>6. At(u, t, out - esc) = At(u, t, out) - At(u, t, esc) /\ At(u, t, out) \in Int
    BY <1>6 DEF At
  <2>7. Loose(mg, Posted(pruned, i), u) = Loose(margin, book, u)
    BY <2>1, <2>2, <2>3, <2>4, <2>6 DEF Loose
  <2> QED BY <2>5, <2>7 DEF Idle
<1> QED BY <1>f, <1>4, <1>5, <1>9, BalancesDrafts

(* A post keeps the balances and what they back together, unless its inline   *)
(* match fails: then what it leaves behind is too much, never too little.     *)
LEMMA SlackPosting ==
  ASSUME LedgerInv, Posting
  PROVE  Steady \/ (InlineMatchCanFail /\ NotLess)
<1>1. PICK t \in Traders, n \in Nat, pruned \in SUBSET book, i \in Intents :
        /\ PostFrame(t, n, pruned, i)
        /\ Rests(t, n, pruned, i) \/ IsMatched(t, n, pruned, i) \/ IsLost(t, n, pruned, i)
  BY PostingForms DEF LedgerInv
<1> DEFINE mg == PostMargin(t, n, pruned)
           bk == Posted(pruned, i)
           id == nextId + 1
           seq == nextSeq + 1
<1>2. /\ mg \in Drafts /\ bk \in SUBSET Intents /\ IsFiniteSet(bk)
      /\ IdsApart(bk, pmlcs, id, seq)
      /\ \A j \in bk : Backed(j) /\ 0 < j.price /\ j.price < PRICE_ONE
      /\ \A u \in Traders : /\ Loose(mg, bk, u) = Loose(margin, book, u)
                            /\ Idle(mg, pmlcs, u) = Idle(margin, pmlcs, u)
  BY <1>1, SlackPosted
<1>3. id \in Nat /\ pmlcs \subseteq Pmlcs /\ IsFiniteSet(pmlcs) /\ book \subseteq Intents
  BY LedgerFacts
<1>4. i \in bk /\ book \ pruned \subseteq bk
  BY DEF Posted
<1>5. CASE Rests(t, n, pruned, i)
  <2>1. margin' = mg /\ book' = bk /\ pmlcs' = pmlcs
    BY <1>5 DEF Rests
  <2> HIDE DEF mg, bk
  <2> QED BY <1>2, <2>1 DEF Steady
<1>6. CASE IsMatched(t, n, pruned, i)
  <2>1. PICK l \in bk, s \in bk, bps \in MatchBps : MatchPairCore(mg, bk, id, l, s, bps)
    BY <1>6 DEF IsMatched
  <2> HIDE DEF mg, bk, id, seq
  <2>2. \A u \in Traders : /\ Loose(margin', book', u) = Loose(mg, bk, u)
                           /\ Idle(margin', pmlcs', u) = Idle(mg, pmlcs, u)
    BY <1>2, <1>3, <2>1, SlackMatch
  <2> QED BY <1>2, <2>2 DEF Steady
<1>7. CASE IsLost(t, n, pruned, i)
  <2>1. PICK cp \in book \ pruned, bps \in MatchBps :
          /\ CanFill(i) /\ CanFill(cp) /\ cp.side # i.side
          /\ book' = FilledBook(bk, i, cp)
          /\ \/ margin' = mg
             \/ \E first \in {mg, Leg(mg, cp, 0)} : margin' = Leg(first, i, 0)
    BY <1>7 DEF IsLost
  <2>2. InlineMatchCanFail /\ UNCHANGED pmlcs
    BY <1>7 DEF IsLost
  <2>3. i \in bk /\ cp \in bk /\ i # cp /\ cp \in Intents /\ i.remaining # 0 /\ cp.remaining # 0
    BY <1>3, <1>4, <2>1 DEF CanFill, Live
  <2> HIDE DEF mg, bk
  <2>4. ASSUME NEW u \in Traders
        PROVE  /\ Loose(margin', book', u) >= Loose(margin, book, u)
               /\ Idle(margin', pmlcs', u) >= Idle(margin, pmlcs, u)
    <3>1. /\ Held(book', u) = Held(bk, u) - Taken(i, u) - Taken(cp, u)
          /\ Held(bk, u) \in Nat /\ Taken(i, u) \in Nat /\ Taken(cp, u) \in Nat
      <4>1. UniqueBook(bk, id, seq)
        BY <1>2 DEF IdsApart
      <4>2. Backed(i) /\ Backed(cp)
        BY <1>2, <2>3
      <4> QED BY <1>2, <2>1, <2>3, <4>1, <4>2, HeldFill
    <3>2. Staked(pmlcs, u) \in Nat
      <4>1. Longs(pmlcs, u) \in SUBSET pmlcs /\ Shorts(pmlcs, u) \in SUBSET pmlcs
        BY DEF Longs, Shorts
      <4>2. IsFiniteSet(Longs(pmlcs, u)) /\ IsFiniteSet(Shorts(pmlcs, u))
        BY <1>3, <4>1, FS_Subset
      <4>3. Cardinality(Longs(pmlcs, u)) + Cardinality(Shorts(pmlcs, u)) \in Nat
        BY <4>2, FS_CardinalityType
      <4> QED BY <4>3, InstrumentAssumption DEF Staked
    <3>3. Loose(mg, bk, u) = Loose(margin, book, u) /\ Idle(mg, pmlcs, u) = Idle(margin, pmlcs, u)
      BY <1>2
    <3>4. /\ mg[u].reserved \in Int /\ mg[u].locked \in Int
      BY <1>2, <2>3, LegAt
    <3>5. At(u, i.owner, Bucket) \in Nat /\ At(u, cp.owner, Bucket) \in Nat
      BY InstrumentAssumption DEF At
    <3>6. /\ margin'[u].reserved >= mg[u].reserved - Taken(i, u) - Taken(cp, u)
          /\ margin'[u].locked >= mg[u].locked
          /\ margin'[u].reserved \in Int /\ margin'[u].locked \in Int
      <4>1. CASE margin' = mg
        BY <3>1, <3>4, <4>1
      <4>2. ASSUME NEW first \in {mg, Leg(mg, cp, 0)}, margin' = Leg(first, i, 0)
            PROVE  /\ margin'[u].reserved >= mg[u].reserved - Taken(i, u) - Taken(cp, u)
                   /\ margin'[u].locked >= mg[u].locked
                   /\ margin'[u].reserved \in Int /\ margin'[u].locked \in Int
        <5>1. /\ Leg(mg, cp, 0) \in Drafts
              /\ Leg(mg, cp, 0)[u].reserved = mg[u].reserved - Taken(cp, u)
              /\ Leg(mg, cp, 0)[u].locked = mg[u].locked + At(u, cp.owner, Bucket)
          BY <1>2, <2>3, LegAt
        <5>2. /\ first \in Drafts
              /\ first[u].reserved >= mg[u].reserved - Taken(cp, u)
              /\ first[u].locked >= mg[u].locked
          BY <1>2, <3>1, <3>4, <3>5, <4>2, <5>1
        <5>3. /\ margin'[u].reserved = first[u].reserved - Taken(i, u)
              /\ margin'[u].locked = first[u].locked + At(u, i.owner, Bucket)
              /\ first[u].reserved \in Int /\ first[u].locked \in Int
          BY <2>3, <4>2, <5>2, LegAt
        <5> QED BY <3>1, <3>4, <3>5, <5>2, <5>3
      <4> QED BY <2>1, <4>1, <4>2
    <3>7. Loose(margin', book', u) >= Loose(mg, bk, u)
      BY <3>1, <3>4, <3>6 DEF Loose
    <3>8. Idle(margin', pmlcs', u) >= Idle(mg, pmlcs, u)
      BY <2>2, <3>2, <3>4, <3>6 DEF Idle
    <3> QED BY <3>3, <3>7, <3>8
  <2> QED BY <2>2, <2>4 DEF NotLess
<1> QED BY <1>1, <1>5, <1>6, <1>7

(* A cancel or a prune refunds what the intents hold. *)
LEMMA SlackLeaving ==
  ASSUME LedgerInv, Leaving
  PROVE  Steady
<1>t. /\ margin \in [Traders -> Balances] /\ margin \in Drafts
      /\ book \in SUBSET Intents /\ IsFiniteSet(book)
      /\ \A i \in book : i.owner \in Traders
  BY LedgerFacts
<1>1. ASSUME NEW caller \in Traders, NEW i \in book, CancelIntent(caller, i), NEW u \in Traders
      PROVE  /\ Loose(margin', book', u) = Loose(margin, book, u)
             /\ Idle(margin', pmlcs', u) = Idle(margin, pmlcs, u)
  <2> DEFINE e == Escrow(i)
  <2>1. margin' = Adjust(margin, i.owner, e, -e, 0) /\ book' = book \ {i} /\ UNCHANGED pmlcs
    BY <1>1 DEF CancelIntent
  <2>2. e \in Int /\ -e \in Int /\ 0 \in Int
    BY <1>t DEF Escrow, Intents
  <2>3. Held({i}, u) = At(u, i.owner, e)
    BY <1>t, HeldOne
  <2>4. /\ Held(book, u) = Held({i}, u) + Held(book', u)
        /\ Held({i}, u) \in Nat /\ Held(book', u) \in Nat
    BY <1>t, <2>1, HeldSplit
  <2> HIDE DEF e
  <2>5. /\ margin'[u].reserved = margin[u].reserved + At(u, i.owner, -e)
        /\ margin'[u].locked = margin[u].locked + At(u, i.owner, 0)
        /\ margin[u].reserved \in Int /\ margin[u].locked \in Int
    BY <1>t, <2>1, <2>2, AdjustAt
  <2>6. At(u, i.owner, -e) = -At(u, i.owner, e) /\ margin'[u].locked = margin[u].locked
    BY <2>2, <2>5 DEF At
  <2>7. Loose(margin', book', u) = Loose(margin, book, u)
    BY <2>3, <2>4, <2>5, <2>6 DEF Loose
  <2> QED BY <2>1, <2>6, <2>7 DEF Idle
<1>2. ASSUME NEW S \in SUBSET book, PruneExpired(S), NEW u \in Traders
      PROVE  /\ Loose(margin', book', u) = Loose(margin, book, u)
             /\ Idle(margin', pmlcs', u) = Idle(margin, pmlcs, u)
  <2>1. /\ margin'[u].reserved = margin[u].reserved - Held(S, u)
        /\ margin'[u].locked = margin[u].locked
        /\ book' = book \ S /\ UNCHANGED pmlcs
    BY <1>2 DEF PruneExpired, Held
  <2>2. /\ Held(book, u) = Held(S, u) + Held(book', u)
        /\ Held(S, u) \in Nat /\ Held(book', u) \in Nat
    BY <1>t, <2>1, HeldSplit
  <2>3. margin[u].reserved \in Nat
    BY <1>t DEF Balances
  <2>4. Loose(margin', book', u) = Loose(margin, book, u)
    BY <2>1, <2>2, <2>3 DEF Loose
  <2> QED BY <2>1, <2>4 DEF Idle
<1> QED BY <1>1, <1>2 DEF Leaving, Steady

(* Both sides of a settlement, from the point of view of any trader. *)
LEMMA SettledAt ==
  ASSUME margin \in Drafts, NEW p, p.long \in Traders, p.short \in Traders,
         NEW long \in Nat, NEW short \in Nat, NEW u \in Traders
  PROVE  /\ Settled(p, long, short) \in Drafts
         /\ Settled(p, long, short)[u].free
              = margin[u].free + At(u, p.long, long) + At(u, p.short, short)
         /\ Settled(p, long, short)[u].reserved = margin[u].reserved
         /\ Settled(p, long, short)[u].locked
              = margin[u].locked - At(u, p.long, Bucket) - At(u, p.short, Bucket)
         /\ margin[u].free \in Int /\ margin[u].reserved \in Int /\ margin[u].locked \in Int
<1> DEFINE one == Adjust(margin, p.long, long, 0, -Bucket)
<1>1. long \in Int /\ short \in Int /\ 0 \in Int /\ -Bucket \in Int /\ Bucket \in Int
  BY InstrumentAssumption
<1>2. /\ one \in Drafts
      /\ one[u].free = margin[u].free + At(u, p.long, long)
      /\ one[u].reserved = margin[u].reserved + At(u, p.long, 0)
      /\ one[u].locked = margin[u].locked + At(u, p.long, -Bucket)
      /\ margin[u].free \in Int /\ margin[u].reserved \in Int /\ margin[u].locked \in Int
  BY <1>1, AdjustAt
<1> HIDE DEF one
<1>3. Settled(p, long, short) = Adjust(one, p.short, short, 0, -Bucket)
  BY DEF Settled, one
<1>4. /\ Settled(p, long, short) \in Drafts
      /\ Settled(p, long, short)[u].free = one[u].free + At(u, p.short, short)
      /\ Settled(p, long, short)[u].reserved = one[u].reserved + At(u, p.short, 0)
      /\ Settled(p, long, short)[u].locked = one[u].locked + At(u, p.short, -Bucket)
  BY <1>1, <1>2, <1>3, AdjustAt
<1>5. /\ At(u, p.long, 0) = 0 /\ At(u, p.short, 0) = 0
      /\ At(u, p.long, -Bucket) = -At(u, p.long, Bucket)
      /\ At(u, p.short, -Bucket) = -At(u, p.short, Bucket)
      /\ At(u, p.long, Bucket) \in Int /\ At(u, p.short, Bucket) \in Int
  BY <1>1 DEF At
<1> QED BY <1>2, <1>4, <1>5

(* What a settlement of p does to the accounts: the owners are credited long  *)
(* and short, the keeper its bounty, and 2c in all.                           *)
Pays(p, keeper, long, short, bounty) ==
  /\ bounty \in {0, Bounty}
  /\ Bounty <= 2 * Bucket => long + short + bounty = 2 * Bucket
  /\ \A u \in Traders :
       /\ margin'[u].free
            = margin[u].free + At(u, p.long, long) + At(u, p.short, short) + At(u, keeper, bounty)
       /\ margin'[u].reserved = margin[u].reserved
       /\ margin'[u].locked
            = margin[u].locked - At(u, p.long, Bucket) - At(u, p.short, Bucket)

(* The three settlements pay the owners of the position they end. *)
LEMMA SettlingPays ==
  ASSUME LedgerInv, Settling
  PROVE  \E p \in pmlcs, status \in Terminal, keeper \in Traders,
            long \in Nat, short \in Nat, bounty \in Nat :
           /\ p.status = "live" /\ p.long # p.short
           /\ Replace(p, [p EXCEPT !.status = status])
           /\ Pays(p, keeper, long, short, bounty)
           /\ UNCHANGED <<vault, accrued, book>>
<1>t. /\ margin \in Drafts /\ pmlcs \in SUBSET Pmlcs
      /\ \A p \in pmlcs : p.long \in Traders /\ p.short \in Traders
  BY LedgerFacts
<1>b. Bucket \in Nat /\ Bounty \in Nat
  BY AmountTypes, InstrumentAssumption
<1>e. ASSUME NEW p \in pmlcs
      PROVE  \A mark \in Nat : /\ PnlAt(p, mark) \in Int
                               /\ LongEquity(p, mark) \in Nat
                               /\ LongEquity(p, mark) <= 2 * Bucket
  <2>1. p \in Pmlcs /\ 0 < p.entry
    BY DEF LedgerInv, TypeInv, TypeOK, FillWithinLimits
  <2>2. \A mark \in Nat : PnlAt(p, mark) \in Int /\ LongEquity(p, mark) \in 0..(2 * Bucket)
    BY <2>1, EquityType
  <2> QED BY <1>b, <2>2
<1>q. ASSUME NEW p \in pmlcs, NEW eq \in Nat, eq <= 2 * Bucket,
             margin' = Settled(p, eq, SatSub(2 * Bucket, eq))
      PROVE  /\ SatSub(2 * Bucket, eq) \in Nat
             /\ Pays(p, p.long, eq, SatSub(2 * Bucket, eq), 0)
  <2> DEFINE sh == SatSub(2 * Bucket, eq)
  <2>1. sh \in Nat /\ eq + sh + 0 = 2 * Bucket
    BY <1>b, <1>q DEF SatSub
  <2>2. margin' = Settled(p, eq, sh)
    BY <1>q
  <2> HIDE DEF sh
  <2>3. ASSUME NEW u \in Traders
        PROVE  /\ margin'[u].free = margin[u].free + At(u, p.long, eq) + At(u, p.short, sh)
                                      + At(u, p.long, 0)
               /\ margin'[u].reserved = margin[u].reserved
               /\ margin'[u].locked
                    = margin[u].locked - At(u, p.long, Bucket) - At(u, p.short, Bucket)
    <3>1. /\ margin'[u].free = margin[u].free + At(u, p.long, eq) + At(u, p.short, sh)
          /\ margin'[u].reserved = margin[u].reserved
          /\ margin'[u].locked
               = margin[u].locked - At(u, p.long, Bucket) - At(u, p.short, Bucket)
          /\ margin[u].free \in Int
      BY <1>t, <2>1, <2>2, SettledAt
    <3>2. /\ At(u, p.long, 0) = 0 /\ At(u, p.long, eq) \in Int /\ At(u, p.short, sh) \in Int
      BY <2>1 DEF At
    <3> QED BY <3>1, <3>2
  <2>4. Pays(p, p.long, eq, sh, 0)
    BY <2>1, <2>3 DEF Pays
  <2> QED BY <2>1, <2>4 DEF sh
<1>1. ASSUME NEW p \in pmlcs, NEW keeper \in Traders, NEW mark \in Marks, NEW nonce \in Nonces,
             Liquidate(p, keeper, mark, nonce)
      PROVE  \E long \in Nat, short \in Nat : Pays(p, keeper, long, short, Bounty)
  <2> DEFINE wins == LongEquity(p, mark) > SatSub(2 * Bucket, LongEquity(p, mark))
             long == IF wins THEN Prize ELSE 0
             short == IF wins THEN 0 ELSE Prize
             paid == Settled(p, long, short)
  <2>1. margin' = Adjust(paid, keeper, Bounty, 0, 0)
    BY <1>1 DEF Liquidate
  <2>2. long \in Nat /\ short \in Nat
    BY AmountTypes
  <2>3. Bounty <= 2 * Bucket => long + short + Bounty = 2 * Bucket
    BY <1>b DEF Prize, SatSub
  <2> HIDE DEF long, short
  <2>4. ASSUME NEW u \in Traders
        PROVE  /\ margin'[u].free = margin[u].free + At(u, p.long, long) + At(u, p.short, short)
                                      + At(u, keeper, Bounty)
               /\ margin'[u].reserved = margin[u].reserved
               /\ margin'[u].locked
                    = margin[u].locked - At(u, p.long, Bucket) - At(u, p.short, Bucket)
    <3>1. /\ paid \in Drafts
          /\ paid[u].free = margin[u].free + At(u, p.long, long) + At(u, p.short, short)
          /\ paid[u].reserved = margin[u].reserved
          /\ paid[u].locked = margin[u].locked - At(u, p.long, Bucket) - At(u, p.short, Bucket)
      BY <1>t, <2>2, SettledAt
    <3> HIDE DEF paid
    <3>2. Bounty \in Int /\ 0 \in Int
      BY <1>b
    <3>3. /\ margin'[u].free = paid[u].free + At(u, keeper, Bounty)
          /\ margin'[u].reserved = paid[u].reserved + At(u, keeper, 0)
          /\ margin'[u].locked = paid[u].locked + At(u, keeper, 0)
          /\ paid[u].reserved \in Int /\ paid[u].locked \in Int
      BY <2>1, <3>1, <3>2, AdjustAt
    <3>4. At(u, keeper, 0) = 0
      BY DEF At
    <3>5. margin'[u].reserved = paid[u].reserved /\ margin'[u].locked = paid[u].locked
      BY <3>3, <3>4
    <3> QED BY <3>1, <3>3, <3>5
  <2>5. Pays(p, keeper, long, short, Bounty)
    BY <2>3, <2>4 DEF Pays
  <2> QED BY <2>2, <2>5
<1>2. ASSUME NEW p \in pmlcs, NEW outcome \in Outcomes, NEW nonce \in Nonces,
             Resolve(p, outcome, nonce)
      PROVE  \E long \in Nat, short \in Nat : Pays(p, p.long, long, short, 0)
  <2> DEFINE pnl == ResolvedPnl(p, outcome)
             eq == BoundedEquity(Bucket, pnl)
  <2>1. pnl \in Int
    <3>1. PRICE_ONE \div 2 \in Nat
      BY ScalesAssumption, DivNat
    <3>2. PnlAt(p, PRICE_ONE \div 2) \in Int
      BY <1>e, <3>1
    <3> QED BY <3>2, InstrumentAssumption DEF ResolvedPnl
  <2>2. eq \in Nat /\ eq <= 2 * Bucket
    <3> HIDE DEF pnl
    <3>1. eq \in 0..(2 * Bucket)
      BY <1>b, <2>1, EquityRange
    <3> QED BY <1>b, <3>1
  <2>3. margin' = Settled(p, eq, SatSub(2 * Bucket, eq))
    BY <1>2 DEF Resolve
  <2> HIDE DEF eq
  <2> QED BY <1>q, <2>2, <2>3
<1>3. ASSUME NEW p \in pmlcs, NEW mark \in Marks, NEW nonce \in Nonces,
             CloseMutual(p, mark, nonce)
      PROVE  \E long \in Nat, short \in Nat : Pays(p, p.long, long, short, 0)
  <2> DEFINE eq == LongEquity(p, mark)
  <2>1. eq \in Nat /\ eq <= 2 * Bucket
    BY <1>e, InputsAssumption
  <2>2. margin' = Settled(p, eq, SatSub(2 * Bucket, eq))
    BY <1>3 DEF CloseMutual
  <2> HIDE DEF eq
  <2> QED BY <1>q, <2>1, <2>2
<1>4. PICK p \in pmlcs, status \in Terminal, keeper \in Traders,
           long \in Nat, short \in Nat, bounty \in Nat :
        /\ CanSettle(p)
        /\ Replace(p, [p EXCEPT !.status = status])
        /\ Pays(p, keeper, long, short, bounty)
        /\ UNCHANGED <<vault, accrued, orders>>
  <2>1. {"liquidated", "resolved", "closed"} \subseteq Terminal /\ 0 \in Nat
    BY DEF Terminal
  <2>2. ASSUME NEW p \in pmlcs, NEW keeper \in Traders, NEW mark \in Marks, NEW nonce \in Nonces,
               Liquidate(p, keeper, mark, nonce)
        PROVE  /\ CanSettle(p) /\ Replace(p, [p EXCEPT !.status = "liquidated"])
               /\ UNCHANGED <<vault, accrued, orders>>
    BY <2>2 DEF Liquidate
  <2>3. ASSUME NEW p \in pmlcs, NEW outcome \in Outcomes, NEW nonce \in Nonces,
               Resolve(p, outcome, nonce)
        PROVE  /\ CanSettle(p) /\ Replace(p, [p EXCEPT !.status = "resolved"])
               /\ UNCHANGED <<vault, accrued, orders>>
    BY <2>3 DEF Resolve
  <2>4. ASSUME NEW p \in pmlcs, NEW mark \in Marks, NEW nonce \in Nonces,
               CloseMutual(p, mark, nonce)
        PROVE  /\ CanSettle(p) /\ Replace(p, [p EXCEPT !.status = "closed"])
               /\ UNCHANGED <<vault, accrued, orders>>
    BY <2>4 DEF CloseMutual
  <2> QED BY <1>t, <1>b, <1>1, <1>2, <1>3, <2>1, <2>2, <2>3, <2>4 DEF Settling
<1>5. p.status = "live" /\ p.long # p.short /\ UNCHANGED book
  BY <1>4 DEF CanSettle, orders
<1> QED BY <1>4, <1>5

(* A match of intents that rest. *)
LEMMA SlackMatching ==
  ASSUME LedgerInv, Matching
  PROVE  Steady
<1>1. PICK l \in book, s \in book, bps \in MatchBps :
        MatchPairCore(margin, book, nextId, l, s, bps)
  BY MatchingForm
<1>2. /\ margin \in Drafts /\ book \in SUBSET Intents /\ IsFiniteSet(book)
      /\ nextId \in Nat /\ pmlcs \subseteq Pmlcs /\ IsFiniteSet(pmlcs)
      /\ \A i \in book : Backed(i) /\ 0 < i.price /\ i.price < PRICE_ONE
  BY LedgerFacts DEF LedgerInv, TypeInv, PricesValid
<1>3. IdsApart(book, pmlcs, nextId, nextSeq)
  BY IdsParts DEF LedgerInv
<1> QED BY <1>1, <1>2, <1>3, SlackMatch DEF Steady

(* What a position that ends has at stake is what its owners unlock. *)
LEMMA SlackSettling ==
  ASSUME LedgerInv, Settling
  PROVE  Steady
<1>1. PICK p \in pmlcs, status \in Terminal, keeper \in Traders,
           long \in Nat, short \in Nat, bounty \in Nat :
        /\ p.status = "live"
        /\ Replace(p, [p EXCEPT !.status = status])
        /\ Pays(p, keeper, long, short, bounty)
        /\ UNCHANGED book
  BY SettlingPays
<1> DEFINE q == [p EXCEPT !.status = status]
<1>2. /\ pmlcs \in SUBSET Pmlcs /\ IsFiniteSet(pmlcs) /\ margin \in [Traders -> Balances]
      /\ UniquePositions(pmlcs, nextId)
  BY LedgerFacts
<1>3. q.id = p.id /\ q.status # "live" /\ pmlcs' = (pmlcs \ {p}) \cup {q}
  BY <1>1, <1>2 DEF Pmlcs, Terminal, Replace
<1> HIDE DEF q
<1>4. ASSUME NEW u \in Traders
      PROVE  /\ Loose(margin', book', u) = Loose(margin, book, u)
             /\ Idle(margin', pmlcs', u) = Idle(margin, pmlcs, u)
  <2>1. /\ Staked(pmlcs', u) = Staked(pmlcs, u) - StakeIn(p, u) + StakeIn(q, u)
        /\ Staked(pmlcs, u) \in Nat /\ StakeIn(p, u) \in Nat
    BY <1>2, <1>3, StakedReplace
  <2>2. StakeIn(p, u) = At(u, p.long, Bucket) + At(u, p.short, Bucket) /\ StakeIn(q, u) = 0
    BY <1>1, <1>3 DEF StakeIn
  <2>3. /\ margin'[u].reserved = margin[u].reserved
        /\ margin'[u].locked = margin[u].locked - At(u, p.long, Bucket) - At(u, p.short, Bucket)
    BY <1>1 DEF Pays
  <2>4. margin[u].locked \in Nat /\ At(u, p.long, Bucket) \in Int /\ At(u, p.short, Bucket) \in Int
    BY <1>2, InstrumentAssumption DEF Balances, At
  <2> QED BY <1>1, <2>1, <2>2, <2>3, <2>4 DEF Loose, Idle
<1> QED BY <1>4 DEF Steady

(* The stakes of a live position one side of which changes hands. *)
LEMMA StakeMoved ==
  ASSUME NEW p \in Pmlcs, p.status = "live", NEW side \in Sides, NEW t \in Traders, NEW u \in Traders
  PROVE  /\ WithOwner(p, side, t).id = p.id
         /\ OwnerOf(p, side) \in Traders
         /\ StakeIn(WithOwner(p, side, t), u)
              = StakeIn(p, u) - At(u, OwnerOf(p, side), Bucket) + At(u, t, Bucket)
         /\ At(u, OwnerOf(p, side), Bucket) \in Nat /\ At(u, t, Bucket) \in Nat
<1>1. Bucket \in Nat
  BY InstrumentAssumption
<1>2. CASE side = "long"
  BY <1>1, <1>2 DEF WithOwner, OwnerOf, StakeIn, At, Pmlcs
<1>3. CASE side = "short"
  BY <1>1, <1>3 DEF WithOwner, OwnerOf, StakeIn, At, Pmlcs
<1> QED BY <1>2, <1>3 DEF Sides

(* What a novation does to the accounts. *)
LEMMA NovateAt ==
  ASSUME LedgerInv, NEW p \in pmlcs, NEW side \in Sides, NEW new \in Traders, Novate(p, side, new),
         NEW u \in Traders
  PROVE  /\ margin'[u].free = margin[u].free + At(u, OwnerOf(p, side), Bucket) - At(u, new, Bucket)
         /\ margin'[u].reserved = margin[u].reserved
         /\ margin'[u].locked
              = margin[u].locked - At(u, OwnerOf(p, side), Bucket) + At(u, new, Bucket)
<1> DEFINE old == OwnerOf(p, side)
           freed == Adjust(margin, old, Bucket, 0, -Bucket)
<1>1. old \in Traders /\ margin \in Drafts
  BY LedgerFacts DEF OwnerOf
<1>2. margin' = Adjust(freed, new, -Bucket, 0, Bucket)
  BY DEF Novate
<1>3. Bucket \in Int /\ -Bucket \in Int /\ 0 \in Int
  BY InstrumentAssumption
<1> HIDE DEF old
<1>4. /\ freed \in Drafts
      /\ freed[u].free = margin[u].free + At(u, old, Bucket)
      /\ freed[u].reserved = margin[u].reserved + At(u, old, 0)
      /\ freed[u].locked = margin[u].locked + At(u, old, -Bucket)
      /\ margin[u].free \in Int /\ margin[u].reserved \in Int /\ margin[u].locked \in Int
  BY <1>1, <1>3, AdjustAt
<1> HIDE DEF freed
<1>5. /\ margin'[u].free = freed[u].free + At(u, new, -Bucket)
      /\ margin'[u].reserved = freed[u].reserved + At(u, new, 0)
      /\ margin'[u].locked = freed[u].locked + At(u, new, Bucket)
  BY <1>2, <1>3, <1>4, AdjustAt
<1>6. /\ At(u, new, -Bucket) = -At(u, new, Bucket) /\ At(u, old, -Bucket) = -At(u, old, Bucket)
      /\ At(u, new, 0) = 0 /\ At(u, old, 0) = 0
      /\ At(u, new, Bucket) \in Int /\ At(u, old, Bucket) \in Int
  BY <1>3 DEF At
<1>7. /\ margin'[u].free = margin[u].free + At(u, old, Bucket) - At(u, new, Bucket)
      /\ margin'[u].reserved = margin[u].reserved
      /\ margin'[u].locked = margin[u].locked - At(u, old, Bucket) + At(u, new, Bucket)
  BY <1>4, <1>5, <1>6
<1> QED BY <1>7 DEF old

(* What a substitution does: the owner of one of the filled intents leaves a  *)
(* side of p, the owner of the other takes it over and pays delta for it.     *)
Swaps(p, l, s, mine, theirs, side, delta) ==
  /\ \/ mine = l /\ theirs = s
     \/ mine = s /\ theirs = l
  /\ OwnerOf(p, side) = mine.owner
  /\ -Bucket <= delta /\ delta <= Bucket
  /\ Replace(p, WithOwner(p, side, theirs.owner))
  /\ \A u \in Traders :
       /\ margin'[u].free = margin[u].free
                              + At(u, mine.owner, 2 * Bucket + FeeRelease(mine) + delta)
                              + At(u, theirs.owner, FeeRelease(theirs) - delta)
       /\ margin'[u].reserved = margin[u].reserved - Taken(mine, u) - Taken(theirs, u)
       /\ margin'[u].locked
            = margin[u].locked - At(u, mine.owner, Bucket) + At(u, theirs.owner, Bucket)

(* What a substitution needs of its intents. *)
LEMMA SubstituteNeeds ==
  ASSUME LedgerInv, NEW p \in pmlcs, NEW sub \in Traders, NEW l \in book, NEW s \in book,
         NEW withSettle \in BOOLEAN, Substitute(p, sub, l, s, withSettle)
  PROVE  /\ p.status = "live" /\ p \in Pmlcs
         /\ l # s /\ l \in Intents /\ s \in Intents
         /\ CanFill(l) /\ CanFill(s) /\ Backed(l) /\ Backed(s)
         /\ l.remaining # 0 /\ s.remaining # 0
         /\ book' = FilledBook(book, l, s)
         /\ UNCHANGED <<vault, accrued>>
         /\ \A side : ExitDelta(p, side, l, s, withSettle) \in Int
<1>1. p.status = "live" /\ CanCross(l, s) /\ book' = FilledBook(book, l, s)
      /\ UNCHANGED <<vault, accrued>>
  BY DEF Substitute
<1>2. l \in Intents /\ s \in Intents /\ p \in Pmlcs /\ Backed(l) /\ Backed(s)
  BY LedgerFacts
<1>3. l # s /\ CanFill(l) /\ CanFill(s) /\ l.remaining # 0 /\ s.remaining # 0 /\ s.price <= l.price
  BY <1>1 DEF CanCross, CanFill, Live
<1>4. PnlAt(p, PriceMidpoint(l.price, s.price)) \in Int
  <2>1. 0 < p.entry
    BY DEF LedgerInv, TypeInv, FillWithinLimits
  <2>2. PriceMidpoint(l.price, s.price) \in Nat
    BY <1>2, <1>3, MidpointBetween DEF Intents
  <2> QED BY <1>2, <2>1, <2>2, EquityType
<1>5. \A side : ExitDelta(p, side, l, s, withSettle) \in Int
  BY <1>4 DEF ExitDelta
<1> QED BY <1>1, <1>2, <1>3, <1>5

(* What a substitution does, whichever side the substitute takes. *)
LEMMA SubstituteSwaps ==
  ASSUME LedgerInv, NEW p \in pmlcs, NEW sub \in Traders, NEW l \in book, NEW s \in book,
         NEW withSettle \in BOOLEAN, Substitute(p, sub, l, s, withSettle)
  PROVE  \E mine \in book, theirs \in book, side \in Sides, delta \in Int :
           Swaps(p, l, s, mine, theirs, side, delta)
<1> DEFINE side == IF s.owner = sub THEN "long" ELSE "short"
           mine == IF l.owner = sub THEN l ELSE s
           theirs == IF l.owner = sub THEN s ELSE l
           delta == ExitDelta(p, side, l, s, withSettle)
           exit == Leaves(margin, mine, delta)
<1>1. /\ sub \in {l.owner, s.owner}
      /\ OwnerOf(p, side) = sub
      /\ -Bucket <= delta /\ delta <= Bucket
      /\ margin' = Enters(exit, theirs, delta)
      /\ Replace(p, WithOwner(p, side, theirs.owner))
  BY DEF Substitute
<1>2. /\ mine \in book /\ theirs \in book /\ side \in Sides
      /\ \/ mine = l /\ theirs = s
         \/ mine = s /\ theirs = l
      /\ mine.owner = sub
  BY <1>1 DEF Sides
<1>3. /\ mine \in Intents /\ theirs \in Intents /\ mine.remaining # 0 /\ theirs.remaining # 0
      /\ delta \in Int
  BY SubstituteNeeds
<1> HIDE DEF side, mine, theirs, delta
<1> DEFINE x == FeeRelease(mine)
           y == FeeRelease(theirs)
<1>4. x \in Nat /\ y \in Nat /\ Bucket \in Nat /\ mine.owner \in Traders /\ theirs.owner \in Traders
  BY <1>3, FeeReleaseType, InstrumentAssumption DEF Intents
<1>5. /\ exit = Adjust(margin, mine.owner, 2 * Bucket + x + delta, -(Bucket + x), -Bucket)
      /\ margin' = Adjust(exit, theirs.owner, y - delta, -(Bucket + y), Bucket)
  BY <1>1 DEF Leaves, Enters
<1> HIDE DEF x, y, exit
<1>6. /\ 2 * Bucket + x + delta \in Int /\ -(Bucket + x) \in Int /\ -Bucket \in Int
      /\ y - delta \in Int /\ -(Bucket + y) \in Int /\ Bucket \in Int
  BY <1>3, <1>4
<1>7. margin \in Drafts
  BY LedgerFacts
<1>8. ASSUME NEW u \in Traders
      PROVE  /\ margin'[u].free = margin[u].free + At(u, mine.owner, 2 * Bucket + x + delta)
                                    + At(u, theirs.owner, y - delta)
             /\ margin'[u].reserved = margin[u].reserved - Taken(mine, u) - Taken(theirs, u)
             /\ margin'[u].locked
                  = margin[u].locked - At(u, mine.owner, Bucket) + At(u, theirs.owner, Bucket)
  <2>1. /\ exit \in Drafts
        /\ exit[u].free = margin[u].free + At(u, mine.owner, 2 * Bucket + x + delta)
        /\ exit[u].reserved = margin[u].reserved + At(u, mine.owner, -(Bucket + x))
        /\ exit[u].locked = margin[u].locked + At(u, mine.owner, -Bucket)
        /\ margin[u].free \in Int /\ margin[u].reserved \in Int /\ margin[u].locked \in Int
    BY <1>4, <1>5, <1>6, <1>7, AdjustAt
  <2>2. /\ margin'[u].free = exit[u].free + At(u, theirs.owner, y - delta)
        /\ margin'[u].reserved = exit[u].reserved + At(u, theirs.owner, -(Bucket + y))
        /\ margin'[u].locked = exit[u].locked + At(u, theirs.owner, Bucket)
    BY <1>4, <1>5, <1>6, <2>1, AdjustAt
  <2>3. /\ At(u, mine.owner, -(Bucket + x)) = -Taken(mine, u) /\ Taken(mine, u) \in Int
        /\ At(u, theirs.owner, -(Bucket + y)) = -Taken(theirs, u) /\ Taken(theirs, u) \in Int
        /\ At(u, mine.owner, -Bucket) = -At(u, mine.owner, Bucket)
        /\ At(u, mine.owner, Bucket) \in Int /\ At(u, theirs.owner, Bucket) \in Int
    BY <1>4 DEF At, Taken, x, y
  <2> QED BY <2>1, <2>2, <2>3
<1>9. Swaps(p, l, s, mine, theirs, side, delta)
  BY <1>1, <1>2, <1>8 DEF Swaps, x, y
<1> QED BY <1>2, <1>3, <1>9

(* A side of a position changes hands together with the collateral behind it. *)
LEMMA SlackTransferring ==
  ASSUME LedgerInv, Transferring
  PROVE  Steady
<1>t. /\ margin \in [Traders -> Balances] /\ book \in SUBSET Intents /\ IsFiniteSet(book)
      /\ pmlcs \in SUBSET Pmlcs /\ IsFiniteSet(pmlcs)
      /\ UniqueBook(book, nextId, nextSeq) /\ UniquePositions(pmlcs, nextId)
      /\ \A u \in Traders : margin[u].reserved \in Nat /\ margin[u].locked \in Nat
  BY LedgerFacts DEF Balances
<1>r. ASSUME NEW p \in pmlcs, p.status = "live", NEW side \in Sides, NEW t \in Traders,
             Replace(p, WithOwner(p, side, t)), NEW u \in Traders,
             margin'[u].locked = margin[u].locked - At(u, OwnerOf(p, side), Bucket) + At(u, t, Bucket)
      PROVE  Idle(margin', pmlcs', u) = Idle(margin, pmlcs, u)
  <2> DEFINE q == WithOwner(p, side, t)
  <2>1. /\ q.id = p.id
        /\ StakeIn(q, u) = StakeIn(p, u) - At(u, OwnerOf(p, side), Bucket) + At(u, t, Bucket)
        /\ At(u, OwnerOf(p, side), Bucket) \in Nat /\ At(u, t, Bucket) \in Nat
    BY <1>t, <1>r, StakeMoved
  <2>2. pmlcs' = (pmlcs \ {p}) \cup {q}
    BY <1>r DEF Replace
  <2> HIDE DEF q
  <2>3. /\ Staked(pmlcs', u) = Staked(pmlcs, u) - StakeIn(p, u) + StakeIn(q, u)
        /\ Staked(pmlcs, u) \in Nat /\ StakeIn(p, u) \in Nat
    BY <1>t, <2>1, <2>2, StakedReplace
  <2> QED BY <1>t, <1>r, <2>1, <2>3 DEF Idle
<1>1. ASSUME NEW p \in pmlcs, NEW side \in Sides, NEW new \in Traders, Novate(p, side, new),
             NEW u \in Traders
      PROVE  /\ Loose(margin', book', u) = Loose(margin, book, u)
             /\ Idle(margin', pmlcs', u) = Idle(margin, pmlcs, u)
  <2>1. p.status = "live" /\ Replace(p, WithOwner(p, side, new)) /\ UNCHANGED book
    BY <1>1 DEF Novate, orders
  <2>2. /\ margin'[u].reserved = margin[u].reserved
        /\ margin'[u].locked
             = margin[u].locked - At(u, OwnerOf(p, side), Bucket) + At(u, new, Bucket)
    BY <1>1, NovateAt
  <2> QED BY <1>1, <1>r, <2>1, <2>2 DEF Loose
<1>2. ASSUME NEW p \in pmlcs, NEW sub \in Traders, NEW l \in book, NEW s \in book,
             NEW withSettle \in BOOLEAN, Substitute(p, sub, l, s, withSettle), NEW u \in Traders
      PROVE  /\ Loose(margin', book', u) = Loose(margin, book, u)
             /\ Idle(margin', pmlcs', u) = Idle(margin, pmlcs, u)
  <2>1. /\ p.status = "live" /\ l # s /\ CanFill(l) /\ CanFill(s) /\ Backed(l) /\ Backed(s)
        /\ book' = FilledBook(book, l, s)
    BY <1>2, SubstituteNeeds
  <2>2. PICK mine \in book, theirs \in book, side \in Sides, delta \in Int :
          Swaps(p, l, s, mine, theirs, side, delta)
    BY <1>2, SubstituteSwaps
  <2>3. /\ \/ mine = l /\ theirs = s
           \/ mine = s /\ theirs = l
        /\ OwnerOf(p, side) = mine.owner /\ theirs.owner \in Traders
        /\ Replace(p, WithOwner(p, side, theirs.owner))
        /\ margin'[u].reserved = margin[u].reserved - Taken(mine, u) - Taken(theirs, u)
        /\ margin'[u].locked
             = margin[u].locked - At(u, mine.owner, Bucket) + At(u, theirs.owner, Bucket)
    BY <1>t, <2>2 DEF Swaps, Intents
  <2>4. /\ Held(book', u) = Held(book, u) - Taken(l, u) - Taken(s, u)
        /\ Held(book, u) \in Nat /\ Taken(l, u) \in Nat /\ Taken(s, u) \in Nat
    BY <1>t, <2>1, HeldFill
  <2>5. Loose(margin', book', u) = Loose(margin, book, u)
    BY <1>t, <2>3, <2>4 DEF Loose
  <2>6. Idle(margin', pmlcs', u) = Idle(margin, pmlcs, u)
    BY <1>r, <2>1, <2>3
  <2> QED BY <2>5, <2>6
<1> QED BY <1>1, <1>2 DEF Transferring, Steady

(* A position that has ended has nothing at stake. *)
LEMMA StakesEnded ==
  ASSUME LedgerInv, NEW p \in pmlcs, p.status \in Terminal, NEW side \in Sides, NEW u \in Traders
  PROVE  /\ Staked(pmlcs \ {p}, u) = Staked(pmlcs, u)
         /\ Staked((pmlcs \ {p}) \cup {WithoutReentry(p, side)}, u) = Staked(pmlcs, u)
         /\ Staked(pmlcs, u) \in Nat
<1> DEFINE q == WithoutReentry(p, side)
<1>1. /\ pmlcs \in SUBSET Pmlcs /\ IsFiniteSet(pmlcs) /\ UniquePositions(pmlcs, nextId)
  BY LedgerFacts
<1>2. q.id = p.id /\ q.status = p.status /\ p.status # "live"
  BY <1>1 DEF WithoutReentry, Pmlcs, Terminal
<1> HIDE DEF q
<1>3. StakeIn(p, u) = 0 /\ StakeIn(q, u) = 0
  BY <1>2 DEF StakeIn
<1>4. Staked(pmlcs \ {p}, u) = Staked(pmlcs, u) - StakeIn(p, u) /\ Staked(pmlcs, u) \in Nat
  BY <1>1, StakedRemove
<1>5. Staked((pmlcs \ {p}) \cup {q}, u) = Staked(pmlcs, u) - StakeIn(p, u) + StakeIn(q, u)
  BY <1>1, <1>2, StakedReplace
<1>6. /\ Staked(pmlcs \ {p}, u) = Staked(pmlcs, u)
      /\ Staked((pmlcs \ {p}) \cup {q}, u) = Staked(pmlcs, u)
  BY <1>3, <1>4, <1>5
<1> QED BY <1>4, <1>6 DEF q

(* A claim of reentry reserves what the new intent holds. *)
LEMMA SlackEnding ==
  ASSUME LedgerInv, Ending
  PROVE  Steady
<1>t. /\ margin \in Drafts /\ book \in SUBSET Intents /\ IsFiniteSet(book)
      /\ UniqueBook(book, nextId, nextSeq) /\ nextId \in Nat
  BY LedgerFacts
<1>1. ASSUME NEW p \in pmlcs, ClosePmlc(p), NEW u \in Traders
      PROVE  /\ Loose(margin', book', u) = Loose(margin, book, u)
             /\ Idle(margin', pmlcs', u) = Idle(margin, pmlcs, u)
  <2>1. p.status \in Terminal /\ pmlcs' = pmlcs \ {p} /\ UNCHANGED <<margin, book>>
    BY <1>1 DEF ClosePmlc, ledger, orders
  <2>2. "long" \in Sides
    BY DEF Sides
  <2>3. Staked(pmlcs', u) = Staked(pmlcs, u)
    BY <2>1, <2>2, StakesEnded
  <2> QED BY <2>1, <2>3 DEF Loose, Idle
<1>2. ASSUME NEW p \in pmlcs, NEW side \in Sides, NEW expiration \in Expirations,
             ClaimReentryUnfunded(p, side, expiration), NEW u \in Traders
      PROVE  /\ Loose(margin', book', u) = Loose(margin, book, u)
             /\ Idle(margin', pmlcs', u) = Idle(margin, pmlcs, u)
  <2>1. /\ p.status \in Terminal /\ pmlcs' = (pmlcs \ {p}) \cup {WithoutReentry(p, side)}
        /\ UNCHANGED <<margin, book>>
    BY <1>2 DEF ClaimReentryUnfunded, CanClaim, Replace, ledger, orders
  <2>2. Staked(pmlcs', u) = Staked(pmlcs, u)
    BY <2>1, StakesEnded
  <2> QED BY <2>1, <2>2 DEF Loose, Idle
<1>3. ASSUME NEW p \in pmlcs, NEW side \in Sides, NEW expiration \in Expirations,
             ClaimReentry(p, side, expiration), NEW u \in Traders
      PROVE  /\ Loose(margin', book', u) = Loose(margin, book, u)
             /\ Idle(margin', pmlcs', u) = Idle(margin, pmlcs, u)
  <2>1. PICK t \in Traders, n \in Nat, i \in Intents :
          /\ Fresh(i, t, n)
          /\ margin' = Adjust(margin, t, -Outlay(n), Outlay(n), 0)
          /\ book' = book \cup {i}
          /\ p.status \in Terminal
          /\ Replace(p, WithoutReentry(p, side))
    BY <1>3, ClaimForm DEF LedgerInv
  <2> DEFINE out == Outlay(n)
  <2>2. out \in Nat
    BY AmountTypes
  <2>3. Escrow(i) = out /\ i.owner = t /\ i.id = nextId
    BY <2>1 DEF Fresh, Escrow, Outlay
  <2>4. i \notin book
    BY <1>t, <2>3 DEF UniqueBook
  <2>5. Held(book', u) = Held(book, u) + At(u, i.owner, Escrow(i)) /\ Held(book, u) \in Nat
    BY <1>t, <2>1, <2>4, HeldAdd
  <2>6. Staked(pmlcs', u) = Staked(pmlcs, u)
    BY <2>1, StakesEnded DEF Replace
  <2> HIDE DEF out
  <2>7. /\ margin'[u].reserved = margin[u].reserved + At(u, t, out)
        /\ margin'[u].locked = margin[u].locked + At(u, t, 0)
        /\ margin[u].reserved \in Int /\ margin[u].locked \in Int
    <3>1. -out \in Int /\ out \in Int /\ 0 \in Int /\ margin' = Adjust(margin, t, -out, out, 0)
      BY <2>1, <2>2 DEF out
    <3> QED BY <1>t, <3>1, AdjustAt
  <2>8. margin'[u].locked = margin[u].locked /\ At(u, t, out) \in Int
    BY <2>2, <2>7 DEF At
  <2>9. Held(book', u) = Held(book, u) + At(u, t, out)
    BY <2>3, <2>5
  <2>10. Loose(margin', book', u) = Loose(margin, book, u)
    BY <2>5, <2>7, <2>8, <2>9 DEF Loose
  <2> QED BY <2>6, <2>8, <2>10 DEF Idle
<1> QED BY <1>1, <1>2, <1>3 DEF Ending, Steady

(* Deposits, withdrawals, sweeps, administration and the clock. *)
LEMMA SlackElsewhere ==
  ASSUME LedgerInv, Accounts \/ Administering \/ UNCHANGED vars
  PROVE  Steady
<1>t. margin \in Drafts
  BY LedgerFacts
<1>1. ASSUME NEW t \in Traders, NEW f \in Int, margin' = Adjust(margin, t, f, 0, 0),
             UNCHANGED <<book, pmlcs>>
      PROVE  Steady
  <2>1. ASSUME NEW u \in Traders
        PROVE  margin'[u].reserved = margin[u].reserved /\ margin'[u].locked = margin[u].locked
    <3>1. /\ margin'[u].reserved = margin[u].reserved + At(u, t, 0)
          /\ margin'[u].locked = margin[u].locked + At(u, t, 0)
          /\ margin[u].reserved \in Int /\ margin[u].locked \in Int
      <4>1. 0 \in Int
        OBVIOUS
      <4> QED BY <1>t, <1>1, <4>1, AdjustAt
    <3>2. At(u, t, 0) = 0
      BY DEF At
    <3> QED BY <3>1, <3>2
  <2> QED BY <1>1, <2>1 DEF Steady, Loose, Idle
<1>2. ASSUME UNCHANGED <<margin, book, pmlcs>> PROVE Steady
  BY <1>2 DEF Steady
<1>3. CASE Accounts
  <2>1. ASSUME NEW t \in Traders, NEW amount \in Amounts, Deposit(t, amount) PROVE Steady
    <3>1. amount \in Int /\ margin' = Adjust(margin, t, amount, 0, 0) /\ UNCHANGED <<book, pmlcs>>
      BY <2>1, InputsAssumption DEF Deposit, orders
    <3> QED BY <1>1, <3>1
  <2>2. ASSUME NEW t \in Traders, NEW amount \in Amounts, Withdraw(t, amount) PROVE Steady
    <3>1. /\ -amount \in Int /\ margin' = Adjust(margin, t, -amount, 0, 0)
          /\ UNCHANGED <<book, pmlcs>>
      BY <2>2, InputsAssumption DEF Withdraw, orders
    <3> QED BY <1>1, <3>1
  <2>3. ASSUME NEW t \in Traders, CreateMarginAccount(t) PROVE Steady
    BY <1>2, <2>3 DEF CreateMarginAccount, orders
  <2>4. ASSUME NEW amount \in Amounts, SweepFees(amount) PROVE Steady
    BY <1>2, <2>4 DEF SweepFees, orders
  <2> QED BY <1>3, <2>1, <2>2, <2>3, <2>4 DEF Accounts
<1>4. CASE Administering
  <2>1. UNCHANGED <<margin, book, pmlcs>>
    BY <1>4 DEF Administering, SetGlobalPause, SetInstrumentStatus, Tick, ledger, orders
  <2> QED BY <1>2, <2>1
<1>5. CASE UNCHANGED vars
  <2>1. UNCHANGED <<margin, book, pmlcs>>
    BY <1>5 DEF vars, ledger, orders
  <2> QED BY <1>2, <2>1
<1> QED BY <1>3, <1>4, <1>5

(* Only a failing inline match moves the slack, and only upwards. *)
LEMMA SlackStep ==
  ASSUME LedgerInv, [Next]_vars
  PROVE  Steady \/ (InlineMatchCanFail /\ NotLess)
<1>1. CASE UNCHANGED vars
  BY <1>1, SlackElsewhere
<1>2. CASE Next
  BY <1>2, SlackElsewhere, SlackPosting, SlackLeaving, SlackMatching, SlackSettling,
     SlackTransferring, SlackEnding DEF Next
<1> QED BY <1>1, <1>2

(* The ledger's invariant holds of an instrument just created. *)
LEMMA LedgerInit == Init => LedgerInv
<1> SUFFICES ASSUME Init PROVE LedgerInv
  OBVIOUS
<1>1. TypeInv
  BY TypeInit
<1>2. IdsUnique /\ NodeBacking
  BY DEF Init, IdsUnique, NodeBacking
<1> QED BY <1>1, <1>2 DEF LedgerInv

(* Every step keeps the ledger's invariant. *)
LEMMA LedgerStep == LedgerInv /\ [Next]_vars => LedgerInv'
<1> SUFFICES ASSUME LedgerInv, [Next]_vars PROVE LedgerInv'
  OBVIOUS
<1>1. TypeInv /\ IdsUnique /\ NodeBacking
  BY DEF LedgerInv
<1>2. TypeInv' /\ IdsUnique' /\ NodeBacking'
  BY <1>1, TypeStep, IdsStep, BackingStep
<1> QED BY <1>2 DEF LedgerInv

(* The slack that every trader has. *)
Slack ==
  \A t \in Traders : Loose(margin, book, t) >= 0 /\ Idle(margin, pmlcs, t) >= 0

NoSlack ==
  \A t \in Traders : Loose(margin, book, t) = 0 /\ Idle(margin, pmlcs, t) = 0

(* At first there is nothing to back. *)
LEMMA SlackInit == Init => NoSlack
<1> SUFFICES ASSUME Init, NEW t \in Traders
             PROVE  Loose(margin, book, t) = 0 /\ Idle(margin, pmlcs, t) = 0
  BY DEF NoSlack
<1>1. book = {} /\ pmlcs = {} /\ margin[t].reserved = 0 /\ margin[t].locked = 0
  BY DEF Init
<1>2. Held({}, t) = 0
  <2>1. {j \in {} : j.owner = t} = {}
    OBVIOUS
  <2> QED BY <2>1, TotalEmpty DEF Held, EscrowOf
<1>3. Staked({}, t) = 0
  <2>1. Longs({}, t) = {} /\ Shorts({}, t) = {} /\ Cardinality({}) = 0 /\ Bucket \in Nat
    BY FS_EmptySet, InstrumentAssumption DEF Longs, Shorts
  <2> QED BY <2>1 DEF Staked
<1> QED BY <1>1, <1>2, <1>3 DEF Loose, Idle

(* The slack of a state, in the terms of the properties. *)
LEMMA SlackMeans ==
  ASSUME LedgerInv, NEW t \in Traders
  PROVE  /\ Loose(margin, book, t) = margin[t].reserved - EscrowOf(IntentsOf(t))
         /\ Idle(margin, pmlcs, t) = margin[t].locked - Stake(t)
         /\ margin[t].reserved \in Nat /\ EscrowOf(IntentsOf(t)) \in Nat
         /\ margin[t].locked \in Nat /\ Stake(t) \in Nat
         /\ Loose(margin, book, t) \in Int /\ Idle(margin, pmlcs, t) \in Int
<1>1. Held(book, t) = EscrowOf(IntentsOf(t)) /\ Staked(pmlcs, t) = Stake(t)
  BY DEF Held, IntentsOf, Staked, Stake, Longs, LongsOf, Shorts, ShortsOf
<1>2. /\ margin[t].reserved \in Nat /\ margin[t].locked \in Nat
      /\ book \in SUBSET Intents /\ IsFiniteSet(book) /\ IsFiniteSet(pmlcs)
  BY LedgerFacts DEF Balances
<1>3. Held(book, t) \in Nat
  BY <1>2, HeldSplit
<1>4. Staked(pmlcs, t) \in Nat
  <2>1. Longs(pmlcs, t) \in SUBSET pmlcs /\ Shorts(pmlcs, t) \in SUBSET pmlcs
    BY DEF Longs, Shorts
  <2>2. IsFiniteSet(Longs(pmlcs, t)) /\ IsFiniteSet(Shorts(pmlcs, t))
    BY <1>2, <2>1, FS_Subset
  <2>3. Cardinality(Longs(pmlcs, t)) + Cardinality(Shorts(pmlcs, t)) \in Nat
    BY <2>2, FS_CardinalityType
  <2> QED BY <2>3, InstrumentAssumption DEF Staked
<1> QED BY <1>1, <1>2, <1>3, <1>4 DEF Loose, Idle

(* The slack of the next state is what the step makes of it. *)
LEMMA SlackPrimed ==
  /\ Slack' <=> \A t \in Traders : /\ Loose(margin', book', t) >= 0
                                   /\ Idle(margin', pmlcs', t) >= 0
  /\ NoSlack' <=> \A t \in Traders : /\ Loose(margin', book', t) = 0
                                     /\ Idle(margin', pmlcs', t) = 0
BY DEF Slack, NoSlack

(* The slack is a number. *)
SlackTyped ==
  \A t \in Traders : Loose(margin, book, t) \in Int /\ Idle(margin, pmlcs, t) \in Int

(* The slack is an integer now ... *)
LEMMA SlackInts == LedgerInv => SlackTyped
BY SlackMeans DEF SlackTyped

(* ... and in the next state. *)
LEMMA SlackIntsNext == LedgerInv' => SlackTyped'
BY SlackInts, PTL

(* No step makes a balance fall short of what it is to back. *)
LEMMA SlackKept == LedgerInv /\ Slack /\ [Next]_vars => Slack'
<1> SUFFICES ASSUME LedgerInv, Slack, [Next]_vars PROVE Slack'
  OBVIOUS
<1>1. LedgerInv'
  BY LedgerStep
<1>2. Steady \/ NotLess
  BY SlackStep
<1>3. ASSUME NEW t \in Traders
      PROVE  Loose(margin', book', t) >= 0 /\ Idle(margin', pmlcs', t) >= 0
  <2>1. Loose(margin, book, t) \in Int /\ Idle(margin, pmlcs, t) \in Int
    BY SlackMeans
  <2>2. SlackTyped'
    BY <1>1, SlackIntsNext
  <2>3. Loose(margin', book', t) \in Int /\ Idle(margin', pmlcs', t) \in Int
    BY <2>2 DEF SlackTyped
  <2> QED BY <1>2, <2>1, <2>3 DEF Slack, Steady, NotLess
<1> QED BY <1>3, SlackPrimed

(* No trader's reserved balance falls short of what is to be refunded to it,  *)
(* and no locked balance of what its live positions settle: whatever is       *)
(* traded, novated, substituted, settled and pruned, and even when inline     *)
(* matches fail half-way.                                                     *)
THEOREM BalancesSuffice == Spec => []BalancesCover
<1>1. Init => LedgerInv /\ Slack
  <2> SUFFICES ASSUME Init PROVE LedgerInv /\ Slack
    OBVIOUS
  <2>1. NoSlack
    BY SlackInit
  <2> QED BY <2>1, LedgerInit DEF Slack, NoSlack
<1>2. LedgerInv /\ Slack => BalancesCover
  <2> SUFFICES ASSUME LedgerInv, Slack, NEW t \in Traders
               PROVE  /\ margin[t].reserved >= EscrowOf(IntentsOf(t))
                      /\ margin[t].locked >= Stake(t)
    BY DEF BalancesCover
  <2> QED BY SlackMeans DEF Slack
<1> QED BY <1>1, <1>2, LedgerStep, SlackKept, PTL DEF Spec

(* Without failing inline matches no slack ever arises. *)
LEMMA NoSlackKept ==
  ASSUME ~InlineMatchCanFail
  PROVE  LedgerInv /\ NoSlack /\ [Next]_vars => NoSlack'
<1> SUFFICES ASSUME LedgerInv, NoSlack, [Next]_vars PROVE NoSlack'
  OBVIOUS
<1>1. Steady
  BY SlackStep
<1> QED BY <1>1, SlackPrimed DEF NoSlack, Steady

(* Without slack, reserves and locks are exactly what they back. *)
LEMMA NoSlackMeans == LedgerInv /\ NoSlack => ReservedBacked /\ LockedBacked
<1> SUFFICES ASSUME LedgerInv, NoSlack, NEW t \in Traders
             PROVE  margin[t].reserved = EscrowOf(IntentsOf(t)) /\ margin[t].locked = Stake(t)
  BY DEF ReservedBacked, LockedBacked
<1> QED BY SlackMeans DEF NoSlack

(* As long as no inline match fails, the reserved balance of every trader is  *)
(* exactly what its resting intents hold: fills, their rounded fee releases,  *)
(* prunes, cancels, substitutions and reentries strand nothing.               *)
THEOREM ReservesExact ==
  ASSUME ~InlineMatchCanFail
  PROVE  Spec => []ReservedBacked
<1>1. LedgerInv /\ NoSlack => ReservedBacked
  BY NoSlackMeans
<1> QED BY <1>1, LedgerInit, SlackInit, LedgerStep, NoSlackKept, PTL DEF Spec

(* As long as no inline match fails, the locked balance of every trader is    *)
(* exactly one bucket for every side of a live position that it owns.         *)
THEOREM LocksExact ==
  ASSUME ~InlineMatchCanFail
  PROVE  Spec => []LockedBacked
<1>1. LedgerInv /\ NoSlack => LockedBacked
  BY NoSlackMeans
<1> QED BY <1>1, LedgerInit, SlackInit, LedgerStep, NoSlackKept, PTL DEF Spec

-----------------------------------------------------------------------------
(* Every way out is funded *)

(* The debits of PruneExpired and of CancelIntent, which prunes one intent. *)
RefundsFunded ==
  \A S \in SUBSET book, t \in Traders : EscrowOf({i \in S : i.owner = t}) <= margin[t].reserved

(* The debits of the three settlements, whatever the price, and of a novation *)
(* away from one that owns both sides.                                        *)
SettlementFunded(p) ==
  \A long, short \in Nat : /\ Covered(Settled(p, long, short), p.long)
                           /\ Covered(Settled(p, long, short), p.short)

Freed(p) == Adjust(margin, p.long, Bucket, 0, -Bucket)

NovationFunded(p) ==
  \A t \in Traders : margin[t].free >= Bucket =>
    /\ Covered(Freed(p), p.long)
    /\ Covered(Adjust(Freed(p), t, -Bucket, 0, Bucket), t)

ExitFunded(p) == IF p.long # p.short THEN SettlementFunded(p) ELSE NovationFunded(p)

(* The stake of a live position is a part of what its owners have locked. *)
LEMMA LockedForStake ==
  ASSUME LedgerInv, BalancesCover, NEW p \in pmlcs, p.status = "live"
  PROVE  \A t \in Traders : margin[t].locked >= At(t, p.long, Bucket) + At(t, p.short, Bucket)
<1> SUFFICES ASSUME NEW t \in Traders
             PROVE  margin[t].locked >= At(t, p.long, Bucket) + At(t, p.short, Bucket)
  OBVIOUS
<1>1. StakeIn(p, t) = At(t, p.long, Bucket) + At(t, p.short, Bucket)
  BY DEF StakeIn
<1>2. IsFiniteSet(pmlcs)
  BY LedgerFacts
<1>3. /\ Staked(pmlcs \ {p}, t) = Staked(pmlcs, t) - StakeIn(p, t)
      /\ Staked(pmlcs, t) \in Nat /\ StakeIn(p, t) \in Nat
  BY <1>2, StakedRemove
<1>4. Staked(pmlcs \ {p}, t) \in Nat
  <2>1. IsFiniteSet(Longs(pmlcs \ {p}, t)) /\ IsFiniteSet(Shorts(pmlcs \ {p}, t))
    <3>1. Longs(pmlcs \ {p}, t) \in SUBSET pmlcs /\ Shorts(pmlcs \ {p}, t) \in SUBSET pmlcs
      BY DEF Longs, Shorts
    <3> QED BY <1>2, <3>1, FS_Subset
  <2>2. Cardinality(Longs(pmlcs \ {p}, t)) + Cardinality(Shorts(pmlcs \ {p}, t)) \in Nat
    BY <2>1, FS_CardinalityType
  <2> QED BY <2>2, InstrumentAssumption DEF Staked
<1>5. Staked(pmlcs, t) = Stake(t) /\ margin[t].locked >= Stake(t) /\ margin[t].locked \in Nat
  BY SlackMeans DEF Staked, Stake, Longs, LongsOf, Shorts, ShortsOf, BalancesCover
<1> QED BY <1>1, <1>3, <1>4, <1>5

(* What a refund takes is a part of what its owner has in reserve. *)
LEMMA RefundsCovered == LedgerInv /\ BalancesCover => RefundsFunded
<1> SUFFICES ASSUME LedgerInv, BalancesCover, NEW S \in SUBSET book, NEW t \in Traders
             PROVE  EscrowOf({i \in S : i.owner = t}) <= margin[t].reserved
  BY DEF RefundsFunded
<1>1. /\ Held(book, t) = Held(S, t) + Held(book \ S, t)
      /\ Held(book, t) \in Nat /\ Held(S, t) \in Nat /\ Held(book \ S, t) \in Nat
  BY LedgerFacts, HeldSplit
<1>2. Held(book, t) = EscrowOf(IntentsOf(t)) /\ Held(S, t) = EscrowOf({i \in S : i.owner = t})
  BY DEF Held, IntentsOf
<1>3. margin[t].reserved >= EscrowOf(IntentsOf(t)) /\ margin[t].reserved \in Nat
  BY SlackMeans DEF BalancesCover
<1> QED BY <1>1, <1>2, <1>3

(* A settlement pays out of the two stakes, a novation out of the new owner's *)
(* free collateral or, if it is the old owner's, out of what it just freed.   *)
LEMMA ExitsCovered ==
  LedgerInv /\ BalancesCover => \A p \in pmlcs : p.status = "live" => ExitFunded(p)
<1> SUFFICES ASSUME LedgerInv, BalancesCover, NEW p \in pmlcs, p.status = "live"
             PROVE  ExitFunded(p)
  OBVIOUS
<1>1. margin \in Drafts /\ p.long \in Traders /\ p.short \in Traders
  BY LedgerFacts
<1>2. \A t \in Traders : /\ margin[t].free \in Nat /\ margin[t].reserved \in Nat
                         /\ margin[t].locked \in Nat
  BY LedgerFacts DEF Balances
<1>3. Bucket \in Nat /\ -Bucket \in Int /\ 0 \in Int /\ Bucket \in Int
  BY InstrumentAssumption
<1>4. \A t \in Traders : margin[t].locked >= At(t, p.long, Bucket) + At(t, p.short, Bucket)
  BY LockedForStake
<1>5. CASE p.long # p.short
  <2> SUFFICES ASSUME NEW long \in Nat, NEW short \in Nat, NEW u \in {p.long, p.short}
               PROVE  Covered(Settled(p, long, short), u)
    BY <1>5 DEF ExitFunded, SettlementFunded
  <2> DEFINE after == Settled(p, long, short)
  <2>1. u \in Traders
    BY <1>1
  <2>2. /\ after[u].free = margin[u].free + At(u, p.long, long) + At(u, p.short, short)
        /\ after[u].reserved = margin[u].reserved
        /\ after[u].locked = margin[u].locked - At(u, p.long, Bucket) - At(u, p.short, Bucket)
    BY <1>1, <2>1, SettledAt
  <2>3. /\ At(u, p.long, long) \in Nat /\ At(u, p.short, short) \in Nat
        /\ At(u, p.long, Bucket) \in Nat /\ At(u, p.short, Bucket) \in Nat
    BY <1>3 DEF At
  <2> HIDE DEF after
  <2>4. after[u].free >= 0 /\ after[u].reserved >= 0 /\ after[u].locked >= 0
    BY <2>1, <2>2, <2>3, <1>2, <1>4
  <2> QED BY <2>4 DEF Covered, after
<1>6. CASE p.long = p.short
  <2> SUFFICES ASSUME NEW t \in Traders, margin[t].free >= Bucket
               PROVE  /\ Covered(Freed(p), p.long)
                      /\ Covered(Adjust(Freed(p), t, -Bucket, 0, Bucket), t)
    BY <1>6 DEF ExitFunded, NovationFunded
  <2> DEFINE freed == Freed(p)
             after == Adjust(freed, t, -Bucket, 0, Bucket)
  <2>1. \A u \in Traders : /\ freed \in Drafts
                           /\ freed[u].free = margin[u].free + At(u, p.long, Bucket)
                           /\ freed[u].reserved = margin[u].reserved + At(u, p.long, 0)
                           /\ freed[u].locked = margin[u].locked + At(u, p.long, -Bucket)
    BY <1>1, <1>3, AdjustAt DEF Freed
  <2>2. margin[p.long].locked >= Bucket + Bucket
    BY <1>1, <1>4, <1>6 DEF At
  <2> HIDE DEF freed
  <2>3. /\ after[t].free = freed[t].free + At(t, t, -Bucket)
        /\ after[t].reserved = freed[t].reserved + At(t, t, 0)
        /\ after[t].locked = freed[t].locked + At(t, t, Bucket)
    BY <1>1, <1>3, <2>1, AdjustAt
  <2> HIDE DEF after
  <2>4. Covered(freed, p.long)
    BY <1>1, <1>2, <1>3, <2>1, <2>2 DEF Covered, At
  <2>5. /\ freed[t].free >= Bucket /\ freed[t].reserved >= 0 /\ freed[t].locked >= 0
        /\ freed[t].free \in Int /\ freed[t].reserved \in Int /\ freed[t].locked \in Int
    BY <1>1, <1>2, <1>3, <2>1, <2>2 DEF At
  <2>6. Covered(after, t)
    BY <2>3, <2>5, <1>3 DEF Covered, At
  <2> QED BY <2>4, <2>6 DEF freed, after
<1> QED BY <1>5, <1>6

(* Every way out of the exchange stays funded: any intents can be cancelled   *)
(* or pruned, a live position can be settled at any price by any of the three *)
(* settlements, and one that has a single owner can be novated to anyone who  *)
(* can pay for a side.  No checked subtraction of those handlers fails,       *)
(* whatever was matched, transferred, claimed or lost in a failing inline     *)
(* match before.                                                              *)
THEOREM ExitsStayFunded ==
  Spec => [](RefundsFunded /\ \A p \in pmlcs : p.status = "live" => ExitFunded(p))
<1>1. Spec => []LedgerInv
  BY LedgerInit, LedgerStep, PTL DEF Spec
<1>2. LedgerInv /\ BalancesCover =>
        RefundsFunded /\ \A p \in pmlcs : p.status = "live" => ExitFunded(p)
  BY RefundsCovered, ExitsCovered
<1> QED BY <1>1, <1>2, BalancesSuffice, PTL
=============================================================================
