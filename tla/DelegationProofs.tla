-------------------------- MODULE DelegationProofs --------------------------
(***************************************************************************)
(* Delegation implements Exchange, so that what is proved of the exchange   *)
(* holds with delegates as well; and a session stays within its caps.       *)
(***************************************************************************)
EXTENDS Delegation, SolvencyProofs

(* The handler of the delegated cancel does to the intent what the handler of *)
(* the owner's cancel does, although the two share no code.                   *)
LEMMA DelegatedCancel ==
  ASSUME TypeInv, NEW d, NEW i \in book, CancelIntentDelegated(d, i)
  PROVE  CancelIntent(i.owner, i)
<1> DEFINE t == i.owner
           r == i.reserved + i.feeBuffer
           m == [margin EXCEPT ![t].reserved = @ - r, ![t].free = @ + r]
<1>1. /\ t \in Traders /\ r \in Nat
      /\ margin \in [Traders -> Balances]
  BY DEF TypeInv, TypeOK, Intents
<1>2. r <= margin[t].reserved /\ margin' = m
  BY DEF CancelIntentDelegated
<1>3. m = Adjust(margin, t, r, -r, 0) /\ Covered(m, t)
  <2> DEFINE b == margin[t]
             c == [free |-> b.free + r, reserved |-> b.reserved - r, locked |-> b.locked]
  <2>1. b \in Balances /\ b.free \in Nat /\ b.reserved \in Nat /\ b.locked \in Nat
    BY <1>1 DEF Balances
  <2> HIDE DEF r
  <2>2. m = [margin EXCEPT ![t] = c]
    <3>1. DOMAIN m = Traders /\ DOMAIN [margin EXCEPT ![t] = c] = Traders
      BY <1>1
    <3>2. b = [free |-> b.free, reserved |-> b.reserved, locked |-> b.locked]
      BY <2>1 DEF Balances
    <3>3. m[t] = [[b EXCEPT !.reserved = b.reserved - r] EXCEPT !.free = b.free + r]
      BY <1>1, <3>2
    <3>4. m[t] = c
      BY <3>2, <3>3
    <3>5. \A u \in Traders : m[u] = [margin EXCEPT ![t] = c][u]
      BY <1>1, <3>4
    <3> QED BY <1>1, <3>1, <3>5
  <2>3. Adjust(margin, t, r, -r, 0) = [margin EXCEPT ![t] = c]
    <3>1. b.reserved + -r = b.reserved - r /\ b.locked + 0 = b.locked
      BY <1>1, <2>1
    <3> QED BY <3>1 DEF Adjust
  <2>4. c.free >= 0 /\ c.reserved >= 0 /\ c.locked >= 0
    BY <1>1, <1>2, <2>1
  <2>5. m[t] = c
    BY <1>1, <2>2
  <2> HIDE DEF m, c
  <2> QED BY <2>2, <2>3, <2>4, <2>5 DEF Covered
<1>4. Escrow(i) = r
  BY DEF Escrow
<1>5. /\ book' = book \ {i}
      /\ seatCount' = [seatCount EXCEPT ![t] = SatSub(@, 1)]
      /\ UNCHANGED <<opened, vault, accrued, nextId, nextSeq, pmlcs, market, controls, now>>
  BY Zenon DEF CancelIntentDelegated
<1> HIDE DEF m, r
<1>6. /\ margin' = Adjust(margin, t, Escrow(i), -Escrow(i), 0)
      /\ Covered(margin', t)
  BY <1>2, <1>3, <1>4
<1> QED BY <1>5, <1>6 DEF CancelIntent

(* A delegated post is a post, and a delegated cancel a cancel by the owner. *)
LEMMA DelegatingIsExchanging == TypeInv /\ Delegating => Next
<1> SUFFICES ASSUME TypeInv, Delegating PROVE Next
  OBVIOUS
<1>1. ASSUME NEW d \in Delegates, NEW t \in Traders, NEW side \in Sides, NEW n \in Contracts,
             NEW price \in Prices, NEW expiration \in Expirations, NEW reentry \in ReentryInputs,
             PostIntentDelegated(d, t, side, n, price, expiration, reentry)
      PROVE  Next
  <2>1. \/ PostIntent(t, side, n, price, expiration, reentry)
        \/ \E bps \in InlineBps : PostIntentMatched(t, side, n, price, expiration, reentry, bps)
        \/ \E bps \in InlineBps : PostIntentMatchFailed(t, side, n, price, expiration, reentry, bps)
    BY <1>1, Zenon DEF PostIntentDelegated
  <2>2. Posting
    BY <2>1, Zenon DEF Posting
  <2> QED BY <2>2, Zenon DEF Next
<1>2. ASSUME NEW d \in Delegates, NEW i \in book, CancelIntentDelegated(d, i)
      PROVE  Next
  <2>1. i.owner \in Traders
    BY DEF TypeInv, TypeOK, Intents
  <2>2. CancelIntent(i.owner, i)
    BY <1>2, DelegatedCancel
  <2>3. Leaving
    BY <2>1, <2>2, Zenon DEF Leaving
  <2> QED BY <2>3, Zenon DEF Next
<1> QED BY <1>1, <1>2, Zenon DEF Delegating

(* Every step with delegates is a step of the exchange, or leaves it alone. *)
LEMMA StepImplements ==
  TypeInv /\ [DelegatedNext]_delegatedVars => [Next]_vars
<1> SUFFICES ASSUME TypeInv, [DelegatedNext]_delegatedVars PROVE [Next]_vars
  OBVIOUS
<1>1. CASE Direct
  BY <1>1, Zenon DEF Direct
<1>2. CASE Owning
  BY <1>2, Zenon DEF Owning, CreateSession, RevokeSession
<1>3. CASE Delegating
  BY <1>3, DelegatingIsExchanging
<1>4. CASE UNCHANGED delegatedVars
  BY <1>4, Zenon DEF delegatedVars
<1> QED BY <1>1, <1>2, <1>3, <1>4, Zenon DEF DelegatedNext

(* Every state of the exchange with delegates is well-typed. *)
LEMMA DelegatedTypeInv == DelegatedSpec => []TypeInv
<1>1. DelegatedInit => TypeInv
  BY TypeInit DEF DelegatedInit
<1>2. TypeInv /\ [DelegatedNext]_delegatedVars => TypeInv'
  BY StepImplements, TypeStep
<1> QED BY <1>1, <1>2, PTL DEF DelegatedSpec

(* The exchange with delegates implements the exchange: whatever is proved of *)
(* every behaviour of the exchange also holds with delegates.                 *)
THEOREM DelegationImplements == DelegatedSpec => ImplementsExchange
<1>1. DelegatedInit => Init
  BY DEF DelegatedInit
<1> QED BY <1>1, StepImplements, DelegatedTypeInv, PTL DEF DelegatedSpec, ImplementsExchange, Spec

(* Delegates and their sessions change nothing about the custody of the       *)
(* collateral: with them too, every step moves atoms only the way Custody     *)
(* allows, if no inline match fails half-way and the bounty is at most what a *)
(* position holds.                                                            *)
THEOREM DelegatesKeepCustody ==
  ASSUME ~InlineMatchCanFail, LiquidationBountyBps <= 2 * BPS_DENOM
  PROVE  DelegatedSpec => ImplementsCustody
<1>1. Spec => ImplementsCustody
  BY CustodyImplemented
<1>2. DelegatedSpec => Spec
  BY DelegationImplements DEF ImplementsExchange
<1> QED BY <1>1, <1>2

-----------------------------------------------------------------------------
(* What a delegated post writes to the session, as a step of its own. *)
Charged(t, n) ==
  /\ HasSession(t)
  /\ CanRecord(sessions[t], Charge(n))
  /\ sessions' = [sessions EXCEPT ![t] = RecordIntent(@, Charge(n))]

(* Recording an intent raises what was used by the charge, and nothing else. *)
LEMMA RecordEffect ==
  ASSUME NEW s \in Sessions, NEW atoms \in Nat
  PROVE  /\ RecordIntent(s, atoms) \in Sessions
         /\ RecordIntent(s, atoms).used = s.used + atoms
         /\ Terms(RecordIntent(s, atoms)) = Terms(s)
         /\ RecordIntent(s, atoms).cap = s.cap
         /\ RecordIntent(s, atoms).perIntent = s.perIntent
BY DEF RecordIntent, Sessions, Terms

(* Revoking a session changes nothing else of it. *)
LEMMA RevokeEffect ==
  ASSUME NEW s \in Sessions
  PROVE  LET r == [s EXCEPT !.revoked = TRUE]
         IN  /\ r \in Sessions
             /\ r.used = s.used
             /\ Terms(r) = Terms(s)
             /\ r.cap = s.cap
             /\ r.perIntent = s.perIntent
BY DEF Sessions, Terms

(* The four things that can happen to the sessions in a step. *)
LEMMA SessionSteps ==
  ASSUME [DelegatedNext]_delegatedVars
  PROVE  \/ UNCHANGED <<sessions, via>>
         \/ \E t \in Traders, d \in Delegates, expires \in Expirations,
               perIntent \in PerIntentInputs, cap \in CapInputs, allows \in AllowInputs :
              CreateSession(t, d, expires, perIntent, cap, allows)
         \/ \E t \in Traders : RevokeSession(t)
         \/ \E t \in Traders, n \in Contracts :
              /\ Charged(t, n)
              /\ via' = [via EXCEPT ![t] = @ \cup {nextId}]
<1>1. CASE Direct \/ UNCHANGED delegatedVars
  BY <1>1, Zenon DEF Direct, delegatedVars
<1>2. CASE Owning
  BY <1>2, Zenon DEF Owning
<1>3. ASSUME NEW d \in Delegates, NEW t \in Traders, NEW side \in Sides, NEW n \in Contracts,
             NEW price \in Prices, NEW expiration \in Expirations, NEW reentry \in ReentryInputs,
             PostIntentDelegated(d, t, side, n, price, expiration, reentry)
      PROVE  Charged(t, n) /\ via' = [via EXCEPT ![t] = @ \cup {nextId}]
  BY <1>3, Zenon DEF PostIntentDelegated, Authorizes, Charged
<1>4. ASSUME NEW d \in Delegates, NEW i \in book, CancelIntentDelegated(d, i)
      PROVE  UNCHANGED <<sessions, via>>
  BY <1>4, Zenon DEF CancelIntentDelegated
<1>5. CASE Delegating
  BY <1>3, <1>4, <1>5, Zenon DEF Delegating
<1> QED BY <1>1, <1>2, <1>5, Zenon DEF DelegatedNext

(* The charge of a post is a number. *)
LEMMA ChargeType == ASSUME NEW n \in Contracts PROVE Charge(n) \in Nat
<1>1. n \in Nat
  BY InputsAssumption, InstrumentAssumption
<1> QED BY <1>1, AmountTypes DEF Charge

(* Sessions are valid after a step if they were before. *)
LEMMA SessionsStep ==
  TypeInv /\ SessionsValid /\ [DelegatedNext]_delegatedVars => SessionsValid'
<1> SUFFICES ASSUME TypeInv, SessionsValid, [DelegatedNext]_delegatedVars PROVE SessionsValid'
  OBVIOUS
<1>1. CASE UNCHANGED <<sessions, via>>
  BY <1>1 DEF SessionsValid, HasSession
<1>2. ASSUME NEW t \in Traders, NEW d \in Delegates, NEW expires \in Expirations,
             NEW perIntent \in PerIntentInputs, NEW cap \in CapInputs, NEW allows \in AllowInputs,
             CreateSession(t, d, expires, perIntent, cap, allows)
      PROVE  SessionsValid'
  <2> DEFINE s == NewSession(d, expires, perIntent, cap, allows)
  <2>1. expires \in Nat
    BY InstrumentAssumption DEF Expirations
  <2>2. /\ s \in Sessions
        /\ s.perIntent = perIntent /\ s.cap = cap /\ s.used = 0
        /\ cap \in Nat
    BY <2>1, SessionAssumption DEF NewSession, Sessions
  <2>3. /\ perIntent <= cap
        /\ sessions' = [sessions EXCEPT ![t] = s]
        /\ via' = [via EXCEPT ![t] = {}]
    BY <1>2 DEF CreateSession
  <2> HIDE DEF s
  <2> QED BY <2>2, <2>3 DEF SessionsValid, HasSession
<1>3. ASSUME NEW t \in Traders, RevokeSession(t)
      PROVE  SessionsValid'
  <2> DEFINE r == [sessions[t] EXCEPT !.revoked = TRUE]
  <2>1. sessions[t] \in Sessions /\ HasSession(t)
    BY <1>3 DEF RevokeSession, SessionsValid, HasSession
  <2>2. /\ r \in Sessions
        /\ r.used = sessions[t].used
        /\ r.cap = sessions[t].cap
        /\ r.perIntent = sessions[t].perIntent
    BY <2>1, RevokeEffect
  <2>3. sessions' = [sessions EXCEPT ![t] = r] /\ UNCHANGED via
    BY <1>3 DEF RevokeSession
  <2> HIDE DEF r
  <2> QED BY <2>1, <2>2, <2>3 DEF SessionsValid, HasSession
<1>4. ASSUME NEW t \in Traders, NEW n \in Contracts, Charged(t, n),
             via' = [via EXCEPT ![t] = @ \cup {nextId}]
      PROVE  SessionsValid'
  <2> DEFINE r == RecordIntent(sessions[t], Charge(n))
  <2>1. sessions[t] \in Sessions
    BY <1>4 DEF Charged, SessionsValid, HasSession
  <2>2. /\ r \in Sessions
        /\ r.used = sessions[t].used + Charge(n)
        /\ r.cap = sessions[t].cap
        /\ r.perIntent = sessions[t].perIntent
    BY <2>1, ChargeType, RecordEffect
  <2>3. /\ sessions' = [sessions EXCEPT ![t] = r]
        /\ HasSession(t)
        /\ sessions[t].used + Charge(n) <= sessions[t].cap
    BY <1>4 DEF Charged, CanRecord
  <2>4. via' \in [Traders -> SUBSET Nat]
    BY <1>4 DEF SessionsValid, TypeInv, TypeOK
  <2> HIDE DEF r
  <2> QED BY <2>2, <2>3, <2>4 DEF SessionsValid, HasSession
<1> QED BY <1>1, <1>2, <1>3, <1>4, SessionSteps

(* Session accounts stay well-formed, and never charge more than their cap,   *)
(* whatever the order of posts, cancels, revocations and re-creations.        *)
THEOREM CapsRespected == DelegatedSpec => []SessionsValid
<1>1. DelegatedInit => SessionsValid
  BY DEF DelegatedInit, SessionsValid, HasSession
<1> QED BY <1>1, SessionsStep, DelegatedTypeInv, PTL DEF DelegatedSpec

(* The terms of an active session are fixed and its charges are never taken   *)
(* back: it must be dead before it can be replaced.                           *)
THEOREM ActiveSessionKept == DelegatedSpec => CountersKept
<1> DEFINE Kept(t) == /\ HasSession(t)'
                      /\ Terms(sessions'[t]) = Terms(sessions[t])
                      /\ sessions'[t].used >= sessions[t].used
           Step == \A t \in Traders : HasSession(t) /\ IsActive(sessions[t]) => Kept(t)
<1>1. SessionsValid /\ [DelegatedNext]_delegatedVars => [Step]_delegatedVars
  <2> SUFFICES ASSUME SessionsValid, [DelegatedNext]_delegatedVars,
                      NEW x \in Traders, HasSession(x), IsActive(sessions[x])
               PROVE  Kept(x)
    OBVIOUS
  <2>1. sessions[x] \in Sessions /\ sessions[x].used \in Nat
    BY DEF SessionsValid, HasSession, Sessions
  <2>2. CASE sessions'[x] = sessions[x]
    BY <2>1, <2>2 DEF HasSession
  <2>3. ASSUME NEW s \in Sessions, sessions'[x] = s,
               Terms(s) = Terms(sessions[x]), s.used >= sessions[x].used
        PROVE  Kept(x)
    BY <2>3, NoSessionAssumption DEF HasSession
  <2> HIDE DEF Kept
  <2>4. ASSUME NEW t \in Traders, NEW d \in Delegates, NEW expires \in Expirations,
               NEW perIntent \in PerIntentInputs, NEW cap \in CapInputs, NEW allows \in AllowInputs,
               CreateSession(t, d, expires, perIntent, cap, allows)
        PROVE  Kept(x)
    <3>1. t # x
      BY <2>4 DEF CreateSession, CanCreate
    <3>2. sessions'[x] = sessions[x]
      BY <2>4, <3>1 DEF CreateSession, SessionsValid
    <3> QED BY <2>2, <3>2
  <2>5. ASSUME NEW t \in Traders, RevokeSession(t)
        PROVE  Kept(x)
    <3>1. CASE t = x
      <4> DEFINE r == [sessions[x] EXCEPT !.revoked = TRUE]
      <4>1. r \in Sessions /\ r.used = sessions[x].used /\ Terms(r) = Terms(sessions[x])
        BY <2>1, RevokeEffect
      <4>2. sessions'[x] = r
        BY <2>5, <3>1 DEF RevokeSession, SessionsValid
      <4> HIDE DEF r
      <4> QED BY <2>1, <2>3, <4>1, <4>2
    <3>2. CASE t # x
      BY <2>2, <2>5, <3>2 DEF RevokeSession, SessionsValid
    <3> QED BY <3>1, <3>2
  <2>6. ASSUME NEW t \in Traders, NEW n \in Contracts, Charged(t, n)
        PROVE  Kept(x)
    <3>1. CASE t = x
      <4> DEFINE r == RecordIntent(sessions[x], Charge(n))
      <4>1. /\ r \in Sessions
            /\ r.used = sessions[x].used + Charge(n)
            /\ Terms(r) = Terms(sessions[x])
        BY <2>1, ChargeType, RecordEffect
      <4>2. sessions'[x] = r
        BY <2>6, <3>1 DEF Charged, SessionsValid
      <4>3. r.used >= sessions[x].used
        BY <2>1, <4>1, ChargeType
      <4> HIDE DEF r
      <4> QED BY <2>3, <4>1, <4>2, <4>3
    <3>2. CASE t # x
      BY <2>2, <2>6, <3>2 DEF Charged, SessionsValid
    <3> QED BY <3>1, <3>2
  <2> QED BY <2>2, <2>4, <2>5, <2>6, SessionSteps
<1> QED BY <1>1, CapsRespected, PTL DEF DelegatedSpec, CountersKept

-----------------------------------------------------------------------------
(* What the resting intents of a session hold *)

(* Those of t whose ids are among the given ones. *)
From(bk, t, ids) == {i \in bk : i.owner = t /\ i.id \in ids}

(* j is i, or what fills have left of it. *)
Descends(j, i) == j.id = i.id /\ j.owner = i.owner /\ Escrow(j) <= Escrow(i)

(* Intents that descend from others, each from one of its own, hold no more. *)
LEMMA EscrowDescends ==
  ASSUME NEW S \in SUBSET Intents, NEW T \in SUBSET Intents, IsFiniteSet(T),
         \A i, j \in S : i.id = j.id => i = j,
         \A j \in S : \E i \in T : Descends(j, i)
  PROVE  EscrowOf(S) <= EscrowOf(T)
<1> DEFINE f == [j \in S |-> CHOOSE i \in T : Descends(j, i)]
           v == [i \in S |-> Escrow(i)]
           w == [i \in T |-> Escrow(i)]
<1>1. \A j \in S : f[j] \in T /\ Descends(j, f[j])
  OBVIOUS
<1>2. f \in [S -> T]
  BY <1>1
<1>3. \A i \in Intents : Escrow(i) \in Nat
  BY DEF Escrow, Intents
<1>4. \A x, y \in S : f[x] = f[y] => x = y
  BY <1>1 DEF Descends
<1>5. \A x \in T : w[x] \in Nat
  BY <1>3
<1>6. \A x \in S : v[x] \in Nat /\ v[x] <= w[f[x]]
  BY <1>1, <1>3 DEF Descends
<1>7. EscrowOf(S) = Total(S, v) /\ EscrowOf(T) = Total(T, w)
  BY DEF EscrowOf
<1> HIDE DEF f, v, w
<1>8. Total(S, v) <= Total(T, w)
  BY <1>2, <1>4, <1>5, <1>6, TotalInjects
<1> QED BY <1>7, <1>8

(* Every intent of the new book descends from one of bk. *)
LEMMA BookDescends ==
  ASSUME NEW bk \in SUBSET Intents, BecomesOrFills(bk)
  PROVE  \A j \in book' : \E i \in bk : Descends(j, i)
<1>1. \A i \in bk : Escrow(i) \in Nat /\ Descends(i, i)
  BY DEF Escrow, Intents, Descends
<1>2. ASSUME NEW i \in bk, CanFill(i) PROVE Descends(Fill(i), i)
  <2>1. /\ Fill(i).id = i.id /\ Fill(i).owner = i.owner
        /\ Fill(i).reserved = i.reserved - Bucket
        /\ Fill(i).feeBuffer = i.feeBuffer - FeeRelease(i)
    BY <1>2, FillType
  <2>2. i.remaining # 0
    BY <1>2 DEF CanFill, Live
  <2>3. FeeRelease(i) \in Nat /\ Bucket \in Nat /\ i.reserved \in Nat /\ i.feeBuffer \in Nat
    BY <2>2, FeeReleaseType, InstrumentAssumption DEF Intents
  <2>4. Escrow(Fill(i)) <= Escrow(i)
    BY <2>1, <2>3 DEF Escrow
  <2> QED BY <2>1, <2>4 DEF Descends
<1>3. CASE book' = bk
  BY <1>1, <1>3
<1>4. ASSUME NEW l \in bk, NEW s \in bk, CanFill(l), CanFill(s), book' = FilledBook(bk, l, s)
      PROVE  \A j \in book' : \E i \in bk : Descends(j, i)
  <2>1. book' \subseteq bk \cup {Fill(l), Fill(s)}
    BY <1>4 DEF FilledBook
  <2>2. Descends(Fill(l), l) /\ Descends(Fill(s), s)
    BY <1>2, <1>4
  <2> QED BY <1>1, <2>1, <2>2, Zenon
<1> QED BY <1>3, <1>4 DEF BecomesOrFills

(* The part of a finite book is finite. *)
LEMMA FromType ==
  ASSUME NEW bk \in SUBSET Intents, IsFiniteSet(bk), NEW t, NEW ids
  PROVE  /\ From(bk, t, ids) \in SUBSET Intents /\ IsFiniteSet(From(bk, t, ids))
         /\ EscrowOf(From(bk, t, ids)) \in Nat
<1>1. From(bk, t, ids) \in SUBSET bk /\ From(bk, t, ids) \in SUBSET Intents
  BY DEF From
<1>2. IsFiniteSet(From(bk, t, ids))
  BY <1>1, FS_Subset
<1> QED BY <1>1, <1>2, EscrowType

(* A session's part of the new book holds no more than its part of bk. *)
LEMMA FromDescends ==
  ASSUME NEW bk \in SUBSET Intents, IsFiniteSet(bk), BecomesOrFills(bk),
         LedgerInv', NEW t, NEW ids
  PROVE  /\ EscrowOf(From(book', t, ids)) <= EscrowOf(From(bk, t, ids))
         /\ EscrowOf(From(book', t, ids)) \in Nat /\ EscrowOf(From(bk, t, ids)) \in Nat
<1> DEFINE bn == book'
           S == From(bn, t, ids)
           T == From(bk, t, ids)
<1>1. bn \in SUBSET Intents /\ IsFiniteSet(bn) /\ \A i, j \in bn : i.id = j.id => i = j
  BY DEF LedgerInv, TypeInv, TypeOK, IdsUnique
<1>2. \A j \in bn : \E i \in bk : Descends(j, i)
  BY BookDescends
<1> HIDE DEF bn
<1>3. \A i, j \in S : i.id = j.id => i = j
  BY <1>1 DEF From
<1>4. /\ S \in SUBSET Intents /\ T \in SUBSET Intents /\ IsFiniteSet(T)
      /\ EscrowOf(S) \in Nat /\ EscrowOf(T) \in Nat
  BY <1>1, FromType
<1>5. \A j \in S : \E i \in T : Descends(j, i)
  BY <1>2 DEF From, Descends
<1> HIDE DEF S, T
<1>6. EscrowOf(S) <= EscrowOf(T)
  BY <1>3, <1>4, <1>5, EscrowDescends
<1> QED BY <1>4, <1>6 DEF S, T, bn

(* A part of a set of intents holds no more than the set. *)
LEMMA EscrowSubset ==
  ASSUME NEW S \in SUBSET Intents, IsFiniteSet(S), NEW P \in SUBSET S
  PROVE  EscrowOf(P) <= EscrowOf(S)
<1>1. P \in SUBSET Intents /\ IsFiniteSet(P) /\ S \ P \in SUBSET Intents /\ IsFiniteSet(S \ P)
  BY FS_Subset
<1>2. EscrowOf(P) \in Nat /\ EscrowOf(S \ P) \in Nat /\ EscrowOf(S) \in Nat
  BY <1>1, EscrowType
<1>3. EscrowOf(S) = EscrowOf(P) + EscrowOf(S \ P)
  BY EscrowSplit
<1> QED BY <1>2, <1>3

(* What the intents of t with these ids hold does not grow. *)
Shrinks(t, ids) ==
  /\ EscrowOf(From(book', t, ids)) \in Nat
  /\ EscrowOf(From(book, t, ids)) \in Nat
  /\ EscrowOf(From(book', t, ids)) <= EscrowOf(From(book, t, ids))

(* Intents that leave the book or are filled hold less. *)
LEMMA ShrinksByFills ==
  ASSUME LedgerInv, LedgerInv', NEW bk \in SUBSET Intents, IsFiniteSet(bk), BecomesOrFills(bk),
         NEW t, NEW ids, From(bk, t, ids) \subseteq book
  PROVE  Shrinks(t, ids)
<1>1. book \in SUBSET Intents /\ IsFiniteSet(book)
  BY DEF LedgerInv, TypeInv, TypeOK
<1> DEFINE a == EscrowOf(From(book', t, ids))
           P == From(bk, t, ids)
           S == From(book, t, ids)
<1>2. a \in Nat /\ EscrowOf(P) \in Nat /\ a <= EscrowOf(P)
  BY FromDescends
<1>3. P \in SUBSET S
  BY DEF From
<1>4. S \in SUBSET Intents /\ IsFiniteSet(S) /\ EscrowOf(S) \in Nat
  BY <1>1, FromType
<1> HIDE DEF a, P, S
<1>5. EscrowOf(P) <= EscrowOf(S)
  BY <1>3, <1>4, EscrowSubset
<1>6. a \in Nat /\ EscrowOf(S) \in Nat /\ a <= EscrowOf(S)
  BY <1>2, <1>4, <1>5
<1> QED BY <1>6 DEF a, S, Shrinks

(* Unless their ids are among the new ones, intents hold no more after a step. *)
LEMMA ExposureShrinks ==
  ASSUME LedgerInv, LedgerInv', [Next]_vars, NEW t, NEW ids, nextId \notin ids
  PROVE  Shrinks(t, ids)
<1>1. book \in SUBSET Intents /\ IsFiniteSet(book) /\ TypeInv
  BY DEF LedgerInv, TypeInv, TypeOK
<1>2. ASSUME NEW rest \in SUBSET book, BecomesOrFills(rest) PROVE Shrinks(t, ids)
  <2>1. rest \in SUBSET Intents /\ IsFiniteSet(rest) /\ From(rest, t, ids) \subseteq book
    BY <1>1, FS_Subset DEF From
  <2> QED BY <1>2, <2>1, ShrinksByFills
<1>3. ASSUME NEW rest \in SUBSET book, NEW u, NEW n, NEW i \in Intents, Fresh(i, u, n),
             BecomesOrFills(rest \cup {i})
      PROVE  Shrinks(t, ids)
  <2> DEFINE bk == rest \cup {i}
  <2>1. IsFiniteSet(rest)
    BY <1>1, FS_Subset
  <2>2. bk \in SUBSET Intents /\ IsFiniteSet(bk) /\ From(bk, t, ids) \subseteq book
    BY <1>1, <1>3, <2>1, FS_AddElement DEF From, Fresh
  <2> HIDE DEF bk
  <2>3. BecomesOrFills(bk)
    BY <1>3 DEF bk
  <2> QED BY <2>2, <2>3, ShrinksByFills
<1> QED BY <1>1, <1>2, <1>3, BookForms

(* A post for n contracts adds at most what it pays for them. *)
Grows(t, ids, n) ==
  /\ EscrowOf(From(book', t, ids \cup {nextId})) \in Nat
  /\ EscrowOf(From(book, t, ids)) \in Nat
  /\ EscrowOf(From(book', t, ids \cup {nextId})) <= EscrowOf(From(book, t, ids)) + Outlay(n)

(* So does any post, whether its intent rests or is filled at once. *)
LEMMA ExposureGrows ==
  ASSUME LedgerInv, LedgerInv', NEW t, NEW n \in Nat, NEW ids, NEW rest \in SUBSET book,
         NEW i \in Intents, Fresh(i, t, n), BecomesOrFills(rest \cup {i})
  PROVE  Grows(t, ids, n)
<1> DEFINE bk == rest \cup {i}
           more == ids \cup {nextId}
           a == EscrowOf(From(book', t, more))
           P == From(bk, t, more)
           S == From(book, t, ids)
           T == S \cup {i}
<1>1. book \in SUBSET Intents /\ IsFiniteSet(book) /\ \A j \in book : j.id < nextId
  BY DEF LedgerInv, TypeInv, TypeOK, IdsUnique
<1>2. nextId \in Nat
  BY DEF LedgerInv, TypeInv, TypeOK
<1>3. IsFiniteSet(rest)
  BY <1>1, FS_Subset
<1>4. bk \in SUBSET Intents /\ IsFiniteSet(bk)
  BY <1>1, <1>3, FS_AddElement
<1>5. a \in Nat /\ EscrowOf(P) \in Nat /\ a <= EscrowOf(P)
  <2> HIDE DEF more
  <2>1. BecomesOrFills(bk)
    OBVIOUS
  <2> HIDE DEF bk
  <2> QED BY <1>4, <2>1, FromDescends
<1>6. i \notin book /\ \A j \in book : j.id # nextId
  BY <1>1, <1>2 DEF Fresh, Intents
<1>7. P \in SUBSET T /\ i \notin S
  BY <1>6 DEF From, Fresh
<1>8. S \in SUBSET Intents /\ IsFiniteSet(S) /\ EscrowOf(S) \in Nat
  BY <1>1, FromType
<1>9. T \in SUBSET Intents /\ IsFiniteSet(T) /\ {i} \in SUBSET T /\ T \ {i} = S
  <2> HIDE DEF S
  <2> QED BY <1>7, <1>8, FS_AddElement
<1>10. EscrowOf({i}) = Outlay(n)
  <2>1. Escrow(i) \in Nat /\ Escrow(i) = Outlay(n)
    BY DEF Escrow, Outlay, Fresh, Intents
  <2> DEFINE w == [j \in {i} |-> Escrow(j)]
  <2>2. w[i] = Escrow(i) /\ EscrowOf({i}) = Total({i}, w)
    BY DEF EscrowOf
  <2> HIDE DEF w
  <2> QED BY <2>1, <2>2, TotalSingle
<1> HIDE DEF a, P, S, T
<1>11. EscrowOf(T) = EscrowOf({i}) + EscrowOf(S) /\ EscrowOf(P) <= EscrowOf(T)
  BY <1>7, <1>9, EscrowSplit, EscrowSubset
<1>12. Outlay(n) \in Nat
  BY AmountTypes
<1>13. a \in Nat /\ EscrowOf(S) \in Nat /\ a <= EscrowOf(S) + Outlay(n)
  BY <1>5, <1>8, <1>10, <1>11, <1>12
<1> QED BY <1>13 DEF a, S, more, Grows

-----------------------------------------------------------------------------
(* A session is charged for what it posts *)

(* Ids are handed out in order. *)
LEMMA IdsGrow ==
  ASSUME TypeInv, [Next]_vars
  PROVE  nextId' \in Nat /\ nextId <= nextId'
<1>1. nextId \in Nat
  BY DEF TypeInv, TypeOK
<1>2. ASSUME nextId' \in {nextId, nextId + 1, nextId + 2}
      PROVE  nextId' \in Nat /\ nextId <= nextId'
  BY <1>1, <1>2
<1>a. CASE Accounts
  BY <1>2, <1>a DEF Accounts, CreateMarginAccount, Deposit, Withdraw, SweepFees, orders
<1>b. CASE Leaving
  BY <1>2, <1>b DEF Leaving, CancelIntent, PruneExpired
<1>c. CASE Settling
  BY <1>2, <1>c DEF Settling, Liquidate, Resolve, CloseMutual, orders
<1>d. CASE Transferring
  BY <1>2, <1>d DEF Transferring, Novate, Substitute, orders
<1>e. CASE Administering \/ UNCHANGED vars
  BY <1>2, <1>e DEF Administering, SetGlobalPause, SetInstrumentStatus, Tick, vars, orders
<1>4. CASE Posting
  <2>1. PICK t \in Traders, n \in Nat, pruned \in SUBSET book, i \in Intents :
          Rests(t, n, pruned, i) \/ IsMatched(t, n, pruned, i) \/ IsLost(t, n, pruned, i)
    BY <1>4, PostingForms
  <2>2. nextId' \in {nextId + 1, nextId + 1 + 1, nextId + 2}
    BY <2>1 DEF Rests, IsMatched, IsLost, MatchPairCore
  <2> QED BY <1>1, <1>2, <2>2
<1>5. CASE Matching
  BY <1>2, <1>5 DEF Matching, MatchPair, MatchBestAvailable, MatchPairCore
<1>6. CASE Ending
  BY <1>2, <1>6 DEF Ending, ClosePmlc, ClaimReentry, ClaimReentryUnfunded, orders
<1> QED BY <1>a, <1>b, <1>c, <1>d, <1>e, <1>4, <1>5, <1>6 DEF Next

(* A post of t for n contracts, in any of the three forms. *)
PostsFor(t, n) ==
  \E pruned \in SUBSET book, i \in Intents :
    /\ PostFrame(t, n, pruned, i)
    /\ Rests(t, n, pruned, i) \/ IsMatched(t, n, pruned, i) \/ IsLost(t, n, pruned, i)

(* The delegate's post is one. *)
LEMMA DelegatedPost ==
  ASSUME TypeInv, NEW d, NEW t \in Traders, NEW side \in Sides, NEW n \in Contracts,
         NEW price \in Prices, NEW expiration \in Expirations, NEW reentry \in ReentryInputs,
         PostIntentDelegated(d, t, side, n, price, expiration, reentry)
  PROVE  PostsFor(t, n)
<1>1. \/ PostIntent(t, side, n, price, expiration, reentry)
      \/ \E bps \in InlineBps : PostIntentMatched(t, side, n, price, expiration, reentry, bps)
      \/ \E bps \in InlineBps : PostIntentMatchFailed(t, side, n, price, expiration, reentry, bps)
  BY Zenon DEF PostIntentDelegated
<1> QED BY <1>1, PostForm DEF PostsFor

(* Its intent takes the next id. *)
LEMMA PostsIds ==
  ASSUME TypeInv, NEW t \in Traders, NEW n \in Nat, PostsFor(t, n)
  PROVE  /\ nextId < nextId'
         /\ \E rest \in SUBSET book, i \in Intents :
              Fresh(i, t, n) /\ BecomesOrFills(rest \cup {i})
<1>1. PICK pruned \in SUBSET book, i \in Intents :
        /\ PostFrame(t, n, pruned, i)
        /\ Rests(t, n, pruned, i) \/ IsMatched(t, n, pruned, i) \/ IsLost(t, n, pruned, i)
  BY DEF PostsFor
<1>2. nextId \in Nat
  BY DEF TypeInv, TypeOK
<1>3. nextId' \in {nextId + 1, nextId + 1 + 1, nextId + 2}
  BY <1>1 DEF Rests, IsMatched, IsLost, MatchPairCore
<1>4. nextId < nextId'
  BY <1>2, <1>3
<1>5. Fresh(i, t, n) /\ BecomesOrFills((book \ pruned) \cup {i})
  BY <1>1, PostBook
<1>6. book \ pruned \in SUBSET book
  OBVIOUS
<1> QED BY <1>4, <1>5, <1>6, Zenon

(* The four things that can happen, with what they do to the exchange. *)
LEMMA ExposureSteps ==
  ASSUME TypeInv, [DelegatedNext]_delegatedVars
  PROVE  \/ UNCHANGED <<sessions, via>>
         \/ /\ UNCHANGED vars
            /\ \E t \in Traders, d \in Delegates, expires \in Expirations,
                  perIntent \in PerIntentInputs, cap \in CapInputs, allows \in AllowInputs :
                 CreateSession(t, d, expires, perIntent, cap, allows)
         \/ UNCHANGED vars /\ \E t \in Traders : RevokeSession(t)
         \/ \E t \in Traders, n \in Contracts :
              /\ Charged(t, n)
              /\ via' = [via EXCEPT ![t] = @ \cup {nextId}]
              /\ PostsFor(t, n)
<1>1. CASE Direct \/ UNCHANGED delegatedVars
  BY <1>1, Zenon DEF Direct, delegatedVars
<1>2. CASE Owning
  BY <1>2, Zenon DEF Owning, CreateSession, RevokeSession
<1>3. ASSUME NEW d \in Delegates, NEW t \in Traders, NEW side \in Sides, NEW n \in Contracts,
             NEW price \in Prices, NEW expiration \in Expirations, NEW reentry \in ReentryInputs,
             PostIntentDelegated(d, t, side, n, price, expiration, reentry)
      PROVE  Charged(t, n) /\ via' = [via EXCEPT ![t] = @ \cup {nextId}] /\ PostsFor(t, n)
  <2>1. PostsFor(t, n)
    BY <1>3, DelegatedPost
  <2> QED BY <1>3, <2>1, Zenon DEF PostIntentDelegated, Authorizes, Charged
<1>4. ASSUME NEW d \in Delegates, NEW i \in book, CancelIntentDelegated(d, i)
      PROVE  UNCHANGED <<sessions, via>>
  BY <1>4, Zenon DEF CancelIntentDelegated
<1>5. CASE Delegating
  BY <1>3, <1>4, <1>5, Zenon DEF Delegating
<1> QED BY <1>1, <1>2, <1>5, Zenon DEF DelegatedNext

(* The ids that a session has posted were handed out before. *)
PostedInPast == \A t \in Traders : \A id \in via[t] : id < nextId

(* The inductive invariant: ids not yet handed out are in no session's record, *)
(* so that what others post is never taken for the delegate's.                 *)
ExposureInv == LedgerInv /\ SessionsValid /\ PostedInPast /\ ExposureCharged

(* The record of ids stays in the past. *)
LEMMA PastStep ==
  ASSUME TypeInv, SessionsValid, PostedInPast, [DelegatedNext]_delegatedVars
  PROVE  PostedInPast'
<1>1. [Next]_vars
  BY StepImplements
<1> DEFINE m == nextId'
<1>2. nextId \in Nat /\ m \in Nat /\ nextId <= m /\ \A t \in Traders : via[t] \subseteq Nat
  BY <1>1, IdsGrow DEF TypeInv, TypeOK, SessionsValid
<1>3. ASSUME \A t \in Traders : via'[t] \subseteq via[t] PROVE PostedInPast'
  <2>1. \A t \in Traders : \A id \in via'[t] : id \in Nat /\ id < nextId
    BY <1>2, <1>3 DEF PostedInPast
  <2> HIDE DEF m
  <2>2. \A t \in Traders : \A id \in via'[t] : id < m
    BY <1>2, <2>1
  <2> QED BY <2>2 DEF PostedInPast, m
<1>4. CASE UNCHANGED <<sessions, via>>
  BY <1>3, <1>4
<1>5. ASSUME NEW u \in Traders, NEW d \in Delegates, NEW expires \in Expirations,
             NEW perIntent \in PerIntentInputs, NEW cap \in CapInputs, NEW allows \in AllowInputs,
             CreateSession(u, d, expires, perIntent, cap, allows)
      PROVE  PostedInPast'
  BY <1>3, <1>5 DEF CreateSession, SessionsValid
<1>6. ASSUME NEW u \in Traders, RevokeSession(u)
      PROVE  PostedInPast'
  BY <1>3, <1>6 DEF RevokeSession
<1>7. ASSUME NEW u \in Traders, NEW n \in Contracts, PostsFor(u, n),
             via' = [via EXCEPT ![u] = @ \cup {nextId}]
      PROVE  PostedInPast'
  <2>1. nextId < m
    <3>1. n \in Nat
      BY InputsAssumption, InstrumentAssumption
    <3> QED BY <1>7, <3>1, PostsIds
  <2>2. \A t \in Traders : via'[t] \subseteq via[t] \cup {nextId}
    BY <1>7 DEF SessionsValid
  <2>3. \A t \in Traders : \A id \in via'[t] : id \in Nat /\ id <= nextId
    BY <1>2, <2>2 DEF PostedInPast
  <2> HIDE DEF m
  <2>4. \A t \in Traders : \A id \in via'[t] : id < m
    BY <1>2, <2>1, <2>3
  <2> QED BY <2>4 DEF PostedInPast, m
<1> QED BY <1>4, <1>5, <1>6, <1>7, ExposureSteps

(* What a session's resting intents hold, against what it was charged. *)
WithinCharge(bk, ids, t, s) == EscrowOf(From(bk, t, ids)) <= s.used

(* ExposureCharged, session by session. *)
LEMMA ExposureMeans ==
  ExposureCharged <=> \A t \in Traders : HasSession(t) =>
                        WithinCharge(book, via[t], t, sessions[t])
BY DEF ExposureCharged, WithinCharge, From, PostedBy

(* A step keeps the exposure of every session within its charge. *)
LEMMA ExposureStep ==
  ASSUME ExposureInv, LedgerInv', SessionsValid', [DelegatedNext]_delegatedVars,
         NEW t \in Traders, HasSession(t)'
  PROVE  WithinCharge(book', via'[t], t, sessions'[t])
<1>t. TypeInv /\ LedgerInv /\ SessionsValid /\ nextId \in Nat
  BY DEF ExposureInv, LedgerInv, TypeInv, TypeOK
<1>1. [Next]_vars
  BY <1>t, StepImplements
<1>2. nextId \notin via[t]
  BY <1>t DEF ExposureInv, PostedInPast
<1>3. Shrinks(t, via[t])
  BY <1>t, <1>1, <1>2, ExposureShrinks
<1>4. ASSUME HasSession(t) PROVE WithinCharge(book, via[t], t, sessions[t])
                                  /\ sessions[t] \in Sessions /\ sessions[t].used \in Nat
  BY <1>4, <1>t, ExposureMeans DEF ExposureInv, SessionsValid, HasSession, Sessions
<1>5. ASSUME HasSession(t), sessions'[t].used = sessions[t].used, via'[t] = via[t]
      PROVE  WithinCharge(book', via'[t], t, sessions'[t])
  <2> DEFINE a == EscrowOf(From(book', t, via[t]))
             b == EscrowOf(From(book, t, via[t]))
             r == sessions'[t].used
             q == sessions[t].used
  <2>1. a \in Nat /\ b \in Nat /\ a <= b /\ q \in Nat /\ r = q /\ b <= q
    BY <1>3, <1>4, <1>5 DEF Shrinks, WithinCharge
  <2> HIDE DEF a, b, r, q
  <2>2. a <= r
    BY <2>1
  <2> QED BY <1>5, <2>2 DEF a, r, WithinCharge
<1>6. CASE UNCHANGED <<sessions, via>>
  BY <1>5, <1>6 DEF HasSession
<1>7. ASSUME NEW u \in Traders, NEW d \in Delegates, NEW expires \in Expirations,
             NEW perIntent \in PerIntentInputs, NEW cap \in CapInputs, NEW allows \in AllowInputs,
             CreateSession(u, d, expires, perIntent, cap, allows)
      PROVE  WithinCharge(book', via'[t], t, sessions'[t])
  <2>1. CASE u = t
    <3>1. via'[t] = {} /\ sessions'[t] = NewSession(d, expires, perIntent, cap, allows)
      BY <1>7, <1>t, <2>1 DEF CreateSession, SessionsValid
    <3>2. sessions'[t].used = 0
      BY <3>1 DEF NewSession
    <3>3. From(book', t, {}) = {}
      BY DEF From
    <3>4. EscrowOf({}) = 0
      BY TotalEmpty DEF EscrowOf
    <3> QED BY <3>1, <3>2, <3>3, <3>4 DEF WithinCharge
  <2>2. CASE u # t
    <3>1. via'[t] = via[t] /\ sessions'[t] = sessions[t]
      BY <1>7, <1>t, <2>2 DEF CreateSession, SessionsValid
    <3> QED BY <1>5, <3>1 DEF HasSession
  <2> QED BY <2>1, <2>2
<1>8. ASSUME NEW u \in Traders, RevokeSession(u)
      PROVE  WithinCharge(book', via'[t], t, sessions'[t])
  <2>1. via'[t] = via[t] /\ HasSession(u)
    BY <1>8 DEF RevokeSession
  <2>2. CASE u = t
    <3>1. sessions[t] \in Sessions
      BY <1>4, <2>1, <2>2
    <3>2. sessions'[t] = [sessions[t] EXCEPT !.revoked = TRUE]
      BY <1>8, <1>t, <2>2 DEF RevokeSession, SessionsValid
    <3>3. sessions'[t].used = sessions[t].used
      BY <3>1, <3>2, RevokeEffect
    <3> QED BY <1>5, <2>1, <2>2, <3>3
  <2>3. CASE u # t
    <3>1. sessions'[t] = sessions[t]
      BY <1>8, <1>t, <2>3 DEF RevokeSession, SessionsValid
    <3> QED BY <1>5, <2>1, <3>1 DEF HasSession
  <2> QED BY <2>2, <2>3
<1>9. ASSUME NEW u \in Traders, NEW n \in Contracts, Charged(u, n), PostsFor(u, n),
             via' = [via EXCEPT ![u] = @ \cup {nextId}]
      PROVE  WithinCharge(book', via'[t], t, sessions'[t])
  <2>1. CASE u = t
    <3>1. n \in Nat
      BY InputsAssumption, InstrumentAssumption
    <3>2. PICK rest \in SUBSET book, i \in Intents :
            Fresh(i, t, n) /\ BecomesOrFills(rest \cup {i})
      BY <1>t, <1>9, <2>1, <3>1, PostsIds
    <3>3. Grows(t, via[t], n)
      BY <1>t, <3>1, <3>2, ExposureGrows
    <3>4. HasSession(t) /\ sessions[t] \in Sessions
      BY <1>4, <1>9, <2>1 DEF Charged
    <3>5. sessions'[t] = RecordIntent(sessions[t], Charge(n)) /\ via'[t] = via[t] \cup {nextId}
      BY <1>9, <1>t, <2>1 DEF Charged, SessionsValid
    <3>6. sessions'[t].used = sessions[t].used + Charge(n)
      BY <3>4, <3>5, ChargeType, RecordEffect
    <3> DEFINE a == EscrowOf(From(book', t, via[t] \cup {nextId}))
               b == EscrowOf(From(book, t, via[t]))
               r == sessions'[t].used
               q == sessions[t].used
               c == Charge(n)
    <3>7. /\ a \in Nat /\ b \in Nat /\ a <= b + c /\ q \in Nat /\ r = q + c /\ b <= q
          /\ c \in Nat
      BY <1>4, <3>3, <3>4, <3>6, ChargeType DEF Grows, WithinCharge, Charge
    <3> HIDE DEF a, b, r, q, c
    <3>8. a <= r
      BY <3>7
    <3> QED BY <3>5, <3>8 DEF a, r, WithinCharge
  <2>2. CASE u # t
    <3>1. via'[t] = via[t] /\ sessions'[t] = sessions[t]
      BY <1>9, <1>t, <2>2 DEF Charged, SessionsValid
    <3> QED BY <1>5, <3>1 DEF HasSession
  <2> QED BY <2>1, <2>2
<1> QED BY <1>t, <1>6, <1>7, <1>8, <1>9, ExposureSteps

(* The resting intents of a session never hold more than it was charged,      *)
(* whatever was filled, cancelled, pruned, lost in a failed inline match or   *)
(* posted by the owner itself in between, and through every re-creation.      *)
THEOREM SessionsExposure == DelegatedSpec => []ExposureCharged
<1>1. DelegatedInit => ExposureInv
  <2> SUFFICES ASSUME DelegatedInit PROVE ExposureInv
    OBVIOUS
  <2>1. LedgerInv
    BY LedgerInit DEF DelegatedInit
  <2> QED BY <2>1 DEF DelegatedInit, ExposureInv, SessionsValid, PostedInPast, ExposureCharged,
              HasSession
<1>2. ExposureInv /\ [DelegatedNext]_delegatedVars => ExposureInv'
  <2> SUFFICES ASSUME ExposureInv, [DelegatedNext]_delegatedVars PROVE ExposureInv'
    OBVIOUS
  <2>1. LedgerInv /\ TypeInv /\ SessionsValid /\ PostedInPast
    BY DEF ExposureInv, LedgerInv
  <2>2. LedgerInv'
    BY <2>1, StepImplements, LedgerStep
  <2>3. SessionsValid' /\ PostedInPast'
    BY <2>1, SessionsStep, PastStep
  <2>4. ExposureCharged'
    BY <2>2, <2>3, ExposureStep DEF ExposureCharged, WithinCharge, From, PostedBy
  <2> QED BY <2>2, <2>3, <2>4 DEF ExposureInv
<1>3. ExposureInv => ExposureCharged
  BY DEF ExposureInv
<1> QED BY <1>1, <1>2, <1>3, PTL DEF DelegatedSpec

-----------------------------------------------------------------------------
(* What a delegated post takes from its owner *)

(* A leg takes at most its fee from free collateral: the part of the buffer   *)
(* that it releases goes back to the owner.                                   *)
LEMMA LegFree ==
  ASSUME NEW mg \in Drafts, NEW i \in Intents, i.remaining # 0,
         NEW fee \in Nat, NEW u \in Traders
  PROVE  /\ Leg(mg, i, fee) \in Drafts
         /\ mg[u].free \in Int
         /\ Leg(mg, i, fee)[u].free \in Int
         /\ Leg(mg, i, fee)[u].free >= mg[u].free - fee
<1> DEFINE x == FeeRelease(i)
           a == Leg(mg, i, fee)
<1>1. x \in Nat
  BY FeeReleaseType
<1>2. a \in Drafts /\ a[u].free = mg[u].free + At(u, i.owner, x - fee) /\ mg[u].free \in Int
  BY LegAt
<1> HIDE DEF x, a
<1>3. At(u, i.owner, x - fee) \in Int /\ At(u, i.owner, x - fee) >= 0 - fee
  BY <1>1 DEF At
<1>4. a[u].free \in Int /\ a[u].free >= mg[u].free - fee
  BY <1>2, <1>3
<1> QED BY <1>2, <1>4 DEF a

(* A match takes at most the taker's fee, which the treasury gets, whoever of *)
(* the two traders it is: also of a trader that matches its own intents.      *)
LEMMA MatchFree ==
  ASSUME NEW mg \in Drafts, NEW bk \in SUBSET Intents, NEW id \in Nat,
         NEW l \in bk, NEW s \in bk, NEW bps \in MatchBps, accrued \in Nat,
         MatchPairCore(mg, bk, id, l, s, bps), NEW u \in Traders
  PROVE  /\ mg[u].free \in Int
         /\ margin'[u].free \in Int
         /\ accrued' \in Nat
         /\ mg[u].free - margin'[u].free <= accrued' - accrued
<1> DEFINE fl == FeeOf(l, s, bps)
           fs == FeeOf(s, l, bps)
           fee == TakerFee(bps)
           al == Leg(mg, l, fl)
           mn == margin'
           an == accrued'
<1>1. mn = Leg(al, s, fs) /\ an = accrued + fee
  BY DEF MatchPairCore, AfterBoth, AfterLong
<1>2. l.remaining # 0 /\ s.remaining # 0
  BY DEF MatchPairCore, CanCross, CanFill, Live
<1>3. fee \in Nat /\ fl \in Nat /\ fs \in Nat
  BY AmountTypes, FeeOfType
<1>4. fl + fs <= fee
  <2>1. l.seq \in Nat /\ s.seq \in Nat
    BY DEF Intents
  <2> QED BY <1>3, <2>1 DEF FeeOf
<1> HIDE DEF fl, fs, fee, mn, an
<1>5. /\ al \in Drafts /\ mg[u].free \in Int /\ al[u].free \in Int
      /\ al[u].free >= mg[u].free - fl
  BY <1>2, <1>3, LegFree
<1> HIDE DEF al
<1>6. mn[u].free \in Int /\ mn[u].free >= al[u].free - fs
  BY <1>1, <1>2, <1>3, <1>5, LegFree
<1>7. mg[u].free - mn[u].free <= an - accrued /\ an \in Nat
  BY <1>1, <1>3, <1>4, <1>5, <1>6
<1> QED BY <1>5, <1>6, <1>7 DEF mn, an

(* A post pays for its intent out of what its owner has, with what the pruned *)
(* intents give back.                                                         *)
LEMMA PostFree ==
  ASSUME margin \in Drafts, NEW t \in Traders, NEW n \in Nat, NEW pruned, EscrowOf(pruned) \in Nat
  PROVE  /\ PostMargin(t, n, pruned)[t].free = margin[t].free + (EscrowOf(pruned) - Outlay(n))
         /\ margin[t].free \in Int
<1> DEFINE esc == EscrowOf(pruned)
           out == Outlay(n)
<1>1. out \in Nat
  BY AmountTypes
<1>2. PostMargin(t, n, pruned) = Adjust(margin, t, esc - out, out - esc, 0)
  BY DEF PostMargin
<1> HIDE DEF esc, out
<1>3. esc \in Nat
  BY DEF esc
<1>4. esc - out \in Int /\ out - esc \in Int /\ 0 \in Int
  BY <1>1, <1>3
<1>5. /\ Adjust(margin, t, esc - out, out - esc, 0)[t].free
           = margin[t].free + At(t, t, esc - out)
      /\ margin[t].free \in Int
  BY <1>4, AdjustAt
<1> QED BY <1>2, <1>5 DEF At, esc, out

(* A post takes at most its outlay and the fee that the treasury gets of it,  *)
(* whether its intent rests, is matched or is lost.                           *)
LEMMA PostDebit ==
  ASSUME LedgerInv, NEW t \in Traders, NEW n \in Nat, PostsFor(t, n)
  PROVE  /\ margin[t].free - margin'[t].free <= Outlay(n) + (accrued' - accrued)
         /\ accrued' - accrued \in Int
<1>1. PICK pruned \in SUBSET book, i \in Intents :
        /\ PostFrame(t, n, pruned, i)
        /\ Rests(t, n, pruned, i) \/ IsMatched(t, n, pruned, i) \/ IsLost(t, n, pruned, i)
  BY DEF PostsFor
<1> DEFINE mg == PostMargin(t, n, pruned)
           bk == Posted(pruned, i)
           id == nextId + 1
           mn == margin'
           gain == accrued' - accrued
           esc == EscrowOf(pruned)
           out == Outlay(n)
<1>2. mg \in Drafts /\ bk \in SUBSET Intents
  BY <1>1, SlackPosted
<1>3. /\ margin \in Drafts /\ book \in SUBSET Intents /\ IsFiniteSet(book) /\ id \in Nat
      /\ accrued \in Nat
  BY LedgerFacts DEF LedgerInv, TypeInv, TypeOK
<1>4. esc \in Nat /\ out \in Nat
  BY <1>3, FS_Subset, EscrowType, AmountTypes
<1>5. mg[t].free = margin[t].free + (esc - out) /\ margin[t].free \in Int
  BY <1>3, <1>4, PostFree
<1>6. mg[t].free \in Int
  BY <1>2 DEF Drafts
<1>7. mn[t].free \in Int /\ gain \in Int /\ mg[t].free - mn[t].free <= gain
  <2>1. CASE Rests(t, n, pruned, i)
    <3>1. mn = mg /\ gain = 0
      BY <1>3, <2>1 DEF Rests
    <3> HIDE DEF mn, mg, gain
    <3> QED BY <1>6, <3>1
  <2>2. CASE IsMatched(t, n, pruned, i)
    <3>1. PICK l \in bk, s \in bk, bps \in MatchBps : MatchPairCore(mg, bk, id, l, s, bps)
      BY <2>2 DEF IsMatched
    <3> HIDE DEF mg, bk, id
    <3> QED BY <1>2, <1>3, <3>1, MatchFree
  <2>3. CASE IsLost(t, n, pruned, i)
    <3>1. PICK cp \in book \ pruned, bps \in MatchBps :
            /\ CanFill(i) /\ CanFill(cp)
            /\ \/ mn = mg /\ accrued' = accrued
               \/ \E first \in {mg, Leg(mg, cp, 0)} :
                    mn = Leg(first, i, 0) /\ accrued' = accrued + TakerFee(bps)
      BY <2>3 DEF IsLost
    <3>2. cp \in Intents /\ i.remaining # 0 /\ cp.remaining # 0 /\ 0 \in Nat
      BY <1>3, <3>1 DEF CanFill, Live
    <3>3. gain \in Nat /\ (gain = 0 \/ gain = TakerFee(bps))
      BY <1>3, <3>1, AmountTypes
    <3> HIDE DEF mn, mg, gain
    <3>4. /\ Leg(mg, cp, 0) \in Drafts /\ Leg(mg, cp, 0)[t].free \in Int
          /\ Leg(mg, cp, 0)[t].free >= mg[t].free - 0
      BY <1>2, <3>2, LegFree
    <3>5. ASSUME NEW first \in Drafts, first[t].free \in Int, first[t].free >= mg[t].free,
                 mn = Leg(first, i, 0)
          PROVE  mn[t].free \in Int /\ mn[t].free >= mg[t].free
      <4>1. mn[t].free \in Int /\ mn[t].free >= first[t].free - 0
        BY <3>2, <3>5, LegFree
      <4> QED BY <1>6, <3>5, <4>1
    <3>6. mn[t].free \in Int /\ mn[t].free >= mg[t].free
      <4>1. CASE mn = mg
        BY <1>6, <4>1
      <4>2. CASE \E first \in {mg, Leg(mg, cp, 0)} : mn = Leg(first, i, 0)
        BY <1>2, <1>6, <3>4, <3>5, <4>2
      <4> QED BY <3>1, <4>1, <4>2
    <3> QED BY <1>6, <3>3, <3>6
  <2> QED BY <1>1, <2>1, <2>2, <2>3
<1> HIDE DEF mg, mn, esc, out, gain
<1>8. margin[t].free - mn[t].free <= out + gain
  BY <1>4, <1>5, <1>6, <1>7
<1> QED BY <1>7, <1>8 DEF mn, out, gain

(* A post by the delegate takes no more of the owner's free collateral than   *)
(* the session is charged for it and the treasury receives as the fee of an   *)
(* inline match, whatever schedule that match is charged by and also when it  *)
(* fails half-way.                                                            *)
THEOREM DebitIsAccounted == DelegatedSpec => DebitAccounted
<1> DEFINE Inv == LedgerInv /\ SessionsValid
           Step == \A t \in Traders : HasSession(t) /\ nextSeq' # nextSeq /\ via'[t] # via[t] =>
                     margin[t].free - margin'[t].free
                       <= (sessions'[t].used - sessions[t].used) + (accrued' - accrued)
<1>1. DelegatedInit => Inv
  <2> SUFFICES ASSUME DelegatedInit PROVE Inv
    OBVIOUS
  <2>1. LedgerInv
    BY LedgerInit DEF DelegatedInit
  <2> QED BY <2>1 DEF DelegatedInit, SessionsValid, HasSession
<1>2. Inv /\ [DelegatedNext]_delegatedVars => Inv'
  <2> SUFFICES ASSUME Inv, [DelegatedNext]_delegatedVars PROVE Inv'
    OBVIOUS
  <2>1. TypeInv
    BY DEF LedgerInv
  <2>2. [Next]_vars
    BY <2>1, StepImplements
  <2> QED BY <2>1, <2>2, LedgerStep, SessionsStep
<1>3. Inv /\ [DelegatedNext]_delegatedVars => [Step]_delegatedVars
  <2> SUFFICES ASSUME Inv, [DelegatedNext]_delegatedVars, NEW t \in Traders,
                      HasSession(t), nextSeq' # nextSeq, via'[t] # via[t]
               PROVE  margin[t].free - margin'[t].free
                        <= (sessions'[t].used - sessions[t].used) + (accrued' - accrued)
    OBVIOUS
  <2>t. TypeInv /\ sessions[t] \in Sessions /\ sessions[t].used \in Nat
    BY DEF LedgerInv, SessionsValid, HasSession, Sessions
  <2>1. ~UNCHANGED vars /\ ~UNCHANGED <<sessions, via>>
    BY DEF vars, orders
  <2>2. PICK u \in Traders, n \in Contracts :
          /\ Charged(u, n)
          /\ via' = [via EXCEPT ![u] = @ \cup {nextId}]
          /\ PostsFor(u, n)
    BY <2>t, <2>1, ExposureSteps
  <2>3. u = t
    BY <2>2 DEF SessionsValid
  <2>4. n \in Nat
    BY InputsAssumption, InstrumentAssumption
  <2>5. /\ margin[t].free - margin'[t].free <= Outlay(n) + (accrued' - accrued)
        /\ accrued' - accrued \in Int
    BY <2>2, <2>3, <2>4, PostDebit
  <2>6. sessions'[t] = RecordIntent(sessions[t], Charge(n))
    BY <2>2, <2>3 DEF Charged, SessionsValid
  <2>7. sessions'[t].used = sessions[t].used + Charge(n)
    BY <2>t, <2>6, ChargeType, RecordEffect
  <2> DEFINE r == sessions'[t].used
             q == sessions[t].used
             c == Charge(n)
  <2>8. r = q + c /\ q \in Nat /\ c \in Nat /\ c = Outlay(n)
    BY <2>t, <2>7, ChargeType DEF Charge
  <2> HIDE DEF r, q, c
  <2>9. r - q = Outlay(n)
    BY <2>8
  <2> QED BY <2>5, <2>9 DEF r, q
<1> HIDE DEF Inv
<1>4. DelegatedSpec => [][Step]_delegatedVars
  BY <1>1, <1>2, <1>3, PTL DEF DelegatedSpec
<1> QED BY <1>4, PTL DEF DebitAccounted
=============================================================================
