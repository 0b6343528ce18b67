----------------------------- MODULE Delegation -----------------------------
(***************************************************************************)
(* The exchange with trading sessions: an owner registers a delegate, which *)
(* may then post and cancel the owner's intents within the session's caps.  *)
(* A session belongs to one owner and is re-created in place.  It is scoped *)
(* to instruments by an allowlist; with one instrument, the list either     *)
(* admits it or not.                                                        *)
(*                                                                         *)
(* The two posts share their code in the program (do_post_intent_inner), and *)
(* so does the delegated post here.  The delegated cancel is a handler of    *)
(* its own in the program, and is written out here from its own code.        *)
(***************************************************************************)
EXTENDS Exchange

CONSTANTS
  Delegates,
  NoSession,          \* the owner's session account does not exist
  (* Inputs of CreateSession. *)
  PerIntentInputs,
  CapInputs,
  AllowInputs

ASSUME SessionAssumption ==
  /\ PerIntentInputs \subseteq Nat
  /\ CapInputs \subseteq Nat
  /\ AllowInputs \subseteq BOOLEAN

VARIABLES
  sessions,    \* owner -> its session account
  via          \* history: owner -> ids of the intents its present session has posted

delegatedVars == <<vars, sessions, via>>

Sessions ==
  [delegate : Delegates, revoked : BOOLEAN, expires : Nat, perIntent : Nat,
   cap : Nat, used : Nat, allows : BOOLEAN]

ASSUME NoSessionAssumption == NoSession \notin Sessions

DelegatedInit ==
  /\ Init
  /\ sessions = [t \in Traders |-> NoSession]
  /\ via = [t \in Traders |-> {}]

HasSession(t) == sessions[t] # NoSession

(* A session whose cap is used up is inactive, like a revoked or expired one. *)
IsActive(s) ==
  /\ ~s.revoked
  /\ s.expires > now
  /\ s.used < s.cap

-----------------------------------------------------------------------------
(* The owner's operations *)

NewSession(d, expires, perIntent, cap, allows) ==
  [delegate |-> d, revoked |-> FALSE, expires |-> expires, perIntent |-> perIntent,
   cap |-> cap, used |-> 0, allows |-> allows]

CanCreateAlways(t) == TRUE

(* An existing session is overwritten only once it is dead. *)
CanCreate(t) == HasSession(t) => ~IsActive(sessions[t])

CreateSession(t, d, expires, perIntent, cap, allows) ==
  /\ ~paused
  /\ expires > now
  /\ 0 < perIntent /\ perIntent <= cap
  /\ CanCreate(t)
  /\ sessions' = [sessions EXCEPT ![t] = NewSession(d, expires, perIntent, cap, allows)]
  /\ via' = [via EXCEPT ![t] = {}]
  /\ UNCHANGED vars

RevokeSession(t) ==
  /\ HasSession(t)
  /\ sessions' = [sessions EXCEPT ![t].revoked = TRUE]
  /\ UNCHANGED <<vars, via>>

-----------------------------------------------------------------------------
(* The delegate's operations *)

Authorizes(t, d) ==
  /\ HasSession(t)
  /\ sessions[t].delegate = d
  /\ IsActive(sessions[t])
  /\ sessions[t].allows

CanRecordBelowCap(s, atoms) ==
  /\ 0 < atoms /\ atoms <= s.perIntent
  /\ s.used <= s.cap

CanRecord(s, atoms) ==
  /\ 0 < atoms /\ atoms <= s.perIntent
  /\ s.used + atoms <= s.cap

RecordIntentForgets(s, atoms) == [s EXCEPT !.used = atoms]

RecordIntent(s, atoms) == [s EXCEPT !.used = @ + atoms]

(* The session is charged what the post reserves, the fee buffer included;    *)
(* what an inline match then takes of the owner as its fee is not charged.    *)
Charge(n) == Outlay(n)

PostIntentDelegated(d, t, side, n, price, expiration, reentry) ==
  /\ Authorizes(t, d)
  /\ CanRecord(sessions[t], Charge(n))
  /\ sessions' = [sessions EXCEPT ![t] = RecordIntent(@, Charge(n))]
  /\ via' = [via EXCEPT ![t] = @ \cup {nextId}]
  /\ \/ PostIntent(t, side, n, price, expiration, reentry)
     \/ \E bps \in InlineBps : PostIntentMatched(t, side, n, price, expiration, reentry, bps)
     \/ \E bps \in InlineBps : PostIntentMatchFailed(t, side, n, price, expiration, reentry, bps)

CancelIntentDelegatedForgetsSeat(d, i) ==
  /\ Authorizes(i.owner, d)
  /\ margin' = Adjust(margin, i.owner, Escrow(i), -Escrow(i), 0)
  /\ Covered(margin', i.owner)
  /\ book' = book \ {i}
  /\ UNCHANGED <<opened, vault, accrued, seatCount, nextId, nextSeq, pmlcs, market, controls, now>>
  /\ UNCHANGED <<sessions, via>>

(* The delegate takes an intent of the session's owner off the book, which    *)
(* refunds the owner; the session itself is only read.                        *)
CancelIntentDelegated(d, i) ==
  /\ Authorizes(i.owner, d)
  /\ book' = book \ {i}
  /\ seatCount' = [seatCount EXCEPT ![i.owner] = SatSub(@, 1)]
  /\ LET total == i.reserved + i.feeBuffer
     IN  /\ total <= margin[i.owner].reserved
         /\ margin' = [margin EXCEPT ![i.owner].reserved = @ - total,
                                     ![i.owner].free = @ + total]
  /\ UNCHANGED <<opened, vault, accrued, pmlcs, nextId, nextSeq, market, controls, now>>
  /\ UNCHANGED <<sessions, via>>

-----------------------------------------------------------------------------
Direct ==
  /\ Next
  /\ UNCHANGED <<sessions, via>>

Owning ==
  \E t \in Traders :
    \/ \E d \in Delegates, expires \in Expirations, perIntent \in PerIntentInputs,
          cap \in CapInputs, allows \in AllowInputs :
         CreateSession(t, d, expires, perIntent, cap, allows)
    \/ RevokeSession(t)

Delegating ==
  \E d \in Delegates :
    \/ \E t \in Traders, side \in Sides, n \in Contracts, price \in Prices,
          expiration \in Expirations, reentry \in ReentryInputs :
         PostIntentDelegated(d, t, side, n, price, expiration, reentry)
    \/ \E i \in book : CancelIntentDelegated(d, i)

DelegatedNext ==
  \/ Direct
  \/ Owning
  \/ Delegating

DelegatedSpec == DelegatedInit /\ [][DelegatedNext]_delegatedVars

-----------------------------------------------------------------------------
(* Delegation gives nobody an operation that the exchange does not have.  A   *)
(* delegated post runs the code of the direct one; a delegated cancel does    *)
(* by code of its own what the owner's cancel does to the same intent, in     *)
(* every balance, in the book and in the counters of the seat.                *)
ImplementsExchange == Spec

(* Every session account is well-formed, and has charged at most its cap.     *)
SessionsValid ==
  /\ via \in [Traders -> SUBSET Nat]
  /\ sessions \in [Traders -> Sessions \cup {NoSession}]
  /\ \A t \in Traders : HasSession(t) =>
       /\ sessions[t].perIntent <= sessions[t].cap
       /\ sessions[t].used <= sessions[t].cap

PostedBy(t) == {i \in book : i.owner = t /\ i.id \in via[t]}

(* What the resting intents of a session hold of its owner's collateral never *)
(* exceeds what the session was charged, whatever was filled, cancelled,      *)
(* pruned and posted in between.                                              *)
ExposureCharged ==
  \A t \in Traders : HasSession(t) => EscrowOf(PostedBy(t)) <= sessions[t].used

Terms(s) == <<s.delegate, s.expires, s.perIntent, s.cap, s.allows>>

(* No step changes the terms of an active session or takes back what it was   *)
(* charged: the owner must revoke it, or let it expire or run out, before it  *)
(* can be replaced.                                                           *)
CountersKept ==
  [][\A t \in Traders : HasSession(t) /\ IsActive(sessions[t]) =>
       /\ HasSession(t)'
       /\ Terms(sessions'[t]) = Terms(sessions[t])
       /\ sessions'[t].used >= sessions[t].used]_delegatedVars

(* A post by the delegate takes no more of the owner's free collateral than   *)
(* the session is charged for it and the treasury receives as the fee of an   *)
(* inline match, also when that match fails half-way.  The fee is outside the *)
(* caps: session.rs says that they bound all a delegate can take.             *)
DebitAccounted ==
  [][\A t \in Traders : HasSession(t) /\ nextSeq' # nextSeq /\ via'[t] # via[t] =>
       margin[t].free - margin'[t].free
         <= (sessions'[t].used - sessions[t].used) + (accrued' - accrued)]_delegatedVars
=============================================================================
