------------------------------- MODULE Oracle -------------------------------
(***************************************************************************)
(* Attestations: what a settlement accepts of the messages that the holders *)
(* of the signing keys have signed, while the key in force is replaced      *)
(* behind the timelock of Governance.  What the positions pay is the        *)
(* subject of Exchange; here it only matters by which message each ended.   *)
(*                                                                         *)
(* A signed message is in anyone's hands: it may be submitted late, never,  *)
(* again, or after one that was signed later.                               *)
(***************************************************************************)
EXTENDS Governance

CONSTANTS
  Markets,
  Positions,
  MarketOf,              \* position -> market_id of its instrument
  WindowOf,              \* position -> twap_window_slots of its instrument
  StalenessOf,           \* position -> max_staleness_secs of its instrument
  InCirculation,         \* what the holders of the keys sign, at any time
  None

(* about: the window of a price, the position of a liquidation, and None for  *)
(* a resolution.  breach is that of a liquidation, and ts otherwise.          *)
Attestations ==
  [key : Signers, kind : {"price", "resolution", "liquidation"}, market : Markets,
   about : Positions \cup {WindowOf[p] : p \in Positions} \cup {None},
   ts : Nat, breach : Int, nonce : Nat]

ASSUME OracleAssumption ==
  /\ MarketOf \in [Positions -> Markets]
  /\ StalenessOf \in [Positions -> Nat]
  /\ InCirculation \subseteq Attestations
  /\ None \notin Attestations

VARIABLES
  lastNonce,             \* market -> last_accepted_cre_nonce
  endedBy,               \* position -> the attestation that ended it, None while it is live
  endedAt                \* history: position -> when it ended

oracleVars == <<multisig, signer, proposals, paused, time, lastNonce, endedBy, endedAt>>

OracleInit ==
  /\ Init
  /\ lastNonce = [m \in Markets |-> 0]
  /\ endedBy = [p \in Positions |-> None]
  /\ endedAt = [p \in Positions |-> 0]

-----------------------------------------------------------------------------
VerifiedByAnyone(a) == a.key \in Signers

(* The precompile has checked a signature of the key in force over a. *)
Verified(a) == a.key = signer

FreshAgain(p, a) ==
  /\ a.market = MarketOf[p]
  /\ a.ts <= time
  /\ time - a.ts <= StalenessOf[p]
  /\ a.nonce >= lastNonce[a.market]

(* validate_freshness_and_nonce; the nonce is that of the market, for all its *)
(* instruments and all kinds of attestations.                                 *)
Fresh(p, a) ==
  /\ a.market = MarketOf[p]
  /\ a.ts <= time
  /\ time - a.ts <= StalenessOf[p]
  /\ a.nonce > lastNonce[a.market]

(* What the three settlements have in common: an attestation is verified and  *)
(* consumed, and the position, which must be live, ends.                      *)
EndBy(p, a) ==
  /\ ~paused
  /\ Verified(a)
  /\ Fresh(p, a)
  /\ endedBy[p] = None
  /\ lastNonce' = [lastNonce EXCEPT ![a.market] = a.nonce]
  /\ endedBy' = [endedBy EXCEPT ![p] = a]
  /\ endedAt' = [endedAt EXCEPT ![p] = time]
  /\ UNCHANGED vars

Liquidate(p, a) ==
  /\ a.kind = "liquidation"
  /\ a.about = p
  /\ a.breach >= 0 /\ a.breach <= time
  /\ EndBy(p, a)

Resolve(p, a) ==
  /\ a.kind = "resolution"
  /\ EndBy(p, a)

CloseMutual(p, a) ==
  /\ a.kind = "price"
  /\ a.about = WindowOf[p]
  /\ EndBy(p, a)

Settling ==
  \E p \in Positions, a \in InCirculation : Liquidate(p, a) \/ Resolve(p, a) \/ CloseMutual(p, a)

Governing == Next /\ UNCHANGED <<lastNonce, endedBy, endedAt>>

OracleNext == Settling \/ Governing

OracleSpec == OracleInit /\ [][OracleNext]_oracleVars

-----------------------------------------------------------------------------
(* Whoever signed the attestation that ended a position held the first key,   *)
(* or one that was proposed, for all to see, a whole delay before the         *)
(* position ended, and was then installed and not cancelled: the timelock     *)
(* leaves the traders that delay to leave before a key decides about them.    *)
KeyWasAnnounced ==
  \A p \in Positions : endedBy[p] # None =>
    \/ endedBy[p].key = InitialSigner
    \/ \E q \in proposals : /\ q.newSigner = endedBy[p].key
                            /\ q.status = "executed"
                            /\ q.proposedAt + TIMELOCK_DELAY_SECS <= endedAt[p]

(* No attestation ends two positions, and of two positions of a market the    *)
(* one that ended on the smaller nonce ended first: a message that arrives    *)
(* again, or behind one signed later, is of no effect, whatever its kind and  *)
(* whatever keys were in force in between.                                    *)
EndedInOrder ==
  \A p, q \in Positions :
    p # q /\ None \notin {endedBy[p], endedBy[q]} /\ MarketOf[p] = MarketOf[q] =>
      /\ endedBy[p].nonce # endedBy[q].nonce
      /\ endedBy[p].nonce < endedBy[q].nonce => endedAt[p] <= endedAt[q]
=============================================================================
