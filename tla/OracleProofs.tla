---------------------------- MODULE OracleProofs ----------------------------
(* Proofs about Governance, for any keys, proposals and delay, and about      *)
(* Oracle, for any attestations, positions, markets and keys.                 *)
EXTENDS Oracle, FiniteSetTheorems, TLAPS

-----------------------------------------------------------------------------
(* Governance *)

(* The threshold of an existing multisig lies between one and its size. *)
ThresholdInRange ==
  Exists => 1 <= multisig.threshold /\ multisig.threshold <= Cardinality(multisig.members)

(* An id has one proposal, and its delay is the one it was made with. *)
ProposalsFixed ==
  /\ \A p, q \in proposals : p.id = q.id => p = q
  /\ \A p \in proposals : p.executableAfter = p.proposedAt + TIMELOCK_DELAY_SECS

(* The inductive invariant. *)
Inv == TypeOK /\ ThresholdInRange /\ ProposalsFixed

(* The invariant holds initially. *)
LEMMA InvInit == Init => Inv
<1> SUFFICES ASSUME Init PROVE Inv
  OBVIOUS
<1>1. multisig \in [members : SUBSET Keys, threshold : Nat] /\ multisig.members = {}
  BY DEF Init
<1>2. TypeOK
  BY <1>1, GovernanceAssumption DEF Init, TypeOK
<1>3. ThresholdInRange
  BY <1>1 DEF ThresholdInRange, Exists
<1>4. ProposalsFixed
  BY DEF Init, ProposalsFixed
<1> QED BY <1>2, <1>3, <1>4 DEF Inv

(* A multisig that init or rotate accepts has a threshold it can reach. *)
LEMMA ValidInRange ==
  ASSUME TypeOK, NEW members \in SUBSET Keys,
         NEW threshold \in 0..(MAX_MULTISIG_SIGNERS + 1),
         ValidMultisig(members, threshold),
         multisig' = [members |-> members, threshold |-> threshold]
  PROVE  /\ multisig' \in [members : SUBSET Keys, threshold : Nat]
         /\ ThresholdInRange'
<1>1. threshold \in Nat
  BY GovernanceAssumption
<1>2. multisig'.members = members /\ multisig'.threshold = threshold
  OBVIOUS
<1>3. 1 <= threshold
  BY <1>1 DEF ValidMultisig
<1>4. ThresholdInRange'
  BY <1>2, <1>3 DEF ValidMultisig, ThresholdInRange, Exists
<1> QED BY <1>1, <1>4

(* Deciding a proposal keeps ids unique and delays fixed. *)
LEMMA StatusFixed ==
  ASSUME TypeOK, ProposalsFixed, NEW p \in proposals,
         NEW status \in {"executed", "cancelled"}, SetStatus(p, status)
  PROVE  proposals' \subseteq Proposals /\ ProposalsFixed'
<1> DEFINE d == [p EXCEPT !.status = status]
<1>1. p \in Proposals
  BY DEF TypeOK
<1>2. /\ d \in Proposals
      /\ d.id = p.id
      /\ d.executableAfter = p.executableAfter /\ d.proposedAt = p.proposedAt
  BY <1>1 DEF Proposals
<1>3. proposals' = (proposals \ {p}) \cup {d}
  BY DEF SetStatus
<1> HIDE DEF d
<1>4. proposals' \subseteq Proposals
  BY <1>2, <1>3 DEF TypeOK
<1>5. ASSUME NEW q \in proposals', NEW r \in proposals', q.id = r.id
      PROVE  q = r
  BY <1>2, <1>3, <1>5 DEF ProposalsFixed
<1>6. ASSUME NEW q \in proposals'
      PROVE  q.executableAfter = q.proposedAt + TIMELOCK_DELAY_SECS
  BY <1>2, <1>3 DEF ProposalsFixed
<1> QED BY <1>4, <1>5, <1>6 DEF ProposalsFixed

(* Every instruction keeps the invariant. *)
LEMMA InvStep == Inv /\ [Next]_vars => Inv'
<1> SUFFICES ASSUME Inv, [Next]_vars PROVE Inv'
  OBVIOUS
<1> USE DEF Inv
<1>1. ASSUME NEW keys \in SUBSET Keys, NEW members \in SUBSET Keys,
             NEW threshold \in 0..(MAX_MULTISIG_SIGNERS + 1),
             \/ InitAdminMultisig(keys, members, threshold)
             \/ RotateAdminMultisig(keys, members, threshold)
      PROVE  Inv'
  <2>1. /\ ValidMultisig(members, threshold)
        /\ multisig' = [members |-> members, threshold |-> threshold]
        /\ UNCHANGED <<signer, proposals, paused, time>>
    BY <1>1 DEF InitAdminMultisig, RotateAdminMultisig
  <2>2. multisig' \in [members : SUBSET Keys, threshold : Nat] /\ ThresholdInRange'
    BY <2>1, ValidInRange
  <2>3. ProposalsFixed'
    BY <2>1 DEF ProposalsFixed
  <2> QED BY <2>1, <2>2, <2>3 DEF TypeOK
<1>2. ASSUME NEW keys \in SUBSET Keys, NEW passed \in BOOLEAN, NEW value \in BOOLEAN,
             SetGlobalPause(keys, passed, value)
      PROVE  Inv'
  BY <1>2 DEF SetGlobalPause, TypeOK, ThresholdInRange, Exists, ProposalsFixed
<1>3. ASSUME NEW keys \in SUBSET Keys, NEW passed \in BOOLEAN, NEW proposer \in Keys,
             NEW id \in ProposalIds, NEW new \in Signers,
             ProposeSetAttestationSigner(keys, passed, proposer, id, new)
      PROVE  Inv'
  <2> DEFINE p == NewProposal(id, proposer, new)
  <2>1. /\ p \in Proposals
        /\ p.id = id
        /\ p.executableAfter = p.proposedAt + TIMELOCK_DELAY_SECS
    BY GovernanceAssumption DEF NewProposal, Proposals, TypeOK
  <2>2. /\ proposals' = proposals \cup {p}
        /\ \A q \in proposals : q.id # id
        /\ UNCHANGED <<multisig, signer, paused, time>>
    BY <1>3 DEF ProposeSetAttestationSigner
  <2> HIDE DEF p
  <2>3. ProposalsFixed'
    BY <2>1, <2>2 DEF ProposalsFixed
  <2>4. ThresholdInRange'
    BY <2>2 DEF ThresholdInRange, Exists
  <2> QED BY <2>1, <2>2, <2>3, <2>4 DEF TypeOK
<1>4. ASSUME NEW keys \in SUBSET Keys, NEW passed \in BOOLEAN, NEW p \in proposals,
             ExecuteSetAttestationSigner(keys, passed, p)
      PROVE  Inv'
  <2>1. proposals' \subseteq Proposals /\ ProposalsFixed'
    BY <1>4, StatusFixed DEF ExecuteSetAttestationSigner
  <2>2. p.newSigner \in Signers
    BY DEF TypeOK, Proposals
  <2> QED BY <1>4, <2>1, <2>2
          DEF ExecuteSetAttestationSigner, TypeOK, ThresholdInRange, Exists
<1>5. ASSUME NEW keys \in SUBSET Keys, NEW p \in proposals, CancelTimelock(keys, p)
      PROVE  Inv'
  <2>1. proposals' \subseteq Proposals /\ ProposalsFixed'
    BY <1>5, StatusFixed DEF CancelTimelock
  <2> QED BY <1>5, <2>1 DEF CancelTimelock, TypeOK, ThresholdInRange, Exists
<1>6. CASE Tick
  BY <1>6 DEF Tick, TypeOK, ThresholdInRange, Exists, ProposalsFixed
<1>7. CASE UNCHANGED vars
  BY <1>7 DEF vars, TypeOK, ThresholdInRange, Exists, ProposalsFixed
<1> QED BY <1>1, <1>2, <1>3, <1>4, <1>5, <1>6, <1>7 DEF Next

(* In every reachable state the invariant holds. *)
LEMMA InvAlways == Spec => []Inv
BY InvInit, InvStep, PTL DEF Spec

(* The multisig never locks its members out, whatever the rotations: all of   *)
(* them together can always act, and nobody can act without a signature.      *)
THEOREM NeverLockedOut == Spec => []QuorumReachable
<1>1. Inv => QuorumReachable
  <2> SUFFICES ASSUME Inv, Exists
               PROVE  Quorum(multisig, multisig.members) /\ ~Quorum(multisig, {})
    BY DEF QuorumReachable
  <2>1. multisig.threshold \in Nat /\ 1 <= multisig.threshold
    BY DEF Inv, TypeOK, ThresholdInRange
  <2>2. multisig.members \cap multisig.members = multisig.members
    OBVIOUS
  <2>3. multisig.members \cap {} = {}
    OBVIOUS
  <2>4. Cardinality({}) = 0
    BY FS_EmptySet
  <2> QED BY <2>1, <2>2, <2>3, <2>4 DEF Quorum, Inv, ThresholdInRange
<1> QED BY <1>1, InvAlways, PTL

(* The attestation signer changes only to one proposed a whole delay ago and  *)
(* not cancelled since.                                                       *)
THEOREM SignerChangesLate == Spec => SignerDelayed
<1> DEFINE Late == signer' # signer =>
             \E p \in proposals : /\ p.status = "pending"
                                  /\ p.newSigner = signer'
                                  /\ p.proposedAt + TIMELOCK_DELAY_SECS <= time
<1>1. Inv /\ [Next]_vars => [Late]_vars
  <2> SUFFICES ASSUME Inv, Next, signer' # signer
               PROVE  Late
    BY DEF vars
  <2>1. PICK keys \in SUBSET Keys, passed \in BOOLEAN, p \in proposals :
               ExecuteSetAttestationSigner(keys, passed, p)
    BY DEF Next, InitAdminMultisig, RotateAdminMultisig, SetGlobalPause,
           ProposeSetAttestationSigner, CancelTimelock, Tick
  <2>2. /\ p.status = "pending"
        /\ p.newSigner = signer'
        /\ time >= p.executableAfter
    BY <2>1 DEF ExecuteSetAttestationSigner, IsPending
  <2>3. /\ p.executableAfter = p.proposedAt + TIMELOCK_DELAY_SECS
        /\ p.executableAfter \in Nat /\ time \in Nat
    BY DEF Inv, TypeOK, ProposalsFixed, Proposals
  <2> QED BY <2>2, <2>3
<1> QED BY <1>1, InvAlways, PTL DEF Spec, SignerDelayed

(* A proposal keeps its account and its terms, and is decided at most once. *)
THEOREM ProposalDecidedOnce == Spec => DecidedOnce
<1> DEFINE Kept(p, q) == /\ Terms(q) = Terms(p)
                         /\ q.status = p.status \/ p.status = "pending"
           Step == \A p \in proposals :
                     /\ \E q \in proposals' : q.id = p.id
                     /\ \A q \in proposals' : q.id = p.id => Kept(p, q)
<1>1. Inv /\ [Next]_vars => [Step]_vars
  <2> SUFFICES ASSUME Inv, Next PROVE Step
    BY DEF vars
  <2>1. CASE proposals' = proposals
    BY <2>1 DEF Inv, ProposalsFixed
  <2>2. ASSUME NEW new, proposals' = proposals \cup {new},
               \A p \in proposals : p.id # new.id
        PROVE  Step
    BY <2>2 DEF Inv, ProposalsFixed
  <2>3. ASSUME NEW d \in proposals, NEW status \in {"executed", "cancelled"},
               IsPending(d), SetStatus(d, status)
        PROVE  Step
    <3> DEFINE e == [d EXCEPT !.status = status]
    <3>1. d \in Proposals
      BY DEF Inv, TypeOK
    <3>2. e.id = d.id /\ Terms(e) = Terms(d)
      BY <3>1 DEF Proposals, Terms
    <3>3. proposals' = (proposals \ {d}) \cup {e} /\ d.status = "pending"
      BY <2>3 DEF SetStatus, IsPending
    <3> HIDE DEF e
    <3>4. ASSUME NEW p \in proposals
          PROVE  \E q \in proposals' : q.id = p.id
      BY <3>2, <3>3
    <3>5. ASSUME NEW p \in proposals, NEW q \in proposals', q.id = p.id
          PROVE  Kept(p, q)
      <4>1. CASE q = e
        BY <3>2, <3>3, <3>5, <4>1 DEF Inv, ProposalsFixed
      <4>2. CASE q # e
        BY <3>3, <3>5, <4>2 DEF Inv, ProposalsFixed
      <4> QED BY <4>1, <4>2
    <3> QED BY <3>4, <3>5
  <2>4. ASSUME NEW keys \in SUBSET Keys, NEW passed \in BOOLEAN, NEW proposer \in Keys,
               NEW id \in ProposalIds, NEW new \in Signers,
               ProposeSetAttestationSigner(keys, passed, proposer, id, new)
        PROVE  Step
    <3>1. NewProposal(id, proposer, new).id = id
      BY DEF NewProposal
    <3> QED BY <2>2, <2>4, <3>1 DEF ProposeSetAttestationSigner
  <2>5. ASSUME NEW keys \in SUBSET Keys, NEW p \in proposals,
               \/ CancelTimelock(keys, p)
               \/ \E passed \in BOOLEAN : ExecuteSetAttestationSigner(keys, passed, p)
        PROVE  Step
    BY <2>3, <2>5 DEF CancelTimelock, ExecuteSetAttestationSigner
  <2> HIDE DEF Step
  <2> QED BY <2>1, <2>4, <2>5
          DEF Next, InitAdminMultisig, RotateAdminMultisig, SetGlobalPause, Tick
<1> QED BY <1>1, InvAlways, PTL DEF Spec, DecidedOnce

-----------------------------------------------------------------------------
(* Oracle *)

(* The key k may decide at t: it is the first one, or was installed after its *)
(* delay.                                                                     *)
Announced(k, t) ==
  \/ k = InitialSigner
  \/ \E q \in proposals : /\ q.newSigner = k
                          /\ q.status = "executed"
                          /\ q.proposedAt + TIMELOCK_DELAY_SECS <= t

OracleType ==
  /\ lastNonce \in [Markets -> Nat]
  /\ endedBy \in [Positions -> Attestations \cup {None}]
  /\ endedAt \in [Positions -> Nat]

(* What ended a position is of its market, not after the present, and its     *)
(* nonce is consumed.                                                         *)
Consumed ==
  \A p \in Positions : endedBy[p] # None =>
    /\ endedBy[p].nonce <= lastNonce[MarketOf[p]]
    /\ endedAt[p] <= time

(* The inductive invariant. *)
OracleInv ==
  /\ Inv
  /\ OracleType
  /\ Announced(signer, time)
  /\ \A p \in Positions : endedBy[p] # None => Announced(endedBy[p].key, endedAt[p])
  /\ Consumed
  /\ EndedInOrder

(* The first key is in force, and nothing has ended. *)
LEMMA OracleInvInit == OracleInit => OracleInv
<1> SUFFICES ASSUME OracleInit PROVE OracleInv
  OBVIOUS
<1>1. Inv
  BY InvInit DEF OracleInit
<1>2. OracleType
  BY DEF OracleInit, OracleType
<1>3. Announced(signer, time)
  BY DEF OracleInit, Init, Announced
<1>4. \A p \in Positions : endedBy[p] = None
  BY DEF OracleInit
<1> QED BY <1>1, <1>2, <1>3, <1>4 DEF OracleInv, Consumed, EndedInOrder

(* An executed proposal stays as it is, and time does not go back. *)
LEMMA ExecutedKept ==
  ASSUME Inv, Next
  PROVE  /\ \A q \in proposals : q.status = "executed" => q \in proposals'
         /\ time \in Nat /\ time' \in Nat /\ time <= time'
<1>1. time \in Nat
  BY DEF Inv, TypeOK
<1>2. time' = time \/ time' = time + 1
  BY DEF Next, InitAdminMultisig, RotateAdminMultisig, SetGlobalPause,
         ProposeSetAttestationSigner, ExecuteSetAttestationSigner, CancelTimelock, Tick
<1>3. ASSUME NEW q \in proposals, q.status = "executed"
      PROVE  q \in proposals'
  <2>1. \/ proposals \subseteq proposals'
        \/ \E p \in proposals, status \in {"executed", "cancelled"} :
             IsPending(p) /\ SetStatus(p, status)
    BY DEF Next, InitAdminMultisig, RotateAdminMultisig, SetGlobalPause,
           ProposeSetAttestationSigner, ExecuteSetAttestationSigner, CancelTimelock, Tick
  <2> QED BY <2>1, <1>3 DEF IsPending, SetStatus
<1> QED BY <1>1, <1>2, <1>3

(* A step of the administration leaves every announced key announced. *)
LEMMA AnnouncedKept ==
  ASSUME Inv, Next, NEW k, NEW t \in Nat, Announced(k, t), NEW u \in Nat, t <= u
  PROVE  Announced(k, u)'
<1>1. CASE k = InitialSigner
  BY <1>1 DEF Announced
<1>2. CASE k # InitialSigner
  <2>1. PICK q \in proposals : /\ q.newSigner = k
                               /\ q.status = "executed"
                               /\ q.proposedAt + TIMELOCK_DELAY_SECS <= t
    BY <1>2 DEF Announced
  <2>2. q \in proposals'
    BY <2>1, ExecutedKept
  <2>3. q.proposedAt \in Nat /\ TIMELOCK_DELAY_SECS \in Nat
    BY GovernanceAssumption DEF Inv, TypeOK, Proposals
  <2>4. q.proposedAt + TIMELOCK_DELAY_SECS <= u
    BY <2>1, <2>3
  <2> QED BY <2>1, <2>2, <2>4 DEF Announced
<1> QED BY <1>1, <1>2

(* The key in force was announced, also after it changes. *)
LEMMA SignerAnnounced ==
  ASSUME Inv, Next, Announced(signer, time)
  PROVE  Announced(signer, time)'
<1>0. time \in Nat /\ time' \in Nat /\ time <= time'
  BY ExecutedKept
<1>1. CASE signer' = signer
  BY <1>0, <1>1, AnnouncedKept DEF Announced
<1>2. CASE signer' # signer
  <2>1. PICK keys \in SUBSET Keys, passed \in BOOLEAN, p \in proposals :
               ExecuteSetAttestationSigner(keys, passed, p)
    BY <1>2 DEF Next, InitAdminMultisig, RotateAdminMultisig, SetGlobalPause,
           ProposeSetAttestationSigner, CancelTimelock, Tick
  <2> DEFINE d == [p EXCEPT !.status = "executed"]
  <2>2. p \in Proposals /\ p.executableAfter = p.proposedAt + TIMELOCK_DELAY_SECS
    BY DEF Inv, TypeOK, ProposalsFixed
  <2>3. d.newSigner = p.newSigner /\ d.status = "executed" /\ d.proposedAt = p.proposedAt
    BY <2>2 DEF Proposals
  <2>4. d \in proposals'
    BY <2>1 DEF ExecuteSetAttestationSigner, SetStatus
  <2>5. signer' = p.newSigner /\ time' = time /\ time >= p.executableAfter
    BY <2>1 DEF ExecuteSetAttestationSigner
  <2>6. p.executableAfter \in Nat
    BY <2>2 DEF Proposals
  <2> HIDE DEF d
  <2>7. d.proposedAt + TIMELOCK_DELAY_SECS <= time'
    BY <2>2, <2>3, <2>5, <2>6, <1>0
  <2> QED BY <2>3, <2>4, <2>5, <2>7 DEF Announced
<1> QED BY <1>1, <1>2

(* The administration keeps the invariant. *)
LEMMA GoverningKeeps == OracleInv /\ Governing => OracleInv'
<1> SUFFICES ASSUME OracleInv, Governing PROVE OracleInv'
  OBVIOUS
<1>1. Inv /\ Next /\ UNCHANGED <<lastNonce, endedBy, endedAt>>
  BY DEF OracleInv, Governing
<1>2. Inv'
  BY <1>1, InvStep
<1>3. OracleType'
  BY <1>1 DEF OracleInv, OracleType
<1>4. Announced(signer, time)'
  BY <1>1, SignerAnnounced DEF OracleInv
<1>5. ASSUME NEW p \in Positions, endedBy'[p] # None
      PROVE  Announced(endedBy[p].key, endedAt[p])'
  <2>1. PICK k \in Signers, t \in Nat : k = endedBy[p].key /\ t = endedAt[p]
    BY <1>1, <1>5 DEF OracleInv, OracleType, Attestations
  <2>2. Announced(k, t)
    BY <1>1, <1>5, <2>1 DEF OracleInv
  <2>3. Announced(k, t)'
    BY <1>1, <2>2, AnnouncedKept
  <2> QED BY <1>1, <2>1, <2>3 DEF Announced
<1>6. Consumed'
  <2>1. time \in Nat /\ time' \in Nat /\ time <= time'
    BY <1>1, ExecutedKept
  <2> QED BY <1>1, <2>1 DEF OracleInv, OracleType, Consumed
<1>7. EndedInOrder'
  BY <1>1 DEF OracleInv, EndedInOrder
<1> QED BY <1>2, <1>3, <1>4, <1>5, <1>6, <1>7 DEF OracleInv

(* A settlement keeps the invariant: it consumes a nonce beyond all those     *)
(* that ended the other positions of the market, on the word of the key in    *)
(* force.                                                                     *)
LEMMA SettlingKeeps == OracleInv /\ Settling => OracleInv'
<1> SUFFICES ASSUME OracleInv, Settling PROVE OracleInv'
  OBVIOUS
<1>1. PICK p \in Positions, a \in InCirculation : EndBy(p, a)
  BY DEF Settling, Liquidate, Resolve, CloseMutual
<1>2. /\ a \in Attestations /\ a # None
      /\ a.nonce \in Nat /\ a.market \in Markets
  BY OracleAssumption DEF Attestations
<1>3. /\ a.key = signer /\ a.market = MarketOf[p]
      /\ a.nonce > lastNonce[MarketOf[p]]
      /\ lastNonce' = [lastNonce EXCEPT ![MarketOf[p]] = a.nonce]
      /\ endedBy' = [endedBy EXCEPT ![p] = a]
      /\ endedAt' = [endedAt EXCEPT ![p] = time]
      /\ UNCHANGED vars
  BY <1>1 DEF EndBy, Verified, Fresh
<1>4. time \in Nat /\ time' = time /\ proposals' = proposals /\ signer' = signer
  BY <1>3 DEF OracleInv, Inv, TypeOK, vars
<1>5. Inv'
  BY <1>3, InvStep DEF OracleInv
<1>6. OracleType'
  BY <1>2, <1>3, <1>4 DEF OracleInv, OracleType
<1>7. Announced(signer, time)'
  BY <1>4 DEF OracleInv, Announced
<1>8. /\ endedBy'[p] = a /\ endedAt'[p] = time
      /\ \A q \in Positions \ {p} : endedBy'[q] = endedBy[q] /\ endedAt'[q] = endedAt[q]
      /\ lastNonce'[MarketOf[p]] = a.nonce
      /\ \A m \in Markets \ {MarketOf[p]} : lastNonce'[m] = lastNonce[m]
      /\ lastNonce \in [Markets -> Nat]
      /\ \A q \in Positions : MarketOf[q] \in Markets
  BY <1>2, <1>3, OracleAssumption DEF OracleInv, OracleType
<1>9. ASSUME NEW q \in Positions, endedBy'[q] # None
      PROVE  Announced(endedBy[q].key, endedAt[q])'
  <2>1. Announced(endedBy'[q].key, endedAt'[q])
    BY <1>3, <1>8, <1>9 DEF OracleInv
  <2> QED BY <1>4, <2>1 DEF Announced
<1>10. \A q \in Positions \ {p} : endedBy[q] # None =>
         /\ endedBy[q].nonce \in Nat /\ endedAt[q] \in Nat
         /\ endedBy[q].nonce <= lastNonce[MarketOf[q]]
         /\ endedAt[q] <= time
  BY DEF OracleInv, OracleType, Consumed, Attestations
<1>11. Consumed'
  <2> SUFFICES ASSUME NEW q \in Positions, endedBy'[q] # None
               PROVE  /\ endedBy'[q].nonce <= lastNonce'[MarketOf[q]]
                      /\ endedAt'[q] <= time'
    BY DEF Consumed
  <2>1. CASE q = p
    BY <1>2, <1>4, <1>8, <2>1
  <2>2. CASE q # p
    <3>1. lastNonce[MarketOf[q]] \in Nat /\ lastNonce[MarketOf[q]] <= lastNonce'[MarketOf[q]]
      BY <1>2, <1>3, <1>8
    <3>2. lastNonce'[MarketOf[q]] \in Nat
      BY <1>2, <1>8
    <3> QED BY <1>4, <1>8, <1>10, <2>2, <3>1, <3>2
  <2> QED BY <2>1, <2>2
<1>12. EndedInOrder'
  <2> SUFFICES ASSUME NEW q \in Positions, NEW r \in Positions, q # r,
                      endedBy'[q] # None, endedBy'[r] # None, MarketOf[q] = MarketOf[r]
               PROVE  /\ endedBy'[q].nonce # endedBy'[r].nonce
                      /\ endedBy'[q].nonce < endedBy'[r].nonce => endedAt'[q] <= endedAt'[r]
    BY DEF EndedInOrder
  <2>0. lastNonce[MarketOf[p]] \in Nat
    BY <1>8
  <2>1. CASE q = p
    BY <1>2, <1>3, <1>4, <1>8, <1>10, <2>0, <2>1
  <2>2. CASE r = p
    BY <1>2, <1>3, <1>4, <1>8, <1>10, <2>0, <2>2
  <2>3. CASE q # p /\ r # p
    BY <1>8, <2>3 DEF OracleInv, EndedInOrder
  <2> QED BY <2>1, <2>2, <2>3
<1> QED BY <1>5, <1>6, <1>7, <1>9, <1>11, <1>12 DEF OracleInv

(* Every step keeps the invariant. *)
LEMMA OracleInvStep == OracleInv /\ [OracleNext]_oracleVars => OracleInv'
<1> SUFFICES ASSUME OracleInv, [OracleNext]_oracleVars PROVE OracleInv'
  OBVIOUS
<1>1. CASE OracleNext
  BY <1>1, GoverningKeeps, SettlingKeeps DEF OracleNext
<1>2. CASE UNCHANGED oracleVars
  <2>1. UNCHANGED vars /\ UNCHANGED <<lastNonce, endedBy, endedAt>>
    BY <1>2 DEF oracleVars, vars
  <2>2. Inv'
    BY <2>1, InvStep DEF OracleInv
  <2>3. UNCHANGED <<signer, time, proposals>>
    BY <2>1 DEF vars
  <2> QED BY <2>1, <2>2, <2>3
          DEF OracleInv, OracleType, Announced, Consumed, EndedInOrder
<1> QED BY <1>1, <1>2

(* In every reachable state the invariant holds. *)
LEMMA OracleInvAlways == OracleSpec => []OracleInv
BY OracleInvInit, OracleInvStep, PTL DEF OracleSpec

(* Every position that ended did so on the word of the first key or of one    *)
(* that the timelock had delayed: verify_via_ed25519_sysvar reads the signer  *)
(* that only ExecuteSetAttestationSigner writes.                              *)
THEOREM AnnouncedKeysDecide == OracleSpec => []KeyWasAnnounced
<1>1. OracleInv => KeyWasAnnounced
  BY DEF OracleInv, Announced, KeyWasAnnounced
<1> QED BY <1>1, OracleInvAlways, PTL

(* validate_freshness_and_nonce lets no attestation end two positions, and    *)
(* none end a position behind one of a larger nonce, across all instruments   *)
(* of a market and all changes of the signer.                                 *)
THEOREM NoReplay == OracleSpec => []EndedInOrder
<1>1. OracleInv => EndedInOrder
  BY DEF OracleInv
<1> QED BY <1>1, OracleInvAlways, PTL
=============================================================================
