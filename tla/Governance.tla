----------------------------- MODULE Governance -----------------------------
(***************************************************************************)
(* Who administers the program: the single admin of the configuration, the  *)
(* optional multisig account, and the timelock behind which the key that    *)
(* signs attestations is replaced.                                          *)
(*                                                                         *)
(* An instruction is signed by a set of keys and may or may not pass the    *)
(* multisig account along.                                                  *)
(***************************************************************************)
EXTENDS Integers, FiniteSets

CONSTANTS
  Keys,                  \* whoever may sign an instruction
  Admin,                 \* config.admin, fixed by InitProgramConfig
  Signers,               \* attestation signers
  InitialSigner,
  ProposalIds,
  TIMELOCK_DELAY_SECS,
  MAX_MULTISIG_SIGNERS,
  MaxTime                \* bound on the clock

ASSUME GovernanceAssumption ==
  /\ IsFiniteSet(Keys)
  /\ Admin \in Keys
  /\ InitialSigner \in Signers
  /\ TIMELOCK_DELAY_SECS \in Nat
  /\ MAX_MULTISIG_SIGNERS \in Nat
  /\ MaxTime \in Nat

VARIABLES
  multisig,     \* the account: its members and threshold; no members before it exists
  signer,       \* config.attestation_signer
  proposals,    \* the timelock accounts that exist
  paused,       \* config.global_pause
  time          \* the clock's unix timestamp

vars == <<multisig, signer, proposals, paused, time>>

Proposals ==
  [id : ProposalIds, status : {"pending", "executed", "cancelled"}, proposer : Keys,
   newSigner : Signers, proposedAt : Nat, executableAfter : Nat]

Init ==
  /\ multisig = [members |-> {}, threshold |-> 0]
  /\ signer = InitialSigner
  /\ proposals = {}
  /\ paused = FALSE
  /\ time = 0

Exists == multisig.members # {}

-----------------------------------------------------------------------------
(* Authorization *)

(* check_threshold: members are distinct, so each key counts once. *)
Quorum(ms, keys) == Cardinality(ms.members \cap keys) >= ms.threshold

(* The multisig decides if its account is among those of the instruction; if  *)
(* it is not, the single admin does, whether or not a multisig exists.        *)
Authorized(keys, passed) ==
  IF passed /\ Exists THEN Quorum(multisig, keys) ELSE Admin \in keys

ValidUnreachable(members, threshold) ==
  /\ members # {}
  /\ Cardinality(members) <= MAX_MULTISIG_SIGNERS
  /\ threshold > 0

(* The checks that init and rotate repeat; a set has no duplicates. *)
ValidMultisig(members, threshold) ==
  /\ members # {}
  /\ Cardinality(members) <= MAX_MULTISIG_SIGNERS
  /\ threshold > 0
  /\ threshold <= Cardinality(members)

InitAdminMultisig(keys, members, threshold) ==
  /\ Admin \in keys
  /\ ~Exists
  /\ ValidMultisig(members, threshold)
  /\ multisig' = [members |-> members, threshold |-> threshold]
  /\ UNCHANGED <<signer, proposals, paused, time>>

RotateAdminMultisig(keys, members, threshold) ==
  /\ Exists
  /\ Quorum(multisig, keys)
  /\ ValidMultisig(members, threshold)
  /\ multisig' = [members |-> members, threshold |-> threshold]
  /\ UNCHANGED <<signer, proposals, paused, time>>

SetGlobalPause(keys, passed, value) ==
  /\ Authorized(keys, passed)
  /\ paused' = value
  /\ UNCHANGED <<multisig, signer, proposals, time>>

-----------------------------------------------------------------------------
(* The timelock *)

NewProposalAtOnce(id, proposer, new) ==
  [id |-> id, status |-> "pending", proposer |-> proposer, newSigner |-> new,
   proposedAt |-> time, executableAfter |-> time]

NewProposal(id, proposer, new) ==
  [id |-> id, status |-> "pending", proposer |-> proposer, newSigner |-> new,
   proposedAt |-> time, executableAfter |-> time + TIMELOCK_DELAY_SECS]

(* The proposer pays and signs; it need not be one of the administrators, if  *)
(* enough of them sign as well.  The account of an id is created once.        *)
ProposeSetAttestationSigner(keys, passed, proposer, id, new) ==
  /\ proposer \in keys
  /\ Authorized(keys, passed)
  /\ \A p \in proposals : p.id # id
  /\ proposals' = proposals \cup {NewProposal(id, proposer, new)}
  /\ UNCHANGED <<multisig, signer, paused, time>>

SetStatus(p, status) == proposals' = (proposals \ {p}) \cup {[p EXCEPT !.status = status]}

IsPendingOrCancelled(p) == p.status # "executed"

IsPending(p) == p.status = "pending"

ExecuteSetAttestationSigner(keys, passed, p) ==
  /\ keys # {}
  /\ IsPending(p)
  /\ time >= p.executableAfter
  /\ Authorized(keys, passed)
  /\ signer' = p.newSigner
  /\ SetStatus(p, "executed")
  /\ UNCHANGED <<multisig, paused, time>>

(* Only the proposer may cancel, and needs nobody's authorization. *)
CancelTimelock(keys, p) ==
  /\ p.proposer \in keys
  /\ IsPending(p)
  /\ SetStatus(p, "cancelled")
  /\ UNCHANGED <<multisig, signer, paused, time>>

Tick ==
  /\ time < MaxTime
  /\ time' = time + 1
  /\ UNCHANGED <<multisig, signer, proposals, paused>>

-----------------------------------------------------------------------------
Next ==
  \/ \E keys, members \in SUBSET Keys, threshold \in 0..(MAX_MULTISIG_SIGNERS + 1) :
       \/ InitAdminMultisig(keys, members, threshold)
       \/ RotateAdminMultisig(keys, members, threshold)
  \/ \E keys \in SUBSET Keys, passed \in BOOLEAN :
       \/ \E value \in BOOLEAN : SetGlobalPause(keys, passed, value)
       \/ \E proposer \in Keys, id \in ProposalIds, new \in Signers :
            ProposeSetAttestationSigner(keys, passed, proposer, id, new)
       \/ \E p \in proposals : ExecuteSetAttestationSigner(keys, passed, p)
  \/ \E keys \in SUBSET Keys, p \in proposals : CancelTimelock(keys, p)
  \/ Tick

Spec == Init /\ [][Next]_vars

-----------------------------------------------------------------------------
(* Every value is of its type. *)
TypeOK ==
  /\ multisig \in [members : SUBSET Keys, threshold : Nat]
  /\ signer \in Signers
  /\ proposals \subseteq Proposals
  /\ paused \in BOOLEAN
  /\ time \in Nat

(* The members of the multisig can always reach its threshold, whatever the   *)
(* rotations, and never without a signature.                                  *)
QuorumReachable ==
  Exists => /\ Quorum(multisig, multisig.members)
            /\ ~Quorum(multisig, {})

(* The attestation signer is replaced only by one that has been on the table, *)
(* not cancelled, for the whole delay; the delay cannot be cut short by       *)
(* replacing the proposal, since its terms never change.                      *)
SignerDelayed ==
  [][signer' # signer =>
       \E p \in proposals : /\ p.status = "pending"
                            /\ p.newSigner = signer'
                            /\ p.proposedAt + TIMELOCK_DELAY_SECS <= time]_vars

Terms(p) == <<p.proposer, p.newSigner, p.proposedAt, p.executableAfter>>

(* A proposal is decided at most once, and its account is never reused: there *)
(* remains a proposal of its id, with the same terms, and a decided one stays *)
(* as it was decided.                                                         *)
DecidedOnce ==
  [][\A p \in proposals :
       /\ \E q \in proposals' : q.id = p.id
       /\ \A q \in proposals' : q.id = p.id =>
            /\ Terms(q) = Terms(p)
            /\ q.status = p.status \/ p.status = "pending"]_vars
=============================================================================
