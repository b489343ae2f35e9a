--------------------------- MODULE VotingContracts ---------------------------
(***************************************************************************)
(* Casting a vote on chain before V4: registration and ballots of V1 and   *)
(* V2 (contracts/VoterRegistry.sol, VotingContract.sol) and eligible       *)
(* ballots of V3 (EligibilityRootRegistry.sol, EligibleVotingContract.sol).*)
(* Owners may change verifiers and, until it is frozen, the roll while     *)
(* voters, their relayers and everybody else submit.                       *)
(*                                                                         *)
(* Nullifiers are numbers below 2 * SnarkField.  A proof is whatever makes *)
(* a verifier accept: the verifiers are sound, so a call is accepted only  *)
(* for a statement in Provable or Member.                                  *)
(***************************************************************************)
EXTENDS Integers, Sequences, SequencesExt

CONSTANTS
  Identities, Keys,        \* identity nullifiers, voting keys; none is zero
  Eligible,                \* <<identity, key>> an eligibility proof exists for
  SnarkField,
  Digests,                 \* vote package digests, none of them zero
  Provable,                \* <<nullifier as a field element, digest>>, V2
  Roots, InitialRoot,      \* eligibility roots, none of them zero
  Member,                  \* <<root, nullifier, digest>>, V3
  Nothing,                 \* address(0)
  MaxBallots, MaxVersion   \* bounds

ASSUME ContractsAssumption ==
  /\ SnarkField \in Nat \ {0}
  /\ Nothing \notin Keys
  /\ InitialRoot \in Roots
  /\ Provable \subseteq (0..SnarkField - 1) \X Digests
  /\ Member \subseteq Roots \X (0..SnarkField - 1) \X Digests

bytes32Values == 0..2 * SnarkField - 1

VARIABLES
  votingKeys,               \* identity -> key or Nothing
  isVotingKeyRegistered,    \* keys mapped to true
  eligibilityVerifier,      \* whether VoterRegistry has one
  ballotProofVerifier,      \* whether VotingContract has one
  isNullifierUsed,          \* nullifiers mapped to true (VotingContract)
  ballotPublicInputsHashOf, \* used nullifier -> "zero" or the proved digest
  ballots,                  \* BallotCommitted events
  currentRoot, rootVersion, rootFrozen,
  verifier,                 \* whether EligibleVotingContract has one
  isEligibleNullifierUsed,  \* its isNullifierUsed
  eligibleBallots           \* EligibleBallotCommitted events

registryVars == <<votingKeys, isVotingKeyRegistered, eligibilityVerifier>>
ballotVars == <<ballotProofVerifier, isNullifierUsed, ballotPublicInputsHashOf,
                ballots>>
rollVars == <<currentRoot, rootVersion, rootFrozen>>
eligibleVars == <<verifier, isEligibleNullifierUsed, eligibleBallots>>
contractVars == <<registryVars, ballotVars, rollVars, eligibleVars>>

ContractsInit ==
  /\ votingKeys = [i \in Identities |-> Nothing]
  /\ isVotingKeyRegistered = {}
  /\ eligibilityVerifier = FALSE
  /\ ballotProofVerifier = FALSE
  /\ isNullifierUsed = {}
  /\ ballotPublicInputsHashOf = [n \in {} |-> "zero"]
  /\ ballots = << >>
  /\ currentRoot = InitialRoot
  /\ rootVersion = 1
  /\ rootFrozen = FALSE
  /\ verifier = FALSE
  /\ isEligibleNullifierUsed = {}
  /\ eligibleBallots = << >>

-----------------------------------------------------------------------------
(* VoterRegistry *)

NewKeyUnchecked(key) == TRUE  \* seeded fault: one key for two identities

NewKey(key) == key \notin isVotingKeyRegistered

_register(identity, key) ==
  /\ key # Nothing
  /\ votingKeys[identity] = Nothing
  /\ NewKey(key)
  /\ votingKeys' = [votingKeys EXCEPT ![identity] = key]
  /\ isVotingKeyRegistered' = isVotingKeyRegistered \cup {key}
  /\ UNCHANGED <<eligibilityVerifier, ballotVars, rollVars, eligibleVars>>

(* The owner alone. *)
Register(identity, key) == _register(identity, key)

RegisterWithProof(identity, key) ==
  /\ eligibilityVerifier
  /\ <<identity, key>> \in Eligible
  /\ _register(identity, key)

SetEligibilityVerifier(set) ==
  /\ eligibilityVerifier' = set
  /\ UNCHANGED <<votingKeys, isVotingKeyRegistered, ballotVars, rollVars,
                 eligibleVars>>

-----------------------------------------------------------------------------
(* VotingContract *)

UnusedUnchecked(nullifier) == TRUE  \* seeded fault: NullifierAlreadyUsed dropped

Unused(nullifier) == nullifier \notin isNullifierUsed

(* ballotPublicInputsHash: "zero" or, of a proof, the digest it is for.    *)
_commitBallot(sender, identity, nullifier, digest, publicInputsHash) ==
  /\ Len(ballots) < MaxBallots
  /\ nullifier # 0
  /\ Unused(nullifier)
  /\ votingKeys[identity] = sender
  /\ isNullifierUsed' = isNullifierUsed \cup {nullifier}
  /\ ballotPublicInputsHashOf' =
       [n \in isNullifierUsed' |->
          IF n = nullifier THEN publicInputsHash ELSE ballotPublicInputsHashOf[n]]
  /\ ballots' = Append(ballots, [sender    |-> sender,    identity |-> identity,
                                 nullifier |-> nullifier, digest   |-> digest])
  /\ UNCHANGED <<registryVars, ballotProofVerifier, rollVars, eligibleVars>>

SubmitBallot(sender, identity, nullifier, digest) ==
  _commitBallot(sender, identity, nullifier, digest, "zero")

AnyNullifier(nullifier) == TRUE  \* seeded fault: no NonCanonicalBallotNullifier

Canonical(nullifier) == nullifier < SnarkField

(* The adapter reduces the nullifier before it compares it with a signal.  *)
SubmitBallotWithProof(sender, identity, nullifier, digest) ==
  /\ Canonical(nullifier)
  /\ ballotProofVerifier
  /\ <<nullifier % SnarkField, digest>> \in Provable
  /\ _commitBallot(sender, identity, nullifier, digest, digest)

SetBallotProofVerifier(set) ==
  /\ ballotProofVerifier' = set
  /\ UNCHANGED <<registryVars, isNullifierUsed, ballotPublicInputsHashOf,
                 ballots, rollVars, eligibleVars>>

-----------------------------------------------------------------------------
(* EligibilityRootRegistry *)

UpdateRoot(newRoot) ==
  /\ ~rootFrozen
  /\ newRoot # currentRoot
  /\ rootVersion < MaxVersion
  /\ currentRoot' = newRoot
  /\ rootVersion' = rootVersion + 1
  /\ UNCHANGED <<rootFrozen, registryVars, ballotVars, eligibleVars>>

FreezeRoot ==
  /\ ~rootFrozen
  /\ rootFrozen' = TRUE
  /\ UNCHANGED <<currentRoot, rootVersion, registryVars, ballotVars,
                 eligibleVars>>

-----------------------------------------------------------------------------
(* EligibleVotingContract *)

CurrentRoot(root) == root = currentRoot  \* seeded fault: frozen or not

RollIsFinal(root) == rootFrozen /\ root = currentRoot

SubmitEligibleBallot(root, nullifier, digest) ==
  /\ Len(eligibleBallots) < MaxBallots
  /\ RollIsFinal(root)
  /\ nullifier \in 1..SnarkField - 1
  /\ nullifier \notin isEligibleNullifierUsed
  /\ verifier
  /\ <<root, nullifier, digest>> \in Member
  /\ isEligibleNullifierUsed' = isEligibleNullifierUsed \cup {nullifier}
  /\ eligibleBallots' = Append(eligibleBallots,
       [root |-> root, nullifier |-> nullifier, digest |-> digest])
  /\ UNCHANGED <<verifier, registryVars, ballotVars, rollVars>>

SetVerifier(set) ==
  /\ verifier' = set
  /\ UNCHANGED <<isEligibleNullifierUsed, eligibleBallots, registryVars,
                 ballotVars, rollVars>>

-----------------------------------------------------------------------------
VotingNext ==
  \/ \E i \in Identities, k \in Keys \cup {Nothing} :
       Register(i, k) \/ RegisterWithProof(i, k)
  \/ \E set \in BOOLEAN : SetEligibilityVerifier(set)
  \/ \E s \in Keys, i \in Identities, n \in bytes32Values, d \in Digests :
       SubmitBallot(s, i, n, d) \/ SubmitBallotWithProof(s, i, n, d)
  \/ \E set \in BOOLEAN : SetBallotProofVerifier(set)
  \/ \E r \in Roots : UpdateRoot(r)
  \/ FreezeRoot
  \/ \E r \in Roots, n \in bytes32Values, d \in Digests :
       SubmitEligibleBallot(r, n, d)
  \/ \E set \in BOOLEAN : SetVerifier(set)

VotingSpec == ContractsInit /\ [][VotingNext]_contractVars

-----------------------------------------------------------------------------
(* Properties *)

(* Whoever registered whom, by the owner or by a proof, a voting key       *)
(* stands for one identity, and every V1 or V2 ballot was sent by the key  *)
(* that stands for its identity for good.                                  *)
OneKeyPerIdentity ==
  /\ isVotingKeyRegistered =
       {votingKeys[i] : i \in Identities} \ {Nothing}
  /\ \A i, j \in Identities :
       votingKeys[i] = votingKeys[j] /\ votingKeys[i] # Nothing => i = j
  /\ \A b \in ToSet(ballots) : votingKeys[b.identity] = b.sender

(* Both ways to submit share one set of nullifiers: what a nullifier was   *)
(* committed to, and whether it was proved, is never changed by the other. *)
CommitmentsFinal ==
  [][\A n \in isNullifierUsed :
       /\ ballotPublicInputsHashOf'[n] = ballotPublicInputsHashOf[n]
       /\ \A b \in ToSet(ballots') : b.nullifier = n => b \in ToSet(ballots)
    ]_contractVars

Proved == {i \in DOMAIN ballots :
             ballotPublicInputsHashOf[ballots[i].nullifier] # "zero"}

(* A credential has one proved ballot, though the adapter would accept its *)
(* nullifier in each of its encodings; and the recorded hash is that of    *)
(* the ballot's own proof.                                                 *)
OneProvedBallotPerCredential ==
  /\ \A i, j \in Proved :
       ballots[i].nullifier % SnarkField = ballots[j].nullifier % SnarkField
         => i = j
  /\ \A i \in Proved :
       ballotPublicInputsHashOf[ballots[i].nullifier] = ballots[i].digest

(* However often the roll changed before, every eligible ballot proves     *)
(* membership in the one roll that is current for good, and no credential  *)
(* has two, whoever relays them and whichever verifiers come and go.       *)
OneRoll ==
  /\ \A b \in ToSet(eligibleBallots) : rootFrozen /\ b.root = currentRoot
  /\ \A i, j \in DOMAIN eligibleBallots :
       eligibleBallots[i].nullifier = eligibleBallots[j].nullifier => i = j
==============================================================================
