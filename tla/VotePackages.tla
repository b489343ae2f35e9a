---------------------------- MODULE VotePackages ----------------------------
(***************************************************************************)
(* Vote packages, versions 1 to 3: how a voter's client makes one and what *)
(* whoever reads one checks (packages/crypto/src: index.ts for V1,         *)
(* proofCompatibleBallot.ts and proofCompatiblePipeline.ts for V2,         *)
(* eligibleBallot.ts and eligiblePipeline.ts for V3).                      *)
(*                                                                         *)
(* A ballot is what the voter brings: see Ballot below.  A package is the  *)
(* file made from it.  Encodings, JSON and key order are abstracted: two   *)
(* packages have one digest exactly when they are equal.  bytes32 values   *)
(* matter only for nullifiers: they are the numbers below 2 * SnarkField,  *)
(* of which the circuits see the value modulo SnarkField.                  *)
(***************************************************************************)
EXTENDS ThresholdElGamal, MerkleTrees

CONSTANTS
  SnarkField,      \* size of the circuits' field
  Elections,       \* election ids
  CandidateLists,  \* candidate list hashes
  Positions,       \* 0..2^depth - 1, the positions of the eligibility tree
  Depth,           \* ELIGIBILITY_TREE_DEPTH
  ContentIds,      \* trimmed content ids, NoContentId among them
  NoContentId,     \* ""
  NullifierOf      \* <<election, position>> -> Poseidon nullifier, injective

ASSUME PackageAssumption ==
  /\ SnarkField \in Nat
  /\ Positions = 0..2 ^ Depth - 1
  /\ NoContentId \in ContentIds
  /\ NullifierOf \in [Elections \X Positions -> 0..SnarkField - 1]
  /\ \A x, y \in DOMAIN NullifierOf : NullifierOf[x] = NullifierOf[y] => x = y

(* position: where the voter's credential is in the roll; roll: the        *)
(* registered positions in the tree the voter proves against; privateKey:  *)
(* of the election key the ballot is encrypted to; damage: what happened   *)
(* to the file before it was batched.  Voters' clients are honest: every   *)
(* ciphertext is one choice, one-hot.  No reader of a V1 or V2 package     *)
(* verifies its proof, so another plaintext would pass there as well; such *)
(* ballots are outside this model.                                         *)
Ballot == {b \in [id            : BallotIds,
                   position      : Positions,
                   roll          : SUBSET Positions,
                   choice        : Candidates,
                   election      : Elections,
                   candidateList : CandidateLists,
                   privateKey    : 1..Order - 1,
                   contentId     : ContentIds,
                   damage        : {"none", "reencoded", "swapped", "badProof"}] :
             b.position \in b.roll}   \* no membership is built for another

bytes32ToSnarkField(value) == value % SnarkField

CanonicalUnchecked(value) == TRUE  \* seeded fault: any bytes32 is accepted

assertCanonicalField(value) == value < SnarkField

PublicKeyOf(ballot) == Multiply(Base, ballot.privateKey)

-----------------------------------------------------------------------------
(* Version 1 *)

computeBallotPublicInputsHash(p) ==
  <<"SVB_BALLOT_PUBLIC_INPUTS_V1", p.electionId, p.candidateListHash,
    p.ballotNullifier, digestBallotCiphertext(p.ciphertext)>>

VotePackageV1(ballot) ==
  LET unproved == [version           |-> 1,
                   electionId        |-> ballot.election,
                   candidateListHash |-> ballot.candidateList,
                   ballotNullifier   |-> NullifierOf[<<ballot.election, ballot.position>>],
                   ciphertext        |-> encryptBallotSelection(PublicKeyOf(ballot),
                                           ballot.choice, ballot.id)]
  IN  Extended(unproved,
        [publicInputsHash |-> computeBallotPublicInputsHash(unproved),
         proof            |-> TRUE])

validateVotePackage(p) ==
  /\ p.version = 1
  /\ p.publicInputsHash = computeBallotPublicInputsHash(p)

digestVotePackage(p) == <<"SVB_VOTE_PACKAGE_V1", p>>

hashPackageLeaf(contentId, p) ==
  <<"SVB_PACKAGE_LEAF_V1", contentId, digestVotePackage(p), p.ballotNullifier>>

-----------------------------------------------------------------------------
(* Version 2: the proof carries the public signals it was made for; no     *)
(* reader of a V1 or V2 package verifies the proof itself.                 *)

(* Poseidon over the fields of the statement. *)
computeProofCompatiblePackageCommitment(p) ==
  <<"commitment", p.electionId, p.candidateListHash,
    bytes32ToSnarkField(p.ballotNullifier), p.ciphertext>>

PublicSignalsV2(p) ==
  <<"signals", p.electionId, p.candidateListHash,
    bytes32ToSnarkField(p.ballotNullifier),
    computeProofCompatiblePackageCommitment(p), p.ciphertext>>

VotePackageV2(ballot) ==
  LET unproved == [version           |-> 2,
                   electionId        |-> ballot.election,
                   candidateListHash |-> ballot.candidateList,
                   ballotNullifier   |-> NullifierOf[<<ballot.election, ballot.position>>],
                   ciphertext        |-> encryptProofCompatibleBallot(
                                           PublicKeyOf(ballot), ballot.choice,
                                           ballot.id)]
  IN  Extended(unproved,
        [packageCommitment |-> computeProofCompatiblePackageCommitment(unproved),
         publicSignals     |-> PublicSignalsV2(unproved),
         proof             |-> TRUE])

validateProofCompatibleVotePackage(p) ==
  /\ p.version = 2
  /\ p.packageCommitment = computeProofCompatiblePackageCommitment(p)
  /\ p.publicSignals = PublicSignalsV2(p)

digestProofCompatibleVotePackage(p) == <<"SVB_VOTE_PACKAGE_V2", p>>

PackageLeafV2(contentId, p) ==
  <<"SVB_PACKAGE_LEAF_V2", contentId, digestProofCompatibleVotePackage(p),
    p.ballotNullifier, p.packageCommitment>>

-----------------------------------------------------------------------------
(* Version 3: the voter shows a credential of the eligibility roll.        *)

(* One credential at each position, its secret and nonce its own. *)
computeEligibilityCredentialCommitment(position) == <<"credential", position>>

Membership(ballot) ==
  buildEligibilityMembership(
    [i \in ballot.roll |-> computeEligibilityCredentialCommitment(i)],
    ballot.position, Depth)

RollRoot(roll) ==
  EligibilityLevels([i \in roll |-> computeEligibilityCredentialCommitment(i)],
                    Depth)[Depth][0]

computeEligibleBallotNullifier(election, position) ==
  NullifierOf[<<election, position>>]

(* Poseidon reduces its inputs, the signals are the numbers themselves. *)
computeEligiblePackageCommitment(p) ==
  <<"commitment", p.electionId, p.candidateListHash, p.eligibilityRoot,
    bytes32ToSnarkField(p.ballotNullifier), p.ciphertext>>

PublicSignalsV3(p) ==
  <<"signals", p.electionId, p.candidateListHash, p.eligibilityRoot,
    p.ballotNullifier, computeEligiblePackageCommitment(p), p.ciphertext>>

(* The constraints of eligible_ballot.circom on a ballot's witness and the *)
(* public inputs p and packageCommitment: the credential is at the end of  *)
(* a path to the root, the nullifier is its own, the ciphertext is the     *)
(* one-hot encryption of the choice, the commitment is to all of these.    *)
CircuitSatisfied(ballot, p, packageCommitment) ==
  LET membership == Membership(ballot)
  IN  /\ PathRoot(computeEligibilityCredentialCommitment(ballot.position),
                  membership.pathElements, membership.pathIndices)
           = p.eligibilityRoot
      /\ computeEligibleBallotNullifier(p.electionId, ballot.position)
           = bytes32ToSnarkField(p.ballotNullifier)
      /\ p.ciphertext = encryptProofCompatibleBallot(PublicKeyOf(ballot),
                                                     ballot.choice, ballot.id)
      /\ packageCommitment = computeEligiblePackageCommitment(p)

buildEligibleBallotWitness(ballot) ==
  LET unproved == [version           |-> 3,
                   electionId        |-> ballot.election,
                   candidateListHash |-> ballot.candidateList,
                   eligibilityRoot   |-> Membership(ballot).eligibilityRoot,
                   ballotNullifier   |-> computeEligibleBallotNullifier(
                                           ballot.election, ballot.position),
                   ciphertext        |-> encryptProofCompatibleBallot(
                                           PublicKeyOf(ballot), ballot.choice,
                                           ballot.id)]
  IN  Extended(unproved,
        [packageCommitment |-> computeEligiblePackageCommitment(unproved),
         publicSignals     |-> PublicSignalsV3(unproved),
         proof             |-> CircuitSatisfied(ballot, unproved,
                                computeEligiblePackageCommitment(unproved))])

validateEligibleVotePackage(p) ==
  /\ p.version = 3
  /\ assertCanonicalField(p.ballotNullifier)
  /\ p.packageCommitment = computeEligiblePackageCommitment(p)
  /\ p.publicSignals = PublicSignalsV3(p)

(* snarkjs' verdict on the proof and the signals it carries. *)
verifyEligibleVotePackageProof(p) == validateEligibleVotePackage(p) /\ p.proof

digestEligibleVotePackage(p) == <<"SVB_ELIGIBLE_VOTE_PACKAGE_V3", p>>

PackageLeafV3(contentId, p) ==
  <<"SVB_ELIGIBLE_PACKAGE_LEAF_V3", contentId, digestEligibleVotePackage(p),
    p.eligibilityRoot, p.ballotNullifier, p.packageCommitment, p.publicSignals>>

-----------------------------------------------------------------------------
(* The file as the batcher finds it: its nullifier (and the signals it is  *)
(* one of) written with another representative of the same field element,  *)
(* its ciphertexts swapped, or its proof no proof.                         *)
Reencoded(p) ==
  LET q == [p EXCEPT !.ballotNullifier = p.ballotNullifier + SnarkField]
  IN  CASE p.version = 1 -> q
        [] p.version = 2 -> [q EXCEPT !.publicSignals = PublicSignalsV2(q)]
        [] p.version = 3 -> [q EXCEPT !.publicSignals = PublicSignalsV3(q)]

Damaged(damage, p) ==
  CASE damage = "none" -> p
    [] damage = "reencoded" -> Reencoded(p)
    [] damage = "swapped" ->
         [p EXCEPT !.ciphertext.c1 = p.ciphertext.c2,
                   !.ciphertext.c2 = p.ciphertext.c1]
    [] damage = "badProof" -> [p EXCEPT !.proof = FALSE]

StoredPackage(version, ballot) ==
  [contentId |-> ballot.contentId,
   package   |-> Damaged(ballot.damage,
                   CASE version = 1 -> VotePackageV1(ballot)
                     [] version = 2 -> VotePackageV2(ballot)
                     [] version = 3 -> buildEligibleBallotWitness(ballot))]
=============================================================================
