--------------------------- MODULE BatchManifests ---------------------------
(***************************************************************************)
(* From vote packages to batch manifests, inclusion receipts and encrypted *)
(* tallies (packages/crypto/src and the build_*_batch, build_*_tally and   *)
(* build_tally_input scripts).                                             *)
(*                                                                         *)
(* A manifest record holds what its digest is computed from; the digest is *)
(* that record under the version's domain.  The code first sorts the       *)
(* packages of a batch by digest: here they are given sorted.  Building    *)
(* returns the accumulator as the call leaves it, and {} or {manifest}.    *)
(***************************************************************************)
EXTENDS VotePackages

addManyUnchecked(seen, nullifiers) ==  \* seeded fault: add does not throw
  [seen |-> seen \cup ToSet(nullifiers), ok |-> TRUE]

(* NullifierAccumulator.add and addMany: the first nullifier already there *)
(* throws, and nothing undoes those added before it.                       *)
addMany(seen, nullifiers) ==
  LET fresh(k) == /\ nullifiers[k] \notin seen
                  /\ \A j \in 1..k - 1 : nullifiers[j] # nullifiers[k]
      added == {k \in DOMAIN nullifiers : \A j \in 1..k : fresh(j)}
  IN  [seen |-> seen \cup {nullifiers[k] : k \in added},
       ok   |-> added = DOMAIN nullifiers]

\* seeded fault: the accumulator is not compared with the chain
RootUnchecked(previousNullifierRoot, seen) == TRUE

RootMatches(previousNullifierRoot, seen) ==
  nullifierSetRoot(seen) = previousNullifierRoot

Nullifiers(stored) == [i \in DOMAIN stored |-> stored[i].package.ballotNullifier]

HaveContentIds(stored) ==
  \A i \in DOMAIN stored : stored[i].contentId # NoContentId

Built(guard, seen, added, manifests) ==
  IF guard THEN [accumulator |-> added.seen,
                 manifests   |-> IF added.ok THEN manifests ELSE {}]
           ELSE [accumulator |-> seen, manifests |-> {}]

-----------------------------------------------------------------------------
(* Version 1: the content ids are read after the nullifiers were added.    *)
buildBatchManifest(election, previousNullifierRoot, stored, seen) ==
  LET added == addMany(seen, Nullifiers(stored))
      leaves == [i \in DOMAIN stored |->
                   hashPackageLeaf(stored[i].contentId, stored[i].package)]
      manifest == [version               |-> 1,
                   electionId            |-> election,
                   previousNullifierRoot |-> previousNullifierRoot,
                   nullifierRoot         |-> nullifierSetRoot(added.seen),
                   cidMerkleRoot         |-> merkleRoot(leaves),
                   packageDigests        |-> [i \in DOMAIN stored |->
                                         digestVotePackage(stored[i].package)],
                   packageLeafHashes     |-> leaves,
                   ballotNullifiers      |-> Nullifiers(stored)]
  IN  Built(/\ stored # << >>
            /\ RootMatches(previousNullifierRoot, seen)
            /\ \A i \in DOMAIN stored :
                 /\ validateVotePackage(stored[i].package)
                 /\ stored[i].package.electionId = election,
            seen, added,
            {m \in {manifest} : HaveContentIds(stored)})

(* Version 2: so is whether the ciphertexts are for one key. *)
buildProofCompatibleBatchManifest(election, previousNullifierRoot, stored, seen) ==
  LET added == addMany(seen, Nullifiers(stored))
      leaves == [i \in DOMAIN stored |->
                   PackageLeafV2(stored[i].contentId, stored[i].package)]
      manifests ==
        {[version               |-> 2,
          electionId            |-> election,
          previousNullifierRoot |-> previousNullifierRoot,
          nullifierRoot         |-> nullifierSetRoot(added.seen),
          cidMerkleRoot         |-> merkleRoot(leaves),
          aggregateCiphertext   |-> aggregate,
          packageDigests        |-> [i \in DOMAIN stored |->
                          digestProofCompatibleVotePackage(stored[i].package)],
          packageLeafHashes     |-> leaves,
          ballotNullifiers      |-> Nullifiers(stored)] :
         aggregate \in aggregateProofCompatibleCiphertexts(
           [i \in DOMAIN stored |-> stored[i].package.ciphertext])}
  IN  Built(/\ stored # << >>
            /\ RootMatches(previousNullifierRoot, seen)
            /\ \A i \in DOMAIN stored :
                 /\ validateProofCompatibleVotePackage(stored[i].package)
                 /\ stored[i].package.electionId = election,
            seen, added,
            {m \in manifests : HaveContentIds(stored)})

(* Version 3: everything else is checked first, but repeated nullifiers    *)
(* are still found one by one.                                             *)
EligibleBatch(election, eligibilityRoot, stored) ==
  /\ stored # << >>
  /\ HaveContentIds(stored)
  /\ \A i \in DOMAIN stored :
       LET p == stored[i].package
           first == stored[1].package
       IN  /\ validateEligibleVotePackage(p)
           /\ p.electionId = election
           /\ p.eligibilityRoot = eligibilityRoot
           /\ p.candidateListHash = first.candidateListHash
           /\ p.ciphertext.electionPublicKeyHash =
                first.ciphertext.electionPublicKeyHash
           /\ verifyEligibleVotePackageProof(p)

buildEligibleBatchManifest(election, eligibilityRoot, previous, stored, seen) ==
  LET added == addMany(seen, Nullifiers(stored))
      leaves == [i \in DOMAIN stored |->
                   PackageLeafV3(stored[i].contentId, stored[i].package)]
      manifests ==
        {[version               |-> 3,
          electionId            |-> election,
          candidateListHash     |-> stored[1].package.candidateListHash,
          eligibilityRoot       |-> eligibilityRoot,
          electionPublicKeyHash |->
                     stored[1].package.ciphertext.electionPublicKeyHash,
          previousNullifierRoot |-> previous,
          nullifierRoot         |-> nullifierSetRoot(added.seen),
          cidMerkleRoot         |-> merkleRoot(leaves),
          aggregateCiphertext   |-> aggregate,
          packageDigests        |-> [i \in DOMAIN stored |->
                             digestEligibleVotePackage(stored[i].package)],
          packageLeafHashes     |-> leaves,
          ballotNullifiers      |-> Nullifiers(stored)] :
         aggregate \in aggregateProofCompatibleCiphertexts(
           [i \in DOMAIN stored |-> stored[i].package.ciphertext])}
  IN  Built(/\ EligibleBatch(election, eligibilityRoot, stored)
            /\ RootMatches(previous, seen),
            seen, added, manifests)

(* The builder of each version, for an election and its roll. *)
BuildManifest(version, election, eligibilityRoot, previous, stored, seen) ==
  CASE version = 1 -> buildBatchManifest(election, previous, stored, seen)
    [] version = 2 ->
         buildProofCompatibleBatchManifest(election, previous, stored, seen)
    [] version = 3 -> buildEligibleBatchManifest(election, eligibilityRoot,
                                                 previous, stored, seen)

manifestDigest(manifest) == <<"SVB_BATCH_MANIFEST", manifest>>

(* The digest and, again, everything it was computed from. *)
computeBatchPublicInputsHash(manifest) ==
  <<"SVB_BATCH_PUBLIC_INPUTS", manifestDigest(manifest)>>

(* For the first package of that digest; leafIndex counts from zero. *)
buildInclusionReceipt(manifest, packageDigest) ==
  {[leafHash  |-> manifest.packageLeafHashes[i],
    leafIndex |-> i - 1,
    proof     |-> merkleProof(manifest.packageLeafHashes, i - 1)] :
   i \in {k \in DOMAIN manifest.packageDigests :
           /\ manifest.packageDigests[k] = packageDigest
           /\ \A j \in 1..k - 1 : manifest.packageDigests[j] # packageDigest}}

-----------------------------------------------------------------------------
(* Encrypted tallies: every accepted batch is built again from its         *)
(* packages, with one accumulator, and compared with its artifact.         *)

\* seeded fault: the rebuilt manifest is not compared with the artifact
MatchesAnything(artifact, rebuilt) == rebuilt # {}

(* assertManifestMatchesArtifact and its kin *)
Matches(artifact, rebuilt) == artifact \in rebuilt

(* input.batches is a sequence of [artifact, packages]. *)
ReplayBatch(version, input, run, batch) ==
  LET rebuilt == BuildManifest(version, input.electionId, input.eligibilityRoot,
                               batch.artifact.previousNullifierRoot,
                               batch.packages, run.accumulator)
  IN  [accumulator |-> rebuilt.accumulator,
       ok          |-> Matches(batch.artifact, rebuilt.manifests)]

Replay(version, input) ==
  LET run[i \in 0..Len(input.batches)] ==
        IF i = 0 THEN [accumulator |-> input.known, ok |-> TRUE]
        ELSE IF run[i - 1].ok
               THEN ReplayBatch(version, input, run[i - 1], input.batches[i])
               ELSE run[i - 1]
  IN  run[Len(input.batches)].ok

Manifests(input) == [i \in DOMAIN input.batches |-> input.batches[i].artifact]

Packages(input) ==
  FlattenSeq([i \in DOMAIN input.batches |->
                [j \in DOMAIN input.batches[i].packages |->
                   input.batches[i].packages[j].package]])

Ciphertexts(input) ==
  [i \in DOMAIN Packages(input) |-> Packages(input)[i].ciphertext]

ListsMatch(input) ==
  \A i \in DOMAIN Packages(input) :
    Packages(input)[i].candidateListHash = input.candidateListHash

EncryptedTally(version, input, aggregate) ==
  [version             |-> version,
   electionId          |-> input.electionId,
   candidateListHash   |-> input.candidateListHash,
   eligibilityRoot     |-> input.eligibilityRoot,
   ballotCount         |-> Len(Packages(input)),
   aggregateCiphertext |-> aggregate,
   acceptedBatches     |-> Manifests(input)]

(* build_tally_input *)
buildTallyInput(input) ==
  {EncryptedTally(1, input, aggregate) :
     aggregate \in aggregateBallotCiphertexts(
       IF input.batches # << >> /\ Replay(1, input) /\ ListsMatch(input)
         THEN Ciphertexts(input) ELSE << >>)}

AggregateOfBatches(input) ==
  aggregateProofCompatibleCiphertexts(
    [i \in DOMAIN input.batches |->
       input.batches[i].artifact.aggregateCiphertext])

(* build_proof_compatible_tally *)
buildProofCompatibleTally(input) ==
  IF input.batches # << >> /\ Replay(2, input) /\ ListsMatch(input)
    THEN {EncryptedTally(2, input, aggregate) :
            aggregate \in AggregateOfBatches(input)}
    ELSE {}

(* build_eligible_tally: the list is the one the rebuilt manifest names. *)
buildEligibleTally(input) ==
  IF /\ input.batches # << >>
     /\ Replay(3, input)
     /\ \A i \in DOMAIN input.batches :
          input.batches[i].artifact.candidateListHash = input.candidateListHash
    THEN {EncryptedTally(3, input, aggregate) :
            aggregate \in AggregateOfBatches(input)}
    ELSE {}

BuildEncryptedTally(version, input) ==
  CASE version = 1 -> buildTallyInput(input)
    [] version = 2 -> buildProofCompatibleTally(input)
    [] version = 3 -> buildEligibleTally(input)

(* encryptedTallyPublicInputsHash: what a trustee's share is bound to. *)
BatchDigests(tally) ==
  [i \in DOMAIN tally.acceptedBatches |->
     computeBatchPublicInputsHash(tally.acceptedBatches[i])]

computeEncryptedTallyPublicInputsHash(tally) ==
  <<"SVB_ENCRYPTED_TALLY_PUBLIC_INPUTS_V1", tally.electionId,
    tally.candidateListHash, BatchDigests(tally),
    digestBallotCiphertext(tally.aggregateCiphertext)>>

computeProofCompatibleEncryptedTallyHash(tally) ==
  <<"SVB_ENCRYPTED_TALLY_PUBLIC_INPUTS_V2", tally.electionId,
    tally.candidateListHash, BatchDigests(tally),
    digestProofCompatibleCiphertext(tally.aggregateCiphertext)>>

computeEligibleEncryptedTallyHash(tally) ==
  <<"SVB_ELIGIBLE_ENCRYPTED_TALLY_INPUTS_V3", tally.electionId,
    tally.candidateListHash, tally.eligibilityRoot, BatchDigests(tally),
    digestProofCompatibleCiphertext(tally.aggregateCiphertext)>>
=============================================================================
