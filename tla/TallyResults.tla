---------------------------- MODULE TallyResults ----------------------------
(***************************************************************************)
(* From an encrypted tally to a published result: the key set a ceremony   *)
(* publishes, the share file of a trustee and the result of each version   *)
(* (scripts create_threshold_ceremony, create_trustee_decryption_share,    *)
(* build_tally_result, finalize_proof_compatible_tally,                    *)
(* finalize_eligible_tally).                                               *)
(*                                                                         *)
(* A ceremony is [privateKey, coefficients, trusteeCount].  A step that    *)
(* throws gives {}, one that writes r gives {r}.                           *)
(***************************************************************************)
EXTENDS BatchManifests

KeySet(version, ceremony) ==
  IF version = 1
    THEN createThresholdElectionKeyShares(ceremony.privateKey,
           ceremony.coefficients, ceremony.trusteeCount)
    ELSE createProofCompatibleThresholdKeySet(ceremony.privateKey,
           ceremony.coefficients, ceremony.trusteeCount)

transcriptDigest(keySet) ==
  <<"SVB_THRESHOLD_CEREMONY_V1", keySet.threshold, keySet.publicKeyHash,
    keySet.publicShares>>

(* threshold-public-keyset.json *)
PublicKeyset(keySet) ==
  [threshold           |-> keySet.threshold,
   publicKeyHash       |-> keySet.publicKeyHash,
   trusteePublicShares |-> keySet.publicShares,
   transcriptDigest    |-> transcriptDigest(keySet)]

(* trustee-i-private-share.json *)
PrivateShareFiles(keySet) ==
  {[trusteeIndex          |-> i,
    privateShare          |-> keySet.privateShares[i],
    publicShare           |-> keySet.publicShares[i],
    electionPublicKeyHash |-> keySet.publicKeyHash,
    transcriptDigest      |-> transcriptDigest(keySet)] :
   i \in DOMAIN keySet.privateShares}

EncryptedTallyHash(tally) ==
  CASE tally.version = 1 -> computeEncryptedTallyPublicInputsHash(tally)
    [] tally.version = 2 -> computeProofCompatibleEncryptedTallyHash(tally)
    [] tally.version = 3 -> computeEligibleEncryptedTallyHash(tally)

(* The share file a trustee makes of a private share and a tally; trustee  *)
(* is the index it writes.  V1 checks nothing.                             *)
ShareFileV1(private, trustee, tally) ==
  {createTallyDecryptionShare(private.privateShare, trustee,
                              tally.aggregateCiphertext)}

ShareFileV3(private, trustee, tally) ==
  {[ceremonyTranscriptDigest       |-> private.transcriptDigest,
    encryptedTallyPublicInputsHash |-> EncryptedTallyHash(tally),
    share                          |-> share,
    shareDigest                    |-> digestProofCompatibleDecryptionShare(share)] :
   share \in
     {s \in {createProofCompatibleDecryptionShare(private.privateShare, trustee,
                                                  tally.aggregateCiphertext)} :
        /\ private.electionPublicKeyHash = s.electionPublicKeyHash
        /\ private.publicShare = s.trusteePublicShare}}

-----------------------------------------------------------------------------
(* Hashes of results *)

(* transcripts: {} or, in V3, {the ceremony's transcript digest}.          *)
computeTallyResultHash(tally, counts, shareDigests, transcripts) ==
  <<"SVB_TALLY_RESULT", tally.version, tally.electionId,
    tally.candidateListHash, tally.aggregateCiphertext,
    IF tally.version = 3 THEN EncryptedTallyHash(tally) ELSE <<"unbound">>,
    counts, shareDigests, transcripts>>

computeTallyProofPublicInputsHash(tally, counts, shareDigests, transcripts) ==
  <<"SVB_TALLY_PROOF_PUBLIC_INPUTS", BatchDigests(tally),
    computeTallyResultHash(tally, counts, shareDigests, transcripts)>>

Result(tally, countses, shareDigests, transcripts) ==
  {[tally                      |-> tally,
    tallyCounts                |-> counts,
    tallyProofPublicInputsHash |-> computeTallyProofPublicInputsHash(tally,
                                     counts, shareDigests, transcripts)] :
   counts \in countses}

-----------------------------------------------------------------------------
(* Results.  maxVotes is left at its default, the ballots of the tally.    *)

(* build_tally_result: the operator names the threshold; the digests are   *)
(* those of all the shares given, verified or not.                         *)
buildTallyResult(tally, shares, threshold) ==
  Result(tally,
    decryptAggregatedTallyWithShares(tally.aggregateCiphertext, shares,
                                     threshold, tally.ballotCount),
    [i \in DOMAIN shares |->
       digestTallyDecryptionShare(tally.aggregateCiphertext, shares[i])], {})

(* finalize_proof_compatible_tally: one process makes the key set again    *)
(* from its secrets and plays the first trustees itself; the key set and   *)
(* share files it also writes are read by nothing.                         *)
finalizeProofCompatibleTally(tally, ceremony) ==
  UNION {LET shares == [i \in 1..keySet.threshold |->
                          createProofCompatibleDecryptionShare(
                            keySet.privateShares[i], i,
                            tally.aggregateCiphertext)]
         IN  Result(tally,
               decryptProofCompatibleTallyWithShares(tally.aggregateCiphertext,
                 shares, keySet.threshold, tally.ballotCount),
               [i \in DOMAIN shares |->
                  digestProofCompatibleDecryptionShare(shares[i])], {}) :
         keySet \in {k \in KeySet(2, ceremony) :
                       k.publicKeyHash =
                         tally.aggregateCiphertext.electionPublicKeyHash}}

(* finalize_eligible_tally: of each selected share file *)
KnownShare(keyset, tally, file) ==
  /\ file.ceremonyTranscriptDigest = keyset.transcriptDigest
  /\ file.encryptedTallyPublicInputsHash = EncryptedTallyHash(tally)
  /\ file.share.trusteeIndex \in DOMAIN keyset.trusteePublicShares
  /\ keyset.trusteePublicShares[file.share.trusteeIndex]
       = file.share.trusteePublicShare
  /\ file.shareDigest = digestProofCompatibleDecryptionShare(file.share)
  /\ verifyProofCompatibleDecryptionShare(tally.aggregateCiphertext, file.share)

finalizeEligibleTally(tally, keyset, files) ==
  LET selected == SubSeq(files, 1, keyset.threshold)
      shares   == [i \in DOMAIN selected |-> selected[i].share]
  IN  IF /\ keyset.publicKeyHash = tally.aggregateCiphertext.electionPublicKeyHash
         /\ Len(files) >= keyset.threshold
         /\ DistinctIndexes(shares)
         /\ \A i \in DOMAIN selected : KnownShare(keyset, tally, selected[i])
        THEN Result(tally,
               decryptProofCompatibleTallyWithShares(tally.aggregateCiphertext,
                 shares, keyset.threshold, tally.ballotCount),
               [i \in DOMAIN shares |->
                  digestProofCompatibleDecryptionShare(shares[i])],
               {keyset.transcriptDigest})
        ELSE {}
=============================================================================
