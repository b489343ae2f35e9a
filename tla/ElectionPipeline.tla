-------------------------- MODULE ElectionPipeline --------------------------
(***************************************************************************)
(* An election off chain, end to end: the ceremony that makes the election *)
(* key, the batches, the encrypted tally, the trustees' decryption shares  *)
(* and the result.  Everything the parties hand to each other is a file:   *)
(* a file may be of an earlier run, and a run may stop half way.           *)
(*                                                                         *)
(* V2 has no ceremony and no share files: one process holds the secrets.   *)
(***************************************************************************)
EXTENDS BatchPipeline, TallyResults

VARIABLES
  keyset,        \* the public key set file: {} or {keyset}
  privateFile,   \* trustee -> private share file: {} or {file}
  pending,       \* private share files the running ceremony has yet to write
  shareFile,     \* trustee -> decryption share file: {} or {file}
  result,        \* the last result file: {} or {result}
  runs,          \* ceremonies started (bounded)
  faults         \* crashes and damaged files (bounded)

ceremonyVars == <<keyset, privateFile, pending, runs>>
decryptionVars == <<shareFile, result>>
vars == <<scenario, batchVars, ceremonyVars, decryptionVars, faults>>

Trustees == 1..scenario.trusteeCount

Init ==
  /\ BatchInit
  /\ keyset = {}
  /\ privateFile = [i \in Trustees |-> {}]
  /\ pending = {}
  /\ shareFile = [i \in Trustees |-> {}]
  /\ result = {}
  /\ runs = 0
  /\ faults = 0

(* Voters encrypt to a published key. *)
KeyReady == version = 2 \/ (keyset # {} /\ pending = {})

Batching(step) ==
  KeyReady /\ step /\ UNCHANGED <<ceremonyVars, decryptionVars, faults>>

(* Bound: the exploration stops at a result, which nothing reads. *)
Open == result = {}

-----------------------------------------------------------------------------
(* create_threshold_ceremony, possibly run again into the same directory:  *)
(* the key set is written first, the private files in any order after it.  *)
(* V1 has no such script: the dealer hands the shares over at once.        *)
(* Bound: no ceremony while batching is under way, which never reads it.   *)
StartCeremony(ceremony) ==
  /\ version # 2
  /\ pending = {}
  /\ runs < scenario.maxRuns
  /\ tally # {} \/ artifacts = {}
  /\ \E keySet \in KeySet(version, ceremony) :
       /\ keyset' = {PublicKeyset(keySet)}
       /\ IF version = 1
            THEN /\ privateFile' = [i \in Trustees |->
                      {f \in PrivateShareFiles(keySet) : f.trusteeIndex = i}]
                 /\ UNCHANGED pending
            ELSE /\ pending' = PrivateShareFiles(keySet)
                 /\ UNCHANGED privateFile
  /\ runs' = runs + 1
  /\ UNCHANGED <<scenario, batchVars, decryptionVars, faults>>

WritePrivateShare(file) ==
  /\ file \in pending
  /\ privateFile' = [privateFile EXCEPT ![file.trusteeIndex] = {file}]
  /\ pending' = pending \ {file}
  /\ UNCHANGED <<scenario, batchVars, keyset, runs, decryptionVars, faults>>

CrashCeremony ==
  /\ pending # {}
  /\ faults < scenario.maxFaults
  /\ pending' = {}
  /\ faults' = faults + 1
  /\ UNCHANGED <<scenario, batchVars, keyset, privateFile, runs, decryptionVars>>

-----------------------------------------------------------------------------
(* The file a trustee's script writes for an index: {} when it throws. *)
ShareFile(private, trustee, encrypted) ==
  CASE version = 1 -> ShareFileV1(private, trustee, encrypted)
    [] version = 2 -> {}
    [] version = 3 -> ShareFileV3(private, trustee, encrypted)

(* Bound: the trustees up to maxShares. *)
CreateShare(i) ==
  \E private \in privateFile[i], encrypted \in tally :
    /\ i <= scenario.maxShares
    /\ ShareFile(private, i, encrypted) \notin {{}, shareFile[i]}
    /\ shareFile' = [shareFile EXCEPT ![i] = ShareFile(private, i, encrypted)]
    /\ UNCHANGED <<scenario, batchVars, ceremonyVars, result, faults>>

(* A trustee's share made for another trustee's index: its proofs hold. *)
MisnumberShare(i, other) ==
  \E private \in privateFile[i], encrypted \in tally :
    /\ faults < scenario.maxFaults
    /\ ShareFile(private, other, encrypted) # {}
    /\ shareFile' = [shareFile EXCEPT ![i] = ShareFile(private, other, encrypted)]
    /\ faults' = faults + 1
    /\ UNCHANGED <<scenario, batchVars, ceremonyVars, result>>

Shifted(share, c) ==
  [share EXCEPT !.decryptionSharePoints[c] = Add(@, Base)]

(* A share file with another point, its digest made to fit. *)
AlterShare(i, c) ==
  \E file \in shareFile[i] :
    /\ faults < scenario.maxFaults
    /\ shareFile' = [shareFile EXCEPT ![i] =
         {IF version = 1 THEN Shifted(file, c)
          ELSE [file EXCEPT !.share = Shifted(file.share, c),
                            !.shareDigest = digestProofCompatibleDecryptionShare(
                                              Shifted(file.share, c))]}]
    /\ faults' = faults + 1
    /\ UNCHANGED <<scenario, batchVars, ceremonyVars, result>>

-----------------------------------------------------------------------------
(* What the operator's list of trustees' files gives. *)
FilesOf(slots) == [n \in DOMAIN slots |-> CHOOSE f \in shareFile[slots[n]] : TRUE]

BuildTallyResult(slots, threshold) ==
  /\ version = 1
  /\ result' \in {{r} : r \in UNION {buildTallyResult(encrypted, FilesOf(slots),
                                              threshold) : encrypted \in tally}}
  /\ UNCHANGED <<scenario, batchVars, ceremonyVars, shareFile, faults>>

FinalizeProofCompatible(ceremony) ==
  /\ version = 2
  /\ result' \in {{r} : r \in UNION {finalizeProofCompatibleTally(encrypted,
                                              ceremony) : encrypted \in tally}}
  /\ UNCHANGED <<scenario, batchVars, ceremonyVars, shareFile, faults>>

FinalizeEligible(slots) ==
  /\ version = 3
  /\ result' \in {{r} : r \in UNION {finalizeEligibleTally(encrypted, k,
                           FilesOf(slots)) : encrypted \in tally, k \in keyset}}
  /\ UNCHANGED <<scenario, batchVars, ceremonyVars, shareFile, faults>>

(* Lists of share files, in any order, with repetitions.  Bound: maxFiles, *)
(* on the files listed and on the threshold an operator names.             *)
SlotLists ==
  UNION {[1..n -> {i \in Trustees : shareFile[i] # {}}] :
         n \in 1..scenario.maxFiles}

Next ==
  \/ Open /\ \E k \in 0..Len(batches) : Batching(StartBatcher(k))
  \/ Open /\ \E previous \in KnownRoots, list \in Lists :
                Batching(BuildBatch(previous, list))
  \/ Open /\ \E a \in artifacts : Batching(CommitBatch(a))
  \/ Open /\ \E entries \in EntryLists, k \in 0..Len(batches) :
                Batching(BuildTally(entries, k))
  \/ Open /\ \E ceremony \in scenario.ceremonies : StartCeremony(ceremony)
  \/ Open /\ \E file \in pending : WritePrivateShare(file)
  \/ Open /\ CrashCeremony
  \/ Open /\ \E i \in Trustees : CreateShare(i)
  \/ Open /\ \E i, other \in Trustees : i # other /\ MisnumberShare(i, other)
  \/ Open /\ \E i \in Trustees, c \in Candidates : AlterShare(i, c)
  \/ Open /\ \E slots \in SlotLists, threshold \in 1..scenario.maxFiles :
                BuildTallyResult(slots, threshold)
  \/ Open /\ \E ceremony \in scenario.ceremonies :
                FinalizeProofCompatible(ceremony)
  \/ Open /\ \E slots \in SlotLists : FinalizeEligible(slots)

Spec == Init /\ [][Next]_vars

-----------------------------------------------------------------------------
(* Properties *)

(* Every result, whichever share files it was made from (of an earlier     *)
(* ceremony, for an earlier tally, misnumbered, altered, listed twice),    *)
(* counts exactly the votes of the batches it names.                       *)
ResultsAreTrueCounts ==
  \A r \in result :
    r.tallyCounts =
      [c \in Candidates |-> VotesFor(c, BallotsIn(r.tally.acceptedBatches))]

(* Share files as the private files of the published ceremony give them    *)
(* for the present tally.                                                  *)
Good(k, encrypted) ==
  {i \in Trustees :
     \E private \in privateFile[i] :
       /\ private.transcriptDigest = k.transcriptDigest
       /\ shareFile[i] = ShareFile(private, i, encrypted)}

(* Enough good share files can always be finalized, in any order, whatever *)
(* the other trustees' files are: no bad share blocks an operator who      *)
(* leaves it out or, in version 3, lists it after enough good ones; and a  *)
(* ceremony finished after a crash lost nothing.  The programs verify the  *)
(* files they select: a bad one among them does block.                     *)
EnoughGoodSharesFinalize ==
  \A k \in keyset, encrypted \in tally :
    k.publicKeyHash = encrypted.aggregateCiphertext.electionPublicKeyHash =>
      \A slots \in [1..k.threshold -> Good(k, encrypted)] :
        IsInjective(slots) =>
          IF version = 1
            THEN buildTallyResult(encrypted, FilesOf(slots), k.threshold) # {}
            ELSE \A rest \in SlotLists \cup {<< >>} :
                   finalizeEligibleTally(encrypted, k, FilesOf(slots \o rest)) # {}
=============================================================================
