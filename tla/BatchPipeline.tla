--------------------------- MODULE BatchPipeline ---------------------------
(***************************************************************************)
(* Batching off chain: a batcher process with a NullifierAccumulator turns *)
(* packages into batch artifacts, the artifacts are committed to the V1-V3 *)
(* log (contracts/BatchCommitment.sol), and the tally operator rebuilds    *)
(* accepted artifacts into an encrypted tally.                             *)
(*                                                                         *)
(* The process may stop at any time and start again from the nullifiers    *)
(* the operator has on record, current or stale; artifacts are files, so   *)
(* what several batchers race to commit is what one restarted batcher      *)
(* leaves behind.                                                          *)
(***************************************************************************)
EXTENDS BatchManifests

CONSTANT Scenarios   \* the elections explored, each with its bounds

ASSUME ScenarioAssumption ==
  \A s \in Scenarios :
    /\ s.version \in 1..3
    /\ s.election \in Elections
    /\ s.candidateList \in CandidateLists
    /\ s.roll \subseteq Positions
    /\ s.trusteeCount \in Nat /\ s.maxFiles \in Nat
    /\ \A id \in DOMAIN s.ballots : s.ballots[id] \in Ballot /\ s.ballots[id].id = id
    /\ IsFiniteSet(DOMAIN s.ballots)
    /\ Cardinality(DOMAIN s.ballots) < Order   \* no ballots reach a real order
    /\ \A c \in s.ceremonies :
         /\ c.privateKey \in Int
         /\ c.coefficients \in Seq(Int)
         /\ c.trusteeCount \in Nat
         /\ c.trusteeCount < Order                 \* nor by the trustees

VARIABLES
  scenario,      \* chosen at the start
  accumulator,   \* NullifierAccumulator.#seen of the batcher process
  artifacts,     \* batch artifact files: [manifest, list]
  batches,       \* the log of the contract, a sequence of manifests
  tally          \* the encrypted tally file: {} or {tally}

batchVars == <<accumulator, artifacts, batches, tally>>

version == scenario.version
ballots == scenario.ballots
eligibilityRoot == RollRoot(scenario.roll)

Stored(list) ==
  [i \in DOMAIN list |-> StoredPackage(version, ballots[list[i]])]

(* Package lists as operators write them, in digest order; a package may   *)
(* be listed twice.                                                        *)
Lists == {list \in UNION {[1..n -> DOMAIN ballots] : n \in 1..scenario.maxList} :
            \A i, j \in DOMAIN list : i < j => list[i] <= list[j]}

NullifiersUpTo(k) == UNION {ToSet(batches[i].ballotNullifiers) : i \in 1..k}

RootAfter(k) == IF k = 0 THEN zeroHash ELSE batches[k].nullifierRoot

latestNullifierRoot == RootAfter(Len(batches))

BatchInit ==
  /\ scenario \in Scenarios
  /\ accumulator = {}
  /\ artifacts = {}
  /\ batches = << >>
  /\ tally = {}

-----------------------------------------------------------------------------
(* new NullifierAccumulator(knownPreviousNullifiers) *)
StartBatcher(k) ==
  /\ tally = {}
  /\ accumulator' = NullifiersUpTo(k)
  /\ UNCHANGED <<scenario, artifacts, batches, tally>>

(* One build in the running process.  One that throws writes no artifact,  *)
(* and may leave the accumulator grown.                                    *)
BuildBatch(previous, list) ==
  LET built == BuildManifest(version, scenario.election, eligibilityRoot,
                             previous, Stored(list), accumulator)
  IN  /\ tally = {}
      /\ Cardinality(artifacts) < scenario.maxArtifacts
      /\ built.accumulator # accumulator
      /\ accumulator' = built.accumulator
      /\ artifacts' = artifacts \cup
           {[manifest |-> m, list |-> list] : m \in built.manifests}
      /\ UNCHANGED <<scenario, batches, tally>>

(* submitBatch of an authorized batcher *)
CommitBatch(artifact) ==
  LET m == artifact.manifest
  IN  /\ tally = {}
      /\ Len(batches) < scenario.maxBatches
      /\ m.previousNullifierRoot = latestNullifierRoot
      /\ \A i \in DOMAIN batches : batches[i].cidMerkleRoot # m.cidMerkleRoot
      /\ batches' = Append(batches, m)
      /\ UNCHANGED <<scenario, accumulator, artifacts, tally>>

TallyInput(entries, known) ==
  [electionId        |-> scenario.election,
   candidateListHash |-> scenario.candidateList,
   eligibilityRoot   |-> eligibilityRoot,
   known             |-> known,
   batches           |-> [i \in DOMAIN entries |->
                            [artifact |-> entries[i].artifact.manifest,
                             packages |-> Stored(entries[i].list)]]]

Entries == [artifact : artifacts, list : {a.list : a \in artifacts}]

(* The operator lists artifacts, for each the packages to rebuild it from, *)
(* and the nullifiers accepted before; a later tally replaces the file.    *)
(* Bound: only once the scenario's batches are committed.                  *)
BuildTally(entries, k) ==
  /\ Len(batches) = scenario.maxBatches
  /\ tally' \in {{t} : t \in BuildEncryptedTally(version,
                           TallyInput(entries, NullifiersUpTo(k)))}
  /\ tally' # tally
  /\ UNCHANGED <<scenario, accumulator, artifacts, batches>>

(* What the batcher and the tally operator may be told: a root the chain   *)
(* or an artifact names, and lists of artifacts with packages to rebuild.  *)
KnownRoots == {RootAfter(k) : k \in 0..Len(batches)}
                \cup {a.manifest.nullifierRoot : a \in artifacts}

EntryLists == UNION {[1..n -> Entries] : n \in 1..scenario.maxBatches}

-----------------------------------------------------------------------------
(* Properties *)

(* Whatever builds failed half way, whatever process was restarted from a  *)
(* stale record and whichever artifacts raced, the committed batches hold  *)
(* every nullifier once and each batch's nullifier root is that of all     *)
(* nullifiers up to it.                                                    *)
LogCountsOnce ==
  /\ \A i, j \in DOMAIN batches :
       i < j => ToSet(batches[i].ballotNullifiers) \cap
                ToSet(batches[j].ballotNullifiers) = {}
  /\ \A i \in DOMAIN batches :
       /\ IsInjective(batches[i].ballotNullifiers)
       /\ batches[i].nullifierRoot = nullifierSetRoot(NullifiersUpTo(i))

VotersIn(artifact) == {ballots[id].position : id \in ToSet(artifact.list)}

(* A credential of the roll is counted once in the whole V3 log, however   *)
(* many packages, in whatever encodings, its holder made.                  *)
OneVotePerCredential ==
  version = 3 =>
    \A i, j \in DOMAIN batches : \A a, b \in artifacts :
      /\ a.manifest = batches[i]
      /\ b.manifest = batches[j]
      => /\ Cardinality(VotersIn(a)) = Len(a.list)
         /\ i # j => VotersIn(a) \cap VotersIn(b) = {}

(* A receipt issued for any artifact verifies against a committed root     *)
(* exactly when the committed batch has the artifact's packages: a lone    *)
(* leaf and an odd leaf paired with itself give no two lists one root, and *)
(* no receipt of the right batch fails.                                    *)
ReceiptsSound ==
  \A a \in artifacts, i \in DOMAIN batches :
    \A d \in ToSet(a.manifest.packageDigests) :
      \E receipt \in buildInclusionReceipt(a.manifest, d) :
        verifyMerkleProof(receipt.leafHash, receipt.proof,
                          batches[i].cidMerkleRoot)
          <=> a.manifest.packageDigests = batches[i].packageDigests

(* The list every committed manifest was built from. *)
ListOf(manifest) == (CHOOSE a \in artifacts : a.manifest = manifest).list

WholeLog ==
  TallyInput([i \in DOMAIN batches |->
                [artifact |-> CHOOSE a \in artifacts : a.manifest = batches[i],
                 list     |-> ListOf(batches[i])]], {})

BallotsIn(manifests) == UNION {ToSet(ListOf(m)) : m \in ToSet(manifests)}

(* The log, replayed from its beginning, gives a tally unless some package *)
(* names another candidate list or the batches mix election keys: nothing  *)
(* else a batcher can commit blocks the tally.                             *)
LogCanBeTallied ==
  batches # << >> =>
    (BuildEncryptedTally(version, WholeLog) # {}
       <=> /\ \A id \in BallotsIn(batches) :
                ballots[id].candidateList = scenario.candidateList
           /\ \A x, y \in BallotsIn(batches) :
                ballots[x].privateKey = ballots[y].privateKey)

VotesFor(c, ids) == Cardinality({id \in ids : ballots[id].choice = c})

(* The ciphertext of a tally is that of the votes in its batches, for the  *)
(* holder of the whole key to see.                                         *)
TallyHoldsTheVotes ==
  \A t \in tally :
    LET ids == BallotsIn(t.acceptedBatches)
        key == ballots[CHOOSE id \in ids : TRUE].privateKey
        decrypt(k, ct, n) == IF version = 1 THEN decryptAggregatedTally(k, ct, n)
                                            ELSE decryptProofCompatibleTally(k, ct, n)
    IN  /\ t.ballotCount = Cardinality(ids)
        /\ decrypt(key, t.aggregateCiphertext, t.ballotCount)
             = {[c \in Candidates |-> VotesFor(c, ids)]}
=============================================================================
