# TLA+ for scalable-blockchain-voting

A model of this repository's elections, on chain and off chain: the V4
settlement, tally, index and registry contracts, the V1-V3 registration, voting
and batch contracts with receipts and omission claims, the trustee ceremony
coordinator, the recursive-prover server, and the path from a ballot to a result
in the crypto package and the scripts (packages, batches, encrypted tallies,
trustees' shares). TLC checks small instances; TLAPS proves the safety of
settlement, tally, index, the voting contracts, batch log and claims, ceremony,
prover, batches, encrypted tallies and results for every instance.

    tlc -config <cfg> <module>       one run, as listed under "Runs"
    tlapm <module>_proofs.tla        the proofs

## Inventory

| Part | State | Operations | Talks to | Module |
|---|---|---|---|---|
| `contracts/v4/BatchCommitmentV4.sol` | proposals, proposed manifests, nonces, finalized root / accumulator / counters, bond tokens | propose, challenge, finalizeOptimistic, finalizeWithProof, revertStaleProposal | registry, verifiers, ERC-20, clock | `BatchCommitmentV4` |
| `contracts/v4/VerifierRegistryV4.sol` | roles, verifier per type and version, frozen types | register, freeze, grant / revoke / renounce | read by every V4 contract | `VerifierRegistryV4` |
| `contracts/v4/TallyVerifierV4.sol` | the published tally | publishTally | reads settlement and registry | `TallyVerifierV4` |
| `contracts/v4/NationalElectionIndexV4.sol` | roster, leaves, counters, accumulator | register, freeze, record, accumulate, finalize | reads settlement and tally of each constituency | `NationalElectionIndexV4` |
| `contracts/BatchCommitment.sol` | batch list, latest root, committed roots, batchers, verifier | submitBatch, submitBatchWithProof, two owner setters | read by the receipt registry | `BatchCommitment` |
| `contracts/BatcherReceiptRegistry.sol` | receipt signers, claims | openOmissionClaim, resolveWithInclusion, setReceiptSigner | batch log, off-chain signatures | `BatcherReceiptRegistry` |
| `packages/crypto/src/dkg.ts` | contributions, disqualified, evidence, finalized | addContribution, finalize | trustees over a network | `DkgTranscript` |
| `services/recursive-prover` | jobs map, channel, workers | POST manifest, GET job / artifact, worker loop | prover engine | `RecursiveProver` |
| `VoterRegistry`, `VotingContract` (V1, V2) | keys per identity; used nullifiers, public inputs | register, registerWithProof; submitBallot, submitBallotWithProof; the owner's verifier changes | verifiers | `VotingContracts` |
| `EligibilityRootRegistry`, `EligibleVotingContract` (V3) | roll root, version, frozen; used nullifiers | updateRoot, freezeRoot; submitEligibleBallot, setVerifier | roll registry, ballot verifier | `VotingContracts` |
| `packages/crypto/src/index.ts` | the nullifiers an accumulator has seen | Merkle trees, threshold ElGamal, packages, batches, receipts, tallies of V1 | files, batch log | `MerkleTrees`, `ThresholdElGamal`, `VotePackages`, `BatchManifests`, `BatchPipeline`, `TallyResults` |
| `proofCompatible*.ts` (V2), `eligible*.ts` (V3) | none beyond the above | the same steps over Baby Jubjub points, credentials and rolls | files, provers | the same |
| election scripts: `create_threshold_ceremony`, `build_*`, `create_trustee_decryption_share`, `finalize_*` | the files they write | one program per step of an election | each other's files | `ElectionPipeline` |
| `TallyVerifier` (V1), `ElectionConfig`, adapters, generated verifiers, `ballot_validity.circom`, v4.ts, demo scripts, ignition, frontend | | | | not modelled, see below |

### What is hard, and what makes each part correct

* **Settlement.** Batchers race with siblings on one root; a challenge, an
  optimistic finalization, a proof and a stale revert compete for one proposal
  around two deadlines; bonds are moved by every path; an invalid batch may bring
  back an old root. Correct means: one chain, every manifest counted once,
  counters that count finalized batches, bonds always covered, honest batchers
  without loss, fraud exposed for its full window, every proposal decided.
* **Registry.** A version an election pinned must never change, whatever roles
  are granted later.
* **Tally.** Publication opens when voting ends but settlement is still running.
  A result must be the count of a ledger that really existed, and the complete
  count once settlement is over.
* **Index.** Constituencies finish in any order and may be deployed twice. The
  accumulator must show the registration order only; a finalized index is
  complete and frozen.
* **Voting contracts.** A nullifier has several encodings that a proof cannot
  tell apart, two ballot paths write one map, two registration paths bind one
  key, and the roll a ballot is proved against is frozen in another contract.
  Correct means: one identity per key, one proved ballot per credential, one
  roll for all eligible ballots, and no commitment ever changed.
* **Batch log and claims.** Two submission paths share one root. A claim may
  only accuse a signer of an expired promise, must stay public, and must be
  resolvable however late the batch came.
* **Ceremony.** Messages are delayed, repeated and reordered, and trustees may
  equivocate. Nobody honest is disqualified, everybody disqualified is convicted
  by evidence, and enough honest trustees suffice.
* **Prover.** Registration, queueing and proving happen under separate locks with
  a bounded channel between them. No job is lost or proved twice, nothing
  unproved is served.

* **From ballot to result.** Programs that know each other only by their files:
  a batcher restarted from a stale record, a build that fails half way, artifacts
  racing for one root, damaged packages, ceremonies that crash or run twice,
  share files of another ceremony, for another tally or with a wrong number.
  Nothing may be counted twice or lost, every result is the true count of the
  batches it names, and an operator who has enough good share files, and names
  them first, gets one whatever the other files are.

`PROJECT.json` lists every hazard at its line with the properties that cover it.

## Modules

`SettlementLedger` is the abstract specification: an append-only chain of
batches, each submitted, and accepted or rejected, at most once. It has no clock,
bonds, challenges or verifiers.

`BatchCommitmentV4` has one action per external function, named after it.
Calls are `nonReentrant` transactions, so one successful call is one step and a
reverted call is none. Hashes are what they hash: the accumulator is the sequence
of finalized batches, a proposal id is `<<batcher, nonce, manifest>>`. The
environment is `Tick` (several calls may share a timestamp), `RegisterVerifier`
(a pinned verifier may appear late or never), and verdicts: the fraud verifier
may refuse any evidence but never accepts any against a valid batch, and the
validity verifier accepts valid batches only. `Ledger` instantiates
`SettlementLedger` with open proposals as pending and closed ones as decided.

`TallyVerifierV4` extends it with `PublishTally`; `publishedAt` is a history
variable. `NationalElectionIndexV4` keeps only what the index reads of a
constituency: a growing count, a tally published once, an end of settlement
(`TallyVerifierV4` shows that is how a constituency behaves).
`VerifierRegistryV4` includes the inherited OpenZeppelin role functions.

`BatchCommitment` is the V1-V3 log; `BatcherReceiptRegistry` extends it with
claims. Signatures that exist off chain are a set of pairs (anybody may sign
anything at any time), a Merkle path exists or not, and `held` remembers the
receipts a voter checked with `verifyReceipt` when it got them.

`DkgTranscript` delivers any signed message at any time, any number of times.
A message that throws (bad signature, unlinked, ceremony over) is no step, and
neither is one the coordinator already stores. A contribution's parent is
identified by its body, since hashes are ideal and a first round has no parent.

`RecursiveProver` cuts steps where the server releases its mutex or blocks:
`Submit` up to the unlock, `Send` on the channel, `Receive`, `StartProving` and
`FinishProving` of a worker. GET handlers take a snapshot under a read lock and
change nothing; `Readable` is the condition under which one serves an artifact.
Nothing is persisted, so a restart is a new behaviour.

`VotingContracts` has the V1/V2 registry and ballot box and the V3 roll and
ballot box. A nullifier is a bytes32 value and a credential its residue modulo
`SnarkField`; verifiers are relations that do not depend on the encoding, as a
pairing check reduces its inputs. `MCContracts` puts it beside
`VerifierRegistryV4`; none of the three parts calls another, so a behaviour
exercises one of them.

The off-chain path is built bottom up, each module for the three versions:

* `MerkleTrees`: roots, paths and their verification, of lists (an odd last node
  is paired with itself) and of the sparse roll tree. A hash is the tuple of what
  it hashes, so equal hashes have equal inputs.
* `ThresholdElGamal`: Shamir shares over a prime `Order`, Lagrange and extended
  Euclid as the code computes them, ciphertexts, aggregation, decryption with and
  without shares, the discrete-log search up to `maxVotes`. A group element is
  its vector of coefficients over the generator and the ballots' random points:
  what an algorithm that uses group operations only can tell apart. A proof of
  equal discrete logarithms is the truth of its statement, bound to its challenge.
* `VotePackages`: what a voter stores, in versions 1 to 3, the checks each
  version makes, and the ways a package may be damaged (nullifier written anew,
  ciphertexts swapped, proof that fails). `CircuitSatisfied` is the relation of
  `eligible_ballot.circom`, over ideal hashes and group. Every ciphertext is an
  honest one-hot encryption: see "Not modelled" for what that leaves out.
* `BatchManifests`: the accumulator, the three batch builders and the tally
  builders that replay accepted batches. A builder yields the accumulator it
  leaves behind and at most one manifest: `{}` where the code throws.
* `BatchPipeline`: the batcher process, restarted from any prefix of the log, its
  artifact files, the log that takes an artifact extending its root, and the
  operator's encrypted tally.
* `TallyResults`: key-set and share files, and the three programs that finalize.
* `ElectionPipeline`: composes them. The files are the state, each program that
  writes a file another one reads is an action, and a ceremony writes its files
  one at a time and may stop in between. `CrashCeremony`, `MisnumberShare` and
  `AlterShare` are the fault model, bounded by `maxFaults`.

In these modules what the code computes in loops is a recursive function or a
fold, never a `RECURSIVE` operator. `ScenarioAssumption` asks that an election has
fewer ballots, and fewer trustees, than the group has elements: the vote counts
are read off exponents, trustees' indexes are scalars, and a real order has 254
bits. The `max...` fields of a scenario bound the exploration: lists of packages,
artifacts, batches, ceremonies, faults, trustees who make shares, and files (and
the threshold) an operator names.

Operators marked `seeded fault` are plausible bugs of the definition they
precede; no specification uses them. `PROJECT.json` pairs each property with one
that breaks it.

## Runs

| Run | Bounds | What it shows |
|---|---|---|
| `settlement_and_tally` | 2 batchers, 1 of them challenging, 4 manifests (3 interchangeable, 1 of batches that lead back to the first root), 2 roots, `MaxUint64` 4, 2 candidates, clock to 3 | bonds, counters, honest batchers, fraud window, refinement; one chain and no double count, also when a root that was left comes back and revives the proposals overtaken on it; the published result is the count of a real prefix of the ledger, complete after settlement |
| `settlement_liveness` | 1 batcher, 1 challenger, 2 manifests, `MaxUint64` 2, clock to 5, `PromptSpec` | every proposal with a deadline before settlementEndsAt is decided, unless its ballots overflow the counter on the current root |
| `deadline_at_settlement_end` | same, `MaxUint64` 4 | **violated**: see findings |
| `premature_tally` | 1 batcher, 1 challenger, 2 manifests, clock to 5 | **violated** |
| `contracts` | 2 accounts, types, versions and contracts; 2 identities, 2 keys, 3 eligible pairs, `SnarkField` 3, 3 ballots; 2 roots, 3 roll versions | pinned versions stay, one identity per key, one proved ballot per credential, commitments final, one roll |
| `national_index` | 3 deployments of 2 constituencies, a counter that can overflow, `FairSpec` | determinism, one leaf per constituency, completeness, frozen result, finalization |
| `receipts` | 1 batcher, 1 batch verifier, 2 package and 2 nullifier roots, 2 signers, 1 receipt, clock to 3, `FairSpec` | one chain over both submission paths; claims are justified, permanent and resolvable |
| `revoked_receipts` | same | **violated** |
| `dkg` | 3 trustees, 1 signs anything, 2 bodies, 2 pieces of evidence, `FairSpec` | accountability, sound transcripts, honest trustees suffice |
| `dkg_evidence` | same | **violated** |
| `prover` | 3 handlers, 2 workers, queue of 1, 4 manifests with 3 ids, `FairSpec` | nothing lost, duplicated or unproved; every job ends |
| `election_pipeline` | 21 elections of versions 1 to 3, up to 4 ballots, 2 candidates, 3 trustees, `Order` 11, `SnarkField` 8, trees of depth 2 | the log counts each nullifier and credential once, receipts verify, the log can be tallied, results are true counts, enough good shares finalize |

Why these bounds are enough to be interesting: two siblings on one root, a
follow-up batch and a returning root are reached in `settlement_and_tally`. An
overtaken sibling revived there needs four finalizations: to r1, to r2, an invalid
batch back to r1, and a sibling that was overtaken on r1 the first time. Hence
four manifests and a counter that holds their 1 + 1 + 1 + 1 ballots; an invalid
batch that claims one ballot more makes the last of them overflow. Only the
manifest `Forged` carries batches back to the first root, so `RaceSymmetry`
exchanges the three others only. The clock passes every
deadline by at least one tick, so each `<`/`<=` is exercised on both sides;
`MaxUint64` is small enough to be hit in `settlement_and_tally`,
`settlement_liveness` and `national_index`; a `SnarkField` of 3 gives credentials
two encodings;
bonds of different size make a swapped or doubled payout visible. In
`RecursiveProver` more handlers than queue slots and workers make handlers
block. `MaxTime`, `MaxAccepted`, `MaxEvidence`, `Handlers` (the server serves
any number of requests), `InitialBalance` and the sets of batches, receipts and
messages are the bounds, with `MaxBallots` and `MaxVersion` of the voting
contracts and the `max...` fields of a pipeline scenario; no other limit was
added to the code's own.

A pipeline scenario is one small election and the mishaps it has to cope with
(`MCElectionPipeline` names them: a revote, a package for another list or key, an
unpinned package, each kind of damage, an outdated roll, another election,
lists of up to four of three packages (of which a, b, c and a, b, c, c would have one
Merkle root), a key shared twice, another key, a share that would be zero,
two tallies in a row); within it every order of programs, lists, restarts and
faults is explored. Ballots and ceremonies do not interact, so batching scenarios
have one ceremony and decryption scenarios one or two ballots. `Order` 11 leaves
room for 3 trustees, for every interpolation to have its inverse, and for wrong
shares to give wrong points; an election holds fewer votes than `Order`.
`ScenarioAssumption` checks that every scenario is one the programs can be given.

Of the type invariants only `TallyTypeOK` is checked by a run, for settlement and
tally together; all of the contracts', the ceremony's and the prover's are proved.
`CHECK_DEADLOCK FALSE` stands where the system stops by design: clock at its
bound with everything settled, index final, ceremony over, all jobs done, an
election's result written or nothing left that any program accepts.

### Fairness

* `PromptSpec`: time passes, and the two permissionless calls that return a bond
  to its batcher are made while they are possible; `KeepersPrompt` keeps the
  clock from leaving `settlementEndsAt` while an optimistic finalization waits.
  Nothing forces a proposal, a challenge, a proof or a verifier registration.
  `ProposalsSettle` asks for no decision that every call refuses: a proposal on
  the current root whose ballots overflow `acceptedBallotCount` cannot be
  finalized (checked addition) nor reverted (its root is current). `Unfit` says
  so, once the settlement window has closed; until then a smaller sibling may
  still be finalized and make it stale.
* `NationalElectionIndexV4!FairSpec`: the permissionless calls record,
  accumulate and finalize are eventually made; registrar, admin and
  constituencies owe nothing. `IndexCompletes` asks for the end only of an index
  that stays includable: roster frozen, every tally published, and a national
  count that fits its uint64.
* `BatcherReceiptRegistry!FairSpec`: whoever is accused offers the Merkle path.
* `DkgTranscript!FairSpec`: an honest trustee resends what was refused or lost,
  and the operator finalizes when the threshold is met.
* `RecursiveProver!FairSpec`: goroutines are scheduled, the engine honours its
  30-minute context, and a blocked sender is served in turn (Go queues senders of
  a channel in order), hence strong fairness of `Send`.

### Findings

Each is a run whose one property, taken from a document, TLC refutes.

1. `deadline_at_settlement_end`: a batch proposed with its deadline exactly at
   `settlementEndsAt` needs a time both after and not after that instant to be
   finalized optimistically, so its bond may stay locked.
2. `premature_tally`: a one-shot result may be published while batches are still
   being finalized.
3. `revoked_receipts`: revoking a signer voids the receipts voters already hold.
4. `dkg_evidence`: a retransmitted conflicting message adds evidence again and
   changes the transcript hash.

Observations made while modelling, without a run of their own:

* only the registry's constructor separates the registrar from the admin; a later
  `grantRole` may give both roles to one account;
* a proposal that would overflow the uint64 ballot counter has no exit while its
  root is current: its bond stays locked. No document promises one, and a real
  counter holds 2^64 - 1 ballots;
* a national leaf copies the constituency's accepted count when it is recorded,
  which for a tally published early may differ from the count the tally was made
  of. The index modules do not judge it: `TallyMatchesAccepted` (violated) and
  `SettledTallyComplete` show when the two differ;
* the share programs select the first files (V1: the lowest indexes) before they
  verify them: a bad file among the selected blocks a result for which enough
  good ones were given, until the operator names those first (V1: alone);
* the prover identifies a job by three fields of the manifest, so another manifest
  with the same three is answered with the first one's job and artifact;
* the owner of the V1 `TallyVerifier` may publish again and replace a result
  (`contracts/TallyVerifier.sol:58`); nothing in the repository promises otherwise;
* a builder adds the nullifiers of a batch to the accumulator one by one, in V1 and
  V2 before other checks, so after a build that throws the process has to be
  restarted from the record.

## Proofs

### Settlement, tally and index

`Settlement_proofs` proves of the settlement contract, for any accounts, batches,
bonds, periods and times,

* `TypeCorrect`: `Spec => []TypeOK`, which contains that neither uint64 counter
  overflows. `TypeOK` is inductive.
* `BondsAlwaysBacked`: `Spec => []BondsBacked`. The inductive invariant is
  `BondInv`: `BondsBacked` with `TypeOK`, the finiteness of `proposals`, and that a
  batcher's nonce is above all its ids. Without the last, a new proposal could
  overwrite an open one, and its bond would be lost to the count.
* `FraudWindowKept`: `Spec => FraudHasFullWindow`. The invariant `WindowInv` adds
  to `BondInv` that every deadline is one challenge period after its proposal;
  a step that finalizes is then one of the two finalizing calls, and the proof
  path takes valid batches only.
* `HonestBatchersKeepAll`: `Spec => []HonestBatcherWhole`, inductive on top of
  `BondInv`: each call keeps the sum of an honest batcher's balance and the
  bonds of its open proposals, or increases it.
* `ChainAlways`: `Spec => []FinalizedChain`, inductive on top of `TypeOK`;
* `CountedOnce`: `Spec => []NoManifestCountedTwice`. The inductive invariant
  `LedgerInv` adds that manifests identify proposals (`Keyed`), that ids lie below
  the nonces, and that every ledger entry comes from a finalized proposal.
* `SettlementImplementsLedger`: `Spec => ImplementsLedger`, one step lemma per
  kind of call: proposing submits, finalizing accepts, reverting rejects, all
  others stutter.
* `CountersAreFinalized`: `Spec => []AcceptedIsFinalized`, from `CountInv`: the
  finalized proposals and the ledger are in bijection, so the counter and the sum
  of accepted ballots move together.

Of the published tally it proves, from `TallyInv` (types, no publication in the
future, `SettledTallyComplete` itself),

* `TallyTypeCorrect`, and `SettledTallyIsComplete`: a result published after the
  settlement window covers every batch there will ever be;
* `NothingProposedAfterTally`: voting is over when a result is out, so no batch
  follows it;
* `TallyBoundToPrefix`: `Spec => []TallyBindsPrefix`. `BindInv` remembers which
  prefix of the ledger the publisher saw; batches appended later leave it a prefix.

`NationalElectionIndexV4_proofs` proves `IndexTypeCorrect`, `OrderInvisible`,
`ConstituenciesOnce`, `FinalIsComplete` and `FinalIsFrozen` from `IndexInv`: the
roster lists distinct constituencies and, frozen, all of them; exactly the
recorded ones have leaves; the accumulator is the leaves of a prefix of the
roster. `CountersSummariseLeaves` is `CountersAgree`, by `SumInv`: a constituency
is recorded once, so the running totals are the sums over the leaves.

`FiniteData_proofs` has what these need of data: of sums over finite sets, that
the recursive function exists, what adding an element does, and that sums of
equal summands are equal; of numbers, congruence and Lagrange interpolation of
any number of points modulo any number.

### Batches and encrypted tallies

`BatchPipeline_proofs` is about `ElectionPipeline`: any election of any version,
any number of ballots in any state of damage, batches, artifacts, restarts and
faults.

* Trees. `RootOneToOne`: a Merkle root names the list of its leaves, also across
  lengths; `NullifierRootOneToOne`: a nullifier root names the set;
  `ProofsReachRoot`: the path made for a leaf leads to the root.
* `BatchInvariant`: `Spec => []BatchInv`. A batcher process that failed half way,
  or was restarted from a stale record, holds a set of nullifiers that is
  nobody's. `BatchInv` therefore says that every artifact follows *some* set
  (`Follows`), from which its packages give its manifest again (`Rebuilds`), and
  that a batch of the log follows exactly the nullifiers before it. The chain
  compares roots only, and a root names its set, so whatever set an artifact was
  built on is the log's when it is accepted.
* `LogAlwaysCountsOnce`, `CredentialsVoteOnce`, `ReceiptsAlwaysSound` are
  `LogCountsOnce`, `OneVotePerCredential` and `ReceiptsSound`, consequences of
  `BatchInv`: a version 3 package that passes has the one nullifier of its
  credential, and equal packages are of one ballot since a ciphertext shows whose
  randomness it has.
* `LogAlwaysTalliable`: `LogCanBeTallied`. By induction along the log the replay's
  accumulator is the set each batch follows, so each rebuilt manifest matches
  (`LogReplays`); what remains are the tally builders' own conditions.
* `TallyAlwaysHoldsTheVotes`: `TallyHoldsTheVotes`, for whatever entries and known
  nullifiers the operator brings. A replay that succeeds rebuilt batches of
  disjoint lists of ballots (`EntriesRebuilt`); a package that passes its check
  has the ciphertext its voter made (`ValidPackage`); sums of ciphertexts of
  disjoint sets under one key encrypt the union (`SumEncrypts`), also in two
  stages as versions 2 and 3 add them; and the whole key decrypts such a
  ciphertext to its votes (`DecryptsTo`), the search finding each count as it is
  below the order.
* `ResultsAlwaysTrueCounts`: `ResultsAreTrueCounts`, for any number of trustees,
  thresholds, ceremonies and faults. `FilesInv` says that a share file shows one
  scalar, its public share and its points alike, unless its proof fails, and that
  a published key set is one a ceremony made. What the points of several files
  add up to is then the secret of the combined scalar (`SharedSecretIs`). In
  version 1 nothing ties a file to a ceremony, but the combined public shares must
  be the election's key, and by linearity the combined scalar is the key
  (`SharesDecryptV1`). In versions 2 and 3 the files must agree with the published
  shares, so their scalars are values of one polynomial of degree below the
  threshold (`SharesOf`); Lagrange interpolation, of any number of points modulo
  any number (`PolynomialInterpolates`), gives its value at zero
  (`SharesDecrypt`). The differences of the indexes are invertible since the
  programs assert it (`HasSubgroupInverse`), whatever the order is.
* `GoodSharesAlwaysFinalize`: `EnoughGoodSharesFinalize`, the converse, for good
  files given alone and in V3 also for good files followed by any others, which
  are not looked at (`LaterFilesIgnored`). The order
  being prime, the remainders of the extended Euclid algorithm keep no common
  factor with it and shrink to 1 (`EuclidFinds`), so no difference of two
  trustees' indexes makes a denominator without inverse (`DenominatorInverts`). A
  good file may hold a share of an earlier run of the ceremony: the digest it
  names covers every public share, so it is a share of the same polynomial in the
  exponent (`GoodFilesAre`). Files made from such shares have proofs that verify
  (`CreatedVerifies`), distinct indexes, and combine to the key
  (`MadeSharesCombine`), selected in V1 by index and in V3 in the order given; the
  tally holding votes fewer than the order, the search for the counts succeeds.

A recursive definition is used through a lemma that its function exists, shown
with the bound as a variable; inductions are on a least counterexample.

### The other contracts, the ceremony and the prover

`DkgTranscript_proofs` proves, for any set of trustees, threshold and messages,
`DkgTypeCorrect`, `Accountability`, `HonestSurvives` and `TranscriptsSound` from
the invariant `DkgInv`: stored contributions sit under their own key, stored
second rounds name the stored first ones, and recorded evidence shows two
different messages of a disqualified trustee.

`Contracts_proofs` proves

* `RegistryTypeCorrect` and `VersionsPinned` of the V4 registry, whoever is
  granted which role: every write goes to an empty slot (`RegistryWrites`);
* `KeysAreIdentities` and `BallotsAreFinal` from `BallotInv`: the registered keys
  are exactly the keys of identities, every ballot's nullifier is used, and no two
  ballots have one. Without that, a ballot path could overwrite a commitment;
* `ProvedOnce`: by `BallotInv` a proved ballot's nullifier is below `SnarkField`,
  where encoding and credential coincide, for any field and any relation of proofs;
* `RollIsOne` from `EligibleInv`, which adds to `OneRoll` that every eligible
  ballot's nullifier is used.

`BatcherReceiptRegistry_proofs` proves `LogStaysChain` from `LogInv`, which is
already inductive, and `ReceiptsTypeCorrect`, `ClaimsStayJustified` and
`EvidenceStays` from `ReceiptInv`, which adds to `ClaimsJustified` that no claim
is from the future: signatures and log only grow, so what justified a claim
stays.

`RecursiveProver_proofs` proves `ProverTypeCorrect`, `JobsHeldOnce`,
`ServedIsProved` and `OutcomesStay` for any numbers of handlers and workers, any
capacity and any engine. `ProverInv` says who holds which unfinished job (a
handler before its send, the queue, a worker), that these places never share a
job, and that an ended job has a final outcome.

### Assumptions, and what is left to TLC

The assumptions are the named `ASSUME`s of the modules: what the constructors
enforce, and the shape of the environment. Honest trustees are assumed to sign
one message per round.

Only model-checked: the liveness properties (`ProposalsSettle`, `IndexCompletes`,
`InclusionResolves`, `CeremonyCompletes`, `JobsFinish`), which are out of the
prover's reach, and the statements of the four `violated` runs. Every safety
property of a passing run is a theorem.

## Not modelled, and why

* Curve arithmetic, encodings, circuits and generated verifiers: numbers beyond
  TLC. They are ideal where they are used: hashes are what they hash, a proof is
  the truth of its statement, the group has no structure but its order. Of the
  circuits, `eligible_ballot.circom` is the relation `CircuitSatisfied`;
  `ballot_validity.circom` is not modelled, as no off-chain program modelled here
  verifies its proofs.
* Ballots that are not one-hot. The readers of V1 and V2 packages never verify a
  package's proof, so they would accept a ciphertext of any other plaintext.
  `TallyHoldsTheVotes`, `ResultsAreTrueCounts` and `EnoughGoodSharesFinalize` (and
  their theorems) are about elections whose voters encrypt one choice each; they
  say nothing of V1 and V2 elections with other ballots. In V3 the proof excludes
  them.
* `TallyVerifier` (V1), `ElectionConfig`: the arguments of one owner's call, and
  immutable values. Proof adapters: view functions in front of pairing checks.
* `v4.ts`, sponsored user operations: schema checks and digests of single values,
  then an HTTP call to a service outside the repository. The registration digests
  of `index.ts` likewise.
* Demo, proving and upload scripts: sequential drivers of external programs
  without state of their own. The key and share files that
  `finalize_proof_compatible_tally` writes beside its result are read by nothing.
* ERC-20 and OpenZeppelin code (external, by its interface), deployment modules,
  the frontend.

## Plan

Written first were settlement and its refinement, then registry, tally, index,
batch log, claims, ceremony and prover, then the voting contracts, the off-chain
path and the remaining proofs. What may follow:

1. An end-to-end composition of settlement, tally and index, replacing the index's
   reduced constituencies, with a refinement between the two.
2. Republication by the V1 `TallyVerifier`, once a document says what readers of
   its events may rely on.
3. `EligibilityAdapter` and sponsored operations, if they gain state.
