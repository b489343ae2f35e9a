-------------------------- MODULE BatchCommitmentV4 --------------------------
(***************************************************************************)
(* The settlement contract of one V4 constituency election                 *)
(* (contracts/v4/BatchCommitmentV4.sol): bonded batches are proposed by    *)
(* anyone, challenged during a window, and finalized either optimistically *)
(* or with a validity proof.  Every external function is nonReentrant and  *)
(* runs as one transaction, so one action is one successful call; a call   *)
(* that reverts changes nothing and is no step.                            *)
(*                                                                         *)
(* Abstracted: a hash is the value it hashes (collision freedom), so a     *)
(* proposal id is <<sender, nonce, manifest>>, the public-input hash of a  *)
(* batch is the batch, and the accumulator is the sequence of finalized    *)
(* batches.  The digests only checked to be nonzero are left out.          *)
(***************************************************************************)
EXTENDS Integers, Sequences, FiniteSets, Functions

CONSTANTS
  Batchers,          \* accounts that propose batches
  Challengers,       \* accounts that post challenges (may overlap Batchers)
  Settlement,        \* the contract's own token account
  Manifests,         \* manifest digests
  Roots,             \* nonzero nullifier roots
  NoRoot,            \* bytes32(0), the root before any batch is finalized
  Batches,           \* the BatchInput structs somebody may submit
  ValidBatches,      \* those for which a validity proof exists and no fraud proof does
  VotingEndsAt,      \* ElectionConfigV4.votingEndsAt
  SettlementEndsAt,  \* ElectionConfigV4.settlementEndsAt
  ChallengePeriod,
  BatcherBond,
  ChallengerBond,
  VerifierTypes,     \* the verifier types the deployment pins a version of
  InitialBalance,    \* bond tokens each account starts with
  MaxUint64,         \* largest uint64, scaled down by the models
  MaxTime            \* bound: the clock stops here

Accounts == Batchers \cup Challengers

BatchInput == [manifestDigest        : Manifests,
               previousNullifierRoot : Roots \cup {NoRoot},
               nullifierRoot         : Roots \cup {NoRoot},
               ballotCount           : 0..MaxUint64]

(* What the constructors of ElectionConfigV4 and BatchCommitmentV4 accept. *)
ASSUME ConfigAssumption ==
  /\ VotingEndsAt \in Nat \ {0}
  /\ SettlementEndsAt \in Nat
  /\ VotingEndsAt < SettlementEndsAt
  /\ ChallengePeriod \in Nat \ {0}
  /\ BatcherBond \in Nat \ {0}
  /\ ChallengerBond \in Nat \ {0}

ASSUME EnvironmentAssumption ==
  /\ InitialBalance \in Nat
  /\ MaxUint64 \in Nat
  /\ MaxTime \in Nat
  /\ Batches \subseteq BatchInput
  /\ ValidBatches \subseteq Batches
  /\ Settlement \notin Accounts
  /\ NoRoot \notin Roots

VARIABLES
  now,                        \* block.timestamp
  proposals,                  \* proposal id -> BatchProposal, for the ids written so far
  isManifestProposed,         \* the manifests mapped to true
  batcherNonces,
  finalizedNullifierRoot,
  finalizedBatchAccumulator,
  finalizedBatchCount,
  acceptedBallotCount,
  verifiers,                  \* verifier types whose pinned version is registered
  balance                     \* ERC-20 balances

ledgerVars == <<finalizedNullifierRoot, finalizedBatchAccumulator,
                finalizedBatchCount, acceptedBallotCount>>
vars == <<now, proposals, isManifestProposed, batcherNonces, ledgerVars,
          verifiers, balance>>

-----------------------------------------------------------------------------
BATCH_VERIFIER_TYPE == "SVB_BATCH_VALIDITY_V4"
FRAUD_VERIFIER_TYPE == "SVB_BATCH_FRAUD_V4"

(* Challenged only exists inside challengeBatch: no other transaction sees *)
(* it.  None is an id outside the domain of proposals.                     *)
BatchState == {"Proposed", "Finalized", "Reverted"}

ProposalId == Batchers \X Nat \X Manifests

BatchProposal == [state             : BatchState,
                  batcher           : Batchers,
                  batch             : Batches,
                  proposedAt        : Nat,
                  challengeDeadline : Nat,
                  bond              : Nat]

IsProposed(id) == id \in DOMAIN proposals /\ proposals[id].state = "Proposed"

OpenProposals == {id \in DOMAIN proposals : proposals[id].state = "Proposed"}

(* ERC-20 transfer of amount; the sender's balance is the caller's guard.  *)
Transfer(bal, from, to, amount) ==
  [bal EXCEPT ![from] = @ - amount, ![to] = @ + amount]

(* The checks proposeBatch makes on the batch alone. *)
WellFormedZeroCount(b) ==          \* seeded fault: ballotCount may be zero
  /\ b.nullifierRoot # NoRoot
  /\ b.nullifierRoot # b.previousNullifierRoot

WellFormed(b) ==
  /\ b.nullifierRoot # NoRoot
  /\ b.nullifierRoot # b.previousNullifierRoot
  /\ b.ballotCount # 0

Init ==
  /\ now = 0
  /\ proposals = [id \in {} |-> {}]
  /\ isManifestProposed = {}
  /\ batcherNonces = [a \in Batchers |-> 0]
  /\ finalizedNullifierRoot = NoRoot
  /\ finalizedBatchAccumulator = << >>
  /\ finalizedBatchCount = 0
  /\ acceptedBallotCount = 0
  /\ verifiers = {}
  /\ balance = [a \in Accounts \cup {Settlement} |->
                  IF a = Settlement THEN 0 ELSE InitialBalance]

-----------------------------------------------------------------------------
FreshManifestUnchecked(b) == TRUE  \* seeded fault: BatchAlreadyProposed dropped

FreshManifest(b) == b.manifestDigest \notin isManifestProposed

(* proposeBatch: only the end of voting is checked, not its start. *)
ProposeBatch(sender, b) ==
  LET id == <<sender, batcherNonces[sender], b.manifestDigest>>
      challengeDeadline == now + ChallengePeriod
      proposal == [state             |-> "Proposed",
                   batcher           |-> sender,
                   batch             |-> b,
                   proposedAt        |-> now,
                   challengeDeadline |-> challengeDeadline,
                   bond              |-> BatcherBond]
  IN /\ now <= VotingEndsAt
     /\ WellFormed(b)
     /\ b.previousNullifierRoot = finalizedNullifierRoot
     /\ FreshManifest(b)
     /\ challengeDeadline <= SettlementEndsAt
     /\ balance[sender] >= BatcherBond
     /\ batcherNonces' = [batcherNonces EXCEPT ![sender] = @ + 1]
     /\ proposals' = [x \in DOMAIN proposals \cup {id} |->
                        IF x = id THEN proposal ELSE proposals[x]]
     /\ isManifestProposed' = isManifestProposed \cup {b.manifestDigest}
     /\ balance' = Transfer(balance, sender, Settlement, BatcherBond)
     /\ UNCHANGED <<now, ledgerVars, verifiers>>

(* What the registered fraud verifier may answer about a batch: evidence   *)
(* convinces it only against an invalid batch, and may always fail to.     *)
FraudVerdicts(b) == IF b \in ValidBatches THEN {FALSE} ELSE {TRUE, FALSE}

(* challengeBatch, both outcomes of the verifier call. *)
ChallengeBatch(sender, id, fraudProven) ==
  LET staked == Transfer(balance, sender, Settlement, ChallengerBond)
      bond   == proposals[id].bond
  IN /\ IsProposed(id)
     /\ now <= proposals[id].challengeDeadline
     /\ balance[sender] >= ChallengerBond
     /\ FRAUD_VERIFIER_TYPE \in verifiers
     /\ fraudProven \in FraudVerdicts(proposals[id].batch)
     /\ \/ /\ fraudProven
           /\ proposals' = [proposals EXCEPT ![id].state = "Reverted",
                                             ![id].bond = 0]
           /\ balance' = Transfer(staked, Settlement, sender,
                                  bond + ChallengerBond)
        \/ /\ ~fraudProven
           /\ balance' = Transfer(staked, Settlement, proposals[id].batcher,
                                  ChallengerBond)
           /\ UNCHANGED proposals
     /\ UNCHANGED <<now, isManifestProposed, batcherNonces, ledgerVars, verifiers>>

SettleableAnyRoot(id) ==           \* seeded fault: StaleNullifierTransition dropped
  LET b == proposals[id].batch
  IN /\ now <= SettlementEndsAt
     /\ finalizedBatchCount + 1 <= MaxUint64
     /\ acceptedBallotCount + b.ballotCount <= MaxUint64

SettleableUnchecked(id) ==         \* seeded fault: the addition may exceed uint64
  /\ now <= SettlementEndsAt
  /\ proposals[id].batch.previousNullifierRoot = finalizedNullifierRoot

SettleableLate(id) ==              \* seeded fault: SettlementWindowClosed dropped
  LET b == proposals[id].batch
  IN /\ b.previousNullifierRoot = finalizedNullifierRoot
     /\ finalizedBatchCount + 1 <= MaxUint64
     /\ acceptedBallotCount + b.ballotCount <= MaxUint64

(* The guards of _finalize, the last two being Solidity's checked addition. *)
Settleable(id) ==
  LET b == proposals[id].batch
  IN /\ now <= SettlementEndsAt
     /\ b.previousNullifierRoot = finalizedNullifierRoot
     /\ finalizedBatchCount + 1 <= MaxUint64
     /\ acceptedBallotCount + b.ballotCount <= MaxUint64

CloseKeepingBond(id, outcome) ==   \* seeded fault: the refund is forgotten
  /\ proposals' = [proposals EXCEPT ![id].state = outcome, ![id].bond = 0]
  /\ UNCHANGED balance

CloseOnlyState(id, outcome) ==     \* seeded fault: proposal.bond is not cleared
  /\ proposals' = [proposals EXCEPT ![id].state = outcome]
  /\ balance' = Transfer(balance, Settlement, proposals[id].batcher,
                         proposals[id].bond)

(* The bond of a closed proposal goes back to its batcher. *)
Close(id, outcome) ==
  /\ proposals' = [proposals EXCEPT ![id].state = outcome, ![id].bond = 0]
  /\ balance' = Transfer(balance, Settlement, proposals[id].batcher,
                         proposals[id].bond)

Finalize(id) ==
  LET b == proposals[id].batch
  IN /\ Settleable(id)
     /\ finalizedNullifierRoot' = b.nullifierRoot
     /\ finalizedBatchAccumulator' = Append(finalizedBatchAccumulator, b)
     /\ finalizedBatchCount' = finalizedBatchCount + 1
     /\ acceptedBallotCount' = acceptedBallotCount + b.ballotCount
     /\ Close(id, "Finalized")
     /\ UNCHANGED <<now, isManifestProposed, batcherNonces, verifiers>>

WindowOverEarly(id) ==             \* seeded fault: < instead of <=
  now >= proposals[id].challengeDeadline

WindowOver(id) == now > proposals[id].challengeDeadline

(* finalizeOptimistic *)
FinalizeOptimistic(id) ==
  /\ IsProposed(id)
  /\ WindowOver(id)
  /\ Finalize(id)

(* finalizeWithProof: a sound validity verifier accepts valid batches only. *)
FinalizeWithProof(id) ==
  /\ IsProposed(id)
  /\ BATCH_VERIFIER_TYPE \in verifiers
  /\ proposals[id].batch \in ValidBatches
  /\ Finalize(id)

StaleAlways(id) == TRUE            \* seeded fault: staleness not checked
StaleNever(id) == FALSE            \* seeded fault: no stale proposal is released

Stale(id) == proposals[id].batch.previousNullifierRoot # finalizedNullifierRoot

(* revertStaleProposal *)
RevertStaleProposal(id) ==
  /\ IsProposed(id)
  /\ Stale(id)
  /\ Close(id, "Reverted")
  /\ UNCHANGED <<now, isManifestProposed, batcherNonces, ledgerVars, verifiers>>

(* The registry seen from here: the pinned version of a type appears once  *)
(* and stays (VerifierRegistryV4 shows why).  It may never appear.         *)
RegisterVerifier(type) ==
  /\ type \notin verifiers
  /\ verifiers' = verifiers \cup {type}
  /\ UNCHANGED <<now, proposals, isManifestProposed, batcherNonces, ledgerVars,
                 balance>>

(* Several transactions may share a block timestamp; it never decreases. *)
Tick ==
  /\ now < MaxTime
  /\ now' = now + 1
  /\ UNCHANGED <<proposals, isManifestProposed, batcherNonces, ledgerVars,
                 verifiers, balance>>

Call ==
  \/ \E a \in Batchers, b \in Batches : ProposeBatch(a, b)
  \/ \E a \in Challengers, id \in DOMAIN proposals, v \in BOOLEAN :
        ChallengeBatch(a, id, v)
  \/ \E id \in DOMAIN proposals : FinalizeOptimistic(id)
  \/ \E id \in DOMAIN proposals : FinalizeWithProof(id)
  \/ \E id \in DOMAIN proposals : RevertStaleProposal(id)
  \/ \E type \in VerifierTypes : RegisterVerifier(type)

Next == Call \/ Tick

Spec == Init /\ [][Next]_vars

-----------------------------------------------------------------------------
(* Fairness.  Time passes; finalizeOptimistic and revertStaleProposal can  *)
(* be called by anyone and pay the batcher its bond, so a batcher (or a    *)
(* keeper) that sees one possible makes it.  It is prompt: the settlement  *)
(* window does not close while an optimistic finalization is possible.     *)
(* Nobody has to challenge, prove or register anything.                    *)
KeepersPrompt ==
  now = SettlementEndsAt =>
    ~ \E id \in OpenProposals : WindowOver(id) /\ Settleable(id)

PromptTick == KeepersPrompt /\ Tick

PromptSpec ==
  /\ Init
  /\ [][Call \/ PromptTick]_vars
  /\ WF_vars(PromptTick)
  /\ WF_vars(\E id \in DOMAIN proposals : FinalizeOptimistic(id))
  /\ WF_vars(\E id \in DOMAIN proposals : RevertStaleProposal(id))
-----------------------------------------------------------------------------
(* Properties *)

TypeOK ==
  /\ now \in Nat
  /\ DOMAIN proposals \in SUBSET ProposalId
  /\ proposals \in [DOMAIN proposals -> BatchProposal]
  /\ isManifestProposed \in SUBSET Manifests
  /\ batcherNonces \in [Batchers -> Nat]
  /\ finalizedNullifierRoot \in Roots \cup {NoRoot}
  /\ finalizedBatchAccumulator \in Seq(Batches)
  /\ finalizedBatchCount \in 0..MaxUint64
  /\ acceptedBallotCount \in 0..MaxUint64
  /\ verifiers \in SUBSET VerifierTypes
  /\ balance \in [Accounts \cup {Settlement} -> Int]

(* The contract holds exactly one batcher bond for every open proposal and *)
(* nothing else, over all interleavings of propose, challenge, finalize    *)
(* and revert: every refund and payout is covered, no bond is paid twice   *)
(* and none stays behind when its proposal closes.                         *)
BondsBacked ==
  /\ \A id \in DOMAIN proposals :
       proposals[id].bond = IF proposals[id].state = "Proposed"
                            THEN BatcherBond ELSE 0
  /\ balance[Settlement] = BatcherBond * Cardinality(OpenProposals)

LastRoot(ledger) ==
  IF ledger = << >> THEN NoRoot ELSE ledger[Len(ledger)].nullifierRoot

(* Nullifier continuity: the finalized batches form one chain from the     *)
(* zero root to finalizedNullifierRoot, whatever siblings were proposed on *)
(* the same root, and even when a root value comes back.                   *)
FinalizedChain ==
  /\ finalizedNullifierRoot = LastRoot(finalizedBatchAccumulator)
  /\ \A i \in 1..Len(finalizedBatchAccumulator) :
       finalizedBatchAccumulator[i].previousNullifierRoot =
         IF i = 1 THEN NoRoot ELSE finalizedBatchAccumulator[i - 1].nullifierRoot

(* The tally's denominators agree with the proposals: acceptedBallotCount  *)
(* and finalizedBatchCount count the Finalized proposals, each once, and   *)
(* no reverted or open one; the batch count can never overflow first.      *)
AcceptedIsFinalized ==
  LET finalized == {id \in DOMAIN proposals : proposals[id].state = "Finalized"}
  IN /\ acceptedBallotCount =
          SumFunction([id \in finalized |-> proposals[id].batch.ballotCount])
     /\ finalizedBatchCount = Cardinality(finalized)
     /\ finalizedBatchCount = Len(finalizedBatchAccumulator)
     /\ finalizedBatchCount <= acceptedBallotCount

(* A manifest enters the accumulator at most once, although several        *)
(* batchers may race to submit it and its old root may become current      *)
(* again.                                                                  *)
NoManifestCountedTwice ==
  \A i, j \in 1..Len(finalizedBatchAccumulator) :
    finalizedBatchAccumulator[i].manifestDigest =
      finalizedBatchAccumulator[j].manifestDigest => i = j

(* A batcher that only proposes valid batches and never challenges has     *)
(* lost nothing: what it is short of its initial balance is locked in its  *)
(* open proposals, whoever challenges or overtakes it.                     *)
HonestBatcherWhole ==
  \A a \in Batchers \ Challengers :
    LET mine == {id \in DOMAIN proposals : proposals[id].batcher = a}
    IN (\A id \in mine : proposals[id].batch \in ValidBatches) =>
         balance[a] + BatcherBond * Cardinality(mine \cap OpenProposals)
           >= InitialBalance

(* An invalid batch enters the ledger only after challengers had the whole *)
(* challenge period and beyond: never through the proof path, never at the *)
(* deadline itself, when a challenge is still allowed.                     *)
FraudHasFullWindow ==
  [][\A id \in OpenProposals :
       (/\ proposals'[id].state = "Finalized"
        /\ proposals[id].batch \notin ValidBatches)
       => now > proposals[id].proposedAt + ChallengePeriod]_vars

(* The contract implements the abstract ledger: batches are submitted and  *)
(* decided once, acceptance extends the head, and a valid batch is         *)
(* rejected only because another one replaced the root it starts from.     *)
Ledger == INSTANCE SettlementLedger WITH
  pending <- {proposals[id].batch : id \in OpenProposals},
  decided <- {proposals[id].batch : id \in DOMAIN proposals \ OpenProposals},
  ledger  <- finalizedBatchAccumulator

ImplementsLedger == Ledger!Spec

Settled(id) == id \in DOMAIN proposals /\ ~IsProposed(id)

(* A proposal on the current root whose ballots do not fit the uint64      *)
(* counter: _finalize reverts in its checked addition, revertStaleProposal *)
(* because the root is current.                                            *)
Unfit(id) ==
  /\ IsProposed(id)
  /\ proposals[id].batch.previousNullifierRoot = finalizedNullifierRoot
  /\ \/ finalizedBatchCount + 1 > MaxUint64
     \/ acceptedBallotCount + proposals[id].batch.ballotCount > MaxUint64

(* With prompt keepers, a proposal whose window ends before the settlement *)
(* window does is decided and its bond released, even if nobody challenges *)
(* or proves anything (finalizeOptimistic, revertStaleProposal).  The one  *)
(* exception: when the settlement window has closed, its ballots still     *)
(* overflow acceptedBallotCount on the root it starts from.                *)
ProposalsSettle ==
  \A id \in Batchers \X (0..Cardinality(Manifests)) \X Manifests :
    (IsProposed(id) /\ proposals[id].challengeDeadline < SettlementEndsAt)
      ~> (Settled(id) \/ (now > SettlementEndsAt /\ Unfit(id)))

(* docs/v4-production.md: "Unchallenged batches may finalize               *)
(* optimistically after the challenge deadline".  Without the restriction  *)
(* on the deadline: every proposal is decided in the end.                  *)
EveryProposalSettles ==
  \A id \in Batchers \X (0..Cardinality(Manifests)) \X Manifests :
    IsProposed(id) ~> Settled(id)
==============================================================================
