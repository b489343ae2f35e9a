--------------------------- MODULE TallyVerifierV4 ---------------------------
(***************************************************************************)
(* The result contract of one constituency (contracts/v4/                  *)
(* TallyVerifierV4.sol) composed with the settlement contract it reads.    *)
(***************************************************************************)
EXTENDS BatchCommitmentV4, SequencesExt

CONSTANTS Candidates,   \* candidateProfile many candidates
          NoTally       \* no result published yet

VARIABLES
  tally,         \* the published inputs, or NoTally
  publishedAt    \* history: block.timestamp of the publication

tallyVars == <<tally, publishedAt>>

TALLY_VERIFIER_TYPE == "SVB_TALLY_V4"

CandidateCounts == [Candidates -> 0..MaxUint64]

Total(counts) == SumFunction(counts)

TallyInit == Init /\ tally = NoTally /\ publishedAt = 0

CountsBoundedByAccepted(counts) ==  \* seeded fault: < accepted not noticed
  Total(counts) <= acceptedBallotCount

CountsMatchAccepted(counts) == Total(counts) = acceptedBallotCount

VotingOver == now > VotingEndsAt

(* publishTally, by anyone, once, as soon as voting is over.  That the     *)
(* registered verifier accepts a proof of these inputs is nondeterminism:  *)
(* the caller may or may not have one.                                     *)
PublishTally(counts) ==
  /\ tally = NoTally
  /\ VotingOver
  /\ CountsMatchAccepted(counts)
  /\ TALLY_VERIFIER_TYPE \in verifiers
  /\ tally' = [accumulator     |-> finalizedBatchAccumulator,
               acceptedCount   |-> acceptedBallotCount,
               candidateCounts |-> counts]
  /\ publishedAt' = now
  /\ UNCHANGED vars

TallyNext ==
  \/ Next /\ UNCHANGED tallyVars
  \/ \E counts \in CandidateCounts : PublishTally(counts)

TallySpec == TallyInit /\ [][TallyNext]_<<vars, tallyVars>>

-----------------------------------------------------------------------------
(* Properties *)

TallyTypeOK ==
  /\ TypeOK
  /\ tally = NoTally \/ tally \in [accumulator     : Seq(Batches),
                                   acceptedCount   : 0..MaxUint64,
                                   candidateCounts : CandidateCounts]
  /\ publishedAt \in Nat

BallotsIn(ledger) ==
  SumFunction([i \in DOMAIN ledger |-> ledger[i].ballotCount])

(* The published counts are those of a ledger the constituency really had: *)
(* the bound accumulator is a prefix of the current one for ever, and the  *)
(* counts distribute exactly the ballots in that prefix.                   *)
TallyBindsPrefix ==
  tally # NoTally =>
    /\ IsPrefix(tally.accumulator, finalizedBatchAccumulator)
    /\ Total(tally.candidateCounts) = BallotsIn(tally.accumulator)
    /\ tally.acceptedCount = BallotsIn(tally.accumulator)

(* Once a result is out no new batch can be proposed: the last instant of  *)
(* proposeBatch lies before the first instant of publishTally.             *)
NoProposalAfterTally ==
  [][tally # NoTally => DOMAIN proposals' = DOMAIN proposals]_<<vars, tallyVars>>

(* A result published after the settlement window covers every batch that  *)
(* is ever finalized.                                                      *)
SettledTallyComplete ==
  (tally # NoTally /\ publishedAt > SettlementEndsAt) =>
    tally.accumulator = finalizedBatchAccumulator

(* docs/v4-production.md: a result is published "only when the candidate   *)
(* counts sum to the accepted ballot count"; the published result is       *)
(* final, so the two agree from then on.                                   *)
TallyMatchesAccepted ==
  tally # NoTally => Total(tally.candidateCounts) = acceptedBallotCount
==============================================================================
