----------------------- MODULE NationalElectionIndexV4 -----------------------
(***************************************************************************)
(* The national index over independently settled constituencies            *)
(* (contracts/v4/NationalElectionIndexV4.sol).  Each deployment's own      *)
(* settlement and tally are reduced to what the index reads from them:     *)
(* acceptedBallotCount, which grows until settlement ends, and the         *)
(* published tally, whose public inputs fix the count at publication.      *)
(***************************************************************************)
EXTENDS Integers, Sequences, FiniteSets, Functions

CONSTANTS
  Deployments,      \* ElectionConfigV4/TallyVerifierV4 pairs of this national election
  ConstituencyOf,   \* deployment -> constituencyId; two may share one
  Expected,         \* expectedConstituencyCount
  MaxUint64,        \* largest uint64, scaled down by the models
  MaxAccepted,      \* bound: ballots one deployment accepts at most
  NotPublished,     \* no tally yet
  NoLeaf            \* bytes32(0)

Leaf == [deployment : Deployments, inputs : 0..MaxAccepted, accepted : 0..MaxAccepted]

ASSUME IndexAssumption ==
  /\ Expected \in Nat \ {0}
  /\ MaxUint64 \in Nat
  /\ MaxAccepted \in 0..MaxUint64
  /\ ConstituencyOf \in [Deployments -> Range(ConstituencyOf)]
  /\ NotPublished \notin 0..MaxAccepted
  /\ NoLeaf \notin Leaf

VARIABLES
  records,                       \* the registered deployments, by index
  tallyLeaf,                     \* index -> leaf, NoLeaf until tallyRecorded
  registrationFrozen,
  nationalIndexFinalized,
  recordedTallyCount,
  accumulatedTallyCount,
  nationalAcceptedBallotCount,
  nationalTallyAccumulator,      \* the leaves hashed in so far
  accepted,                      \* deployment -> acceptedBallotCount
  settling,                      \* deployments whose settlement may still finalize batches
  tally                          \* deployment -> count in its published inputs

indexVars == <<records, tallyLeaf, registrationFrozen, nationalIndexFinalized,
               recordedTallyCount, accumulatedTallyCount,
               nationalAcceptedBallotCount, nationalTallyAccumulator>>
electionVars == <<accepted, settling, tally>>
vars == <<indexVars, electionVars>>

Init ==
  /\ records = << >>
  /\ tallyLeaf = << >>
  /\ registrationFrozen = FALSE
  /\ nationalIndexFinalized = FALSE
  /\ recordedTallyCount = 0
  /\ accumulatedTallyCount = 0
  /\ nationalAcceptedBallotCount = 0
  /\ nationalTallyAccumulator = << >>
  /\ accepted = [d \in Deployments |-> 0]
  /\ settling = Deployments
  /\ tally = [d \in Deployments |-> NotPublished]

-----------------------------------------------------------------------------
NewConstituencyUnchecked(d) ==    \* seeded fault: compares deployments, not ids
  d \notin Range(records)

NewConstituency(d) ==
  \A i \in DOMAIN records : ConstituencyOf[records[i]] # ConstituencyOf[d]

(* registerConstituency, by the registrar *)
RegisterConstituency(d) ==
  /\ ~registrationFrozen
  /\ NewConstituency(d)
  /\ Len(records) < Expected
  /\ records' = Append(records, d)
  /\ tallyLeaf' = Append(tallyLeaf, NoLeaf)
  /\ UNCHANGED <<registrationFrozen, nationalIndexFinalized, recordedTallyCount,
                 accumulatedTallyCount, nationalAcceptedBallotCount,
                 nationalTallyAccumulator, electionVars>>

(* freezeRegistration, by the admin *)
FreezeRegistration ==
  /\ ~registrationFrozen
  /\ Len(records) = Expected
  /\ registrationFrozen' = TRUE
  /\ UNCHANGED <<records, tallyLeaf, nationalIndexFinalized, recordedTallyCount,
                 accumulatedTallyCount, nationalAcceptedBallotCount,
                 nationalTallyAccumulator, electionVars>>

NotRecordedUnchecked(i) == TRUE   \* seeded fault: tallyRecorded not checked

NotRecorded(i) == tallyLeaf[i] = NoLeaf

(* recordConstituencyTally, by anyone; reads the settlement contract's     *)
(* count at this moment, not the one the tally was published with.         *)
RecordConstituencyTally(i) ==
  LET d == records[i]
  IN /\ registrationFrozen
     /\ NotRecorded(i)
     /\ tally[d] # NotPublished
     /\ nationalAcceptedBallotCount + accepted[d] <= MaxUint64
     /\ tallyLeaf' = [tallyLeaf EXCEPT ![i] =
                        [deployment |-> d, inputs |-> tally[d],
                         accepted |-> accepted[d]]]
     /\ recordedTallyCount' = recordedTallyCount + 1
     /\ nationalAcceptedBallotCount' = nationalAcceptedBallotCount + accepted[d]
     /\ UNCHANGED <<records, registrationFrozen, nationalIndexFinalized,
                    accumulatedTallyCount, nationalTallyAccumulator,
                    electionVars>>

NextToAccumulateAny ==            \* seeded fault: in the order of recording
  {i \in DOMAIN records : /\ tallyLeaf[i] # NoLeaf
                          /\ tallyLeaf[i] \notin Range(nationalTallyAccumulator)}

NextToAccumulateSkipsFirst ==     \* seeded fault: the counter starts one too far
  {i \in DOMAIN records : i = accumulatedTallyCount + 2 /\ tallyLeaf[i] # NoLeaf}

NextToAccumulate ==
  {i \in DOMAIN records : i = accumulatedTallyCount + 1 /\ tallyLeaf[i] # NoLeaf}

(* accumulateNextTally, by anyone *)
AccumulateNextTally(i) ==
  /\ registrationFrozen
  /\ accumulatedTallyCount < Expected
  /\ i \in NextToAccumulate
  /\ nationalTallyAccumulator' = Append(nationalTallyAccumulator, tallyLeaf[i])
  /\ accumulatedTallyCount' = accumulatedTallyCount + 1
  /\ UNCHANGED <<records, tallyLeaf, registrationFrozen, nationalIndexFinalized,
                 recordedTallyCount, nationalAcceptedBallotCount, electionVars>>

AllIncludedByRegistration ==      \* seeded fault: the wrong counter is compared
  Len(records) = Expected

AllIncluded == accumulatedTallyCount = Expected

(* finalizeNationalIndex, by anyone *)
FinalizeNationalIndex ==
  /\ registrationFrozen
  /\ AllIncluded
  /\ ~nationalIndexFinalized
  /\ nationalIndexFinalized' = TRUE
  /\ UNCHANGED <<records, tallyLeaf, registrationFrozen, recordedTallyCount,
                 accumulatedTallyCount, nationalAcceptedBallotCount,
                 nationalTallyAccumulator, electionVars>>

(* What a constituency does meanwhile, as TallyVerifierV4 (the module)     *)
(* allows: batches are finalized until settlement ends, and the tally is   *)
(* published once with the count of that moment.                           *)
ConstituencyFinalizesBatch(d) ==
  /\ d \in settling
  /\ accepted[d] < MaxAccepted
  /\ accepted' = [accepted EXCEPT ![d] = @ + 1]
  /\ UNCHANGED <<indexVars, settling, tally>>

ConstituencyPublishesTally(d) ==
  /\ tally[d] = NotPublished
  /\ tally' = [tally EXCEPT ![d] = accepted[d]]
  /\ UNCHANGED <<indexVars, accepted, settling>>

ConstituencySettlementEnds(d) ==
  /\ d \in settling
  /\ settling' = settling \ {d}
  /\ UNCHANGED <<indexVars, accepted, tally>>

Next ==
  \/ \E d \in Deployments : RegisterConstituency(d)
  \/ FreezeRegistration
  \/ \E i \in DOMAIN records : RecordConstituencyTally(i)
  \/ \E i \in DOMAIN records : AccumulateNextTally(i)
  \/ FinalizeNationalIndex
  \/ \E d \in Deployments : \/ ConstituencyFinalizesBatch(d)
                            \/ ConstituencyPublishesTally(d)
                            \/ ConstituencySettlementEnds(d)

Spec == Init /\ [][Next]_vars

(* The three permissionless calls are made by whoever wants the national   *)
(* result.  Governance and the constituencies owe nothing.                 *)
FairSpec ==
  /\ Spec
  /\ WF_vars(\E i \in DOMAIN records : RecordConstituencyTally(i))
  /\ WF_vars(\E i \in DOMAIN records : AccumulateNextTally(i))
  /\ WF_vars(FinalizeNationalIndex)

-----------------------------------------------------------------------------
(* Properties *)

TypeOK ==
  /\ records \in Seq(Deployments)
  /\ tallyLeaf \in Seq(Leaf \cup {NoLeaf})
  /\ Len(tallyLeaf) = Len(records)
  /\ registrationFrozen \in BOOLEAN
  /\ nationalIndexFinalized \in BOOLEAN
  /\ recordedTallyCount \in 0..Expected
  /\ accumulatedTallyCount \in 0..Expected
  /\ nationalAcceptedBallotCount \in 0..MaxUint64
  /\ nationalTallyAccumulator \in Seq(Leaf)
  /\ accepted \in [Deployments -> 0..MaxAccepted]
  /\ settling \in SUBSET Deployments
  /\ tally \in [Deployments -> (0..MaxAccepted) \cup {NotPublished}]

Recorded == {i \in DOMAIN records : tallyLeaf[i] # NoLeaf}

(* The order in which constituencies finish and are recorded cannot be     *)
(* seen in the accumulator: it is the leaves of the registration order, as *)
(* far as accumulated.                                                     *)
IndexDeterministic ==
  nationalTallyAccumulator = SubSeq(tallyLeaf, 1, accumulatedTallyCount)

(* One constituency counts once, even when two deployments of it exist.    *)
OneLeafPerConstituency ==
  \A i, j \in Recorded :
    ConstituencyOf[tallyLeaf[i].deployment] =
      ConstituencyOf[tallyLeaf[j].deployment] => i = j

(* The counters summarise the leaves: the national ballot count is the sum *)
(* over the recorded leaves, each added once.                              *)
CountersAgree ==
  /\ recordedTallyCount = Cardinality(Recorded)
  /\ nationalAcceptedBallotCount =
       SumFunction([i \in Recorded |-> tallyLeaf[i].accepted])

(* A finalized index is complete: every expected constituency is recorded  *)
(* and accumulated, so no permissionless call can change it any more.      *)
FinalIndexComplete ==
  nationalIndexFinalized =>
    /\ Cardinality(Recorded) = Expected
    /\ Len(nationalTallyAccumulator) = Expected

FinalIndexFrozen ==
  [][nationalIndexFinalized => UNCHANGED indexVars]_vars

(* "anyone finalizes the national index once every constituency is         *)
(* included": when a frozen roster has all its tallies published and its   *)
(* ballots fit the counter, the index is finalized in the end.             *)
Includable ==
  /\ registrationFrozen
  /\ \A i \in DOMAIN records : tally[records[i]] # NotPublished
  /\ SumFunction([i \in DOMAIN records |-> accepted[records[i]]]) <= MaxUint64

IndexCompletes == <>[]Includable => <>nationalIndexFinalized
==============================================================================
