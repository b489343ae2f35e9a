-------------------- MODULE NationalElectionIndexV4_proofs --------------------
(***************************************************************************)
(* Safety of the national index for any number of deployments and          *)
(* constituencies and any order of recording.                              *)
(***************************************************************************)
EXTENDS NationalElectionIndexV4, FiniteData_proofs, SequenceTheorems

(* The roster: one deployment per constituency, complete when frozen.      *)
Roster ==
  /\ Len(records) <= Expected
  /\ registrationFrozen => Len(records) = Expected
  /\ \A i, j \in DOMAIN records :
       ConstituencyOf[records[i]] = ConstituencyOf[records[j]] => i = j

(* A leaf is of the deployment at its place, written once frozen.          *)
Leaves ==
  /\ \A i \in Recorded :
       registrationFrozen /\ tallyLeaf[i].deployment = records[i]
  /\ recordedTallyCount = Cardinality(Recorded)

(* The accumulator holds the leaves of the first accumulatedTallyCount     *)
(* places, all of them recorded.                                           *)
Accumulated ==
  /\ accumulatedTallyCount <= Len(records)
  /\ Len(nationalTallyAccumulator) = accumulatedTallyCount
  /\ \A i \in 1..accumulatedTallyCount :
       i \in Recorded /\ nationalTallyAccumulator[i] = tallyLeaf[i]
  /\ nationalIndexFinalized =>
       registrationFrozen /\ accumulatedTallyCount = Expected

IndexInv == TypeOK /\ Roster /\ Leaves /\ Accumulated

LEMMA InitIndex == Init => IndexInv
<1>1. SUFFICES ASSUME Init PROVE IndexInv
  OBVIOUS
<1>2. Recorded = {}
  BY <1>1 DEF Init, Recorded
<1>3. TypeOK
  <2>1. /\ records = << >> /\ tallyLeaf = << >> /\ nationalTallyAccumulator = << >>
        /\ registrationFrozen \in BOOLEAN /\ nationalIndexFinalized \in BOOLEAN
    BY <1>1 DEF Init
  <2>2. /\ recordedTallyCount = 0 /\ accumulatedTallyCount = 0
        /\ nationalAcceptedBallotCount = 0
    BY <1>1 DEF Init
  <2>3. /\ recordedTallyCount \in 0..Expected /\ accumulatedTallyCount \in 0..Expected
        /\ nationalAcceptedBallotCount \in 0..MaxUint64
    BY <2>2, IndexAssumption
  <2>4. /\ accepted \in [Deployments -> 0..MaxAccepted]
        /\ settling \in SUBSET Deployments
        /\ tally \in [Deployments -> (0..MaxAccepted) \cup {NotPublished}]
    BY <1>1, IndexAssumption DEF Init
  <2>5. QED
    BY <2>1, <2>3, <2>4 DEF TypeOK
<1>4. Leaves
  BY <1>1, <1>2, FS_EmptySet DEF Init, Leaves
<1>5. QED
  BY <1>1, <1>2, <1>3, <1>4, IndexAssumption DEF Init, IndexInv, Roster, Accumulated

LEMMA Places ==
  ASSUME NEW n \in Nat
  PROVE  IsFiniteSet(1..n) /\ Cardinality(1..n) = n
<1>1. /\ IsFiniteSet(1..n)
      /\ Cardinality(1..n) = IF 1 > n THEN 0 ELSE n - 1 + 1
  BY FS_Interval
<1>2. QED
  BY <1>1

(* The recorded places are finitely many. *)
LEMMA RecordedFinite ==
  ASSUME IndexInv
  PROVE  /\ Recorded \subseteq 1..Len(records)
         /\ IsFiniteSet(Recorded)
         /\ Cardinality(Recorded) \in Nat
         /\ Cardinality(Recorded) <= Len(records)
<1>1. Len(records) \in Nat /\ Recorded \subseteq 1..Len(records)
  BY DEF IndexInv, TypeOK, Recorded
<1>2. /\ IsFiniteSet(1..Len(records))
      /\ Cardinality(1..Len(records)) = Len(records)
  BY <1>1, Places
<1>3. QED
  BY <1>1, <1>2, FS_Subset, FS_CardinalityType

LEMMA RegisterIndex ==
  ASSUME IndexInv, NEW d \in Deployments, RegisterConstituency(d)
  PROVE  IndexInv'
<1>1. /\ ~registrationFrozen
      /\ \A i \in DOMAIN records : ConstituencyOf[records[i]] # ConstituencyOf[d]
      /\ Len(records) < Expected
      /\ records' = Append(records, d)
      /\ tallyLeaf' = Append(tallyLeaf, NoLeaf)
      /\ UNCHANGED <<registrationFrozen, nationalIndexFinalized,
                     recordedTallyCount, accumulatedTallyCount,
                     nationalAcceptedBallotCount, nationalTallyAccumulator>>
      /\ UNCHANGED <<accepted, settling, tally>>
  BY DEF RegisterConstituency, NewConstituency, electionVars
<1>2. /\ records \in Seq(Deployments) /\ tallyLeaf \in Seq(Leaf \cup {NoLeaf})
      /\ Len(tallyLeaf) = Len(records) /\ Len(records) \in Nat
  BY DEF IndexInv, TypeOK
<1>3. /\ records' \in Seq(Deployments)
      /\ DOMAIN records = 1..Len(records)
      /\ DOMAIN records' = 1..Len(records) + 1
      /\ Len(records') = Len(records) + 1
      /\ \A i \in DOMAIN records : records'[i] = records[i]
      /\ records'[Len(records) + 1] = d
  BY <1>1, <1>2
<1>4. /\ tallyLeaf' \in Seq(Leaf \cup {NoLeaf})
      /\ Len(tallyLeaf') = Len(records) + 1
      /\ \A i \in DOMAIN records : tallyLeaf'[i] = tallyLeaf[i]
      /\ tallyLeaf'[Len(records) + 1] = NoLeaf
  BY <1>1, <1>2
<1>5. Recorded = {} /\ Recorded' = {}
  BY <1>1, <1>3, <1>4 DEF IndexInv, Leaves, Recorded
<1>6. TypeOK'
  BY <1>1, <1>3, <1>4 DEF IndexInv, TypeOK
<1>7. Roster'
  <2>1. Len(records') <= Expected /\ ~registrationFrozen'
    BY <1>1, <1>2, <1>3, IndexAssumption
  <2>2. ASSUME NEW i \in DOMAIN records', NEW j \in DOMAIN records',
               ConstituencyOf[records'[i]] = ConstituencyOf[records'[j]]
        PROVE  i = j
    <3>1. (i \in DOMAIN records \/ i = Len(records) + 1)
          /\ (j \in DOMAIN records \/ j = Len(records) + 1)
      BY <1>2, <1>3
    <3>2. CASE i \in DOMAIN records /\ j \in DOMAIN records
      BY <1>3, <2>2, <3>2 DEF IndexInv, Roster
    <3>3. QED
      BY <1>1, <1>3, <2>2, <3>1, <3>2
  <2>3. QED
    BY <2>1, <2>2 DEF Roster
<1>8. Leaves'
  BY <1>1, <1>5 DEF IndexInv, Leaves
<1>9. Accumulated'
  BY <1>1, <1>2, <1>3, <1>5 DEF IndexInv, Accumulated
<1>10. QED
  BY <1>6, <1>7, <1>8, <1>9 DEF IndexInv

LEMMA RecordIndex ==
  ASSUME IndexInv, NEW i \in DOMAIN records, RecordConstituencyTally(i)
  PROVE  IndexInv'
<1> DEFINE leaf == [deployment |-> records[i], inputs |-> tally[records[i]],
                    accepted |-> accepted[records[i]]]
<1>1. /\ registrationFrozen
      /\ tallyLeaf[i] = NoLeaf
      /\ tally[records[i]] # NotPublished
      /\ nationalAcceptedBallotCount + accepted[records[i]] <= MaxUint64
      /\ tallyLeaf' = [tallyLeaf EXCEPT ![i] = leaf]
      /\ recordedTallyCount' = recordedTallyCount + 1
      /\ nationalAcceptedBallotCount' =
           nationalAcceptedBallotCount + accepted[records[i]]
      /\ UNCHANGED <<records, registrationFrozen, nationalIndexFinalized,
                     accumulatedTallyCount, nationalTallyAccumulator>>
      /\ UNCHANGED <<accepted, settling, tally>>
  BY DEF RecordConstituencyTally, NotRecorded, electionVars
<1>2. /\ records \in Seq(Deployments) /\ tallyLeaf \in Seq(Leaf \cup {NoLeaf})
      /\ Len(tallyLeaf) = Len(records) /\ Len(records) \in Nat
      /\ DOMAIN tallyLeaf = 1..Len(records) /\ DOMAIN records = 1..Len(records)
  BY DEF IndexInv, TypeOK
<1>3. /\ records[i] \in Deployments
      /\ accepted[records[i]] \in 0..MaxAccepted
      /\ tally[records[i]] \in 0..MaxAccepted
  BY <1>1, <1>2 DEF IndexInv, TypeOK
<1>4. leaf \in Leaf /\ leaf # NoLeaf /\ leaf.deployment = records[i]
  BY <1>3, IndexAssumption DEF Leaf
<1> HIDE DEF leaf
<1>5. /\ tallyLeaf' \in Seq(Leaf \cup {NoLeaf})
      /\ Len(tallyLeaf') = Len(records)
      /\ tallyLeaf'[i] = leaf
      /\ \A j \in DOMAIN records : j # i => tallyLeaf'[j] = tallyLeaf[j]
  BY <1>1, <1>2, <1>4
<1>6. Recorded' = Recorded \cup {i} /\ i \notin Recorded
  BY <1>1, <1>2, <1>4, <1>5 DEF Recorded
<1>7. Cardinality(Recorded') = Cardinality(Recorded) + 1
  BY <1>6, RecordedFinite, FS_AddElement
<1>8. Cardinality(Recorded') <= Expected
  <2>1. Recorded' \subseteq 1..Len(records)
    BY <1>2, <1>6, RecordedFinite
  <2>2. /\ IsFiniteSet(1..Len(records))
        /\ Cardinality(1..Len(records)) = Len(records)
    <3>1. Len(records) \in Nat
      BY <1>2
    <3>2. QED
      BY <3>1, Places
  <2>3. Cardinality(Recorded') <= Len(records)
    BY <2>1, <2>2, FS_Subset
  <2>4. QED
    BY <1>1, <2>3 DEF IndexInv, Roster
<1>9. TypeOK'
  <2>1. recordedTallyCount' \in 0..Expected
    BY <1>1, <1>7, <1>8, RecordedFinite, IndexAssumption DEF IndexInv, Leaves
  <2>2. nationalAcceptedBallotCount' \in 0..MaxUint64
    BY <1>1, <1>3, IndexAssumption DEF IndexInv, TypeOK
  <2>3. QED
    BY <1>1, <1>5, <2>1, <2>2 DEF IndexInv, TypeOK
<1>10. Roster'
  BY <1>1 DEF IndexInv, Roster
<1>11. Leaves'
  <2>1. recordedTallyCount' = Cardinality(Recorded')
    BY <1>1, <1>7 DEF IndexInv, Leaves
  <2>2. \A j \in Recorded' : tallyLeaf'[j].deployment = records'[j]
    <3>1. ASSUME NEW j \in Recorded PROVE tallyLeaf'[j].deployment = records'[j]
      BY <1>1, <1>5, <1>6, <3>1 DEF IndexInv, Leaves, Recorded
    <3>2. QED
      BY <1>1, <1>4, <1>5, <1>6, <3>1
  <2>3. QED
    BY <1>1, <2>1, <2>2 DEF Leaves
<1>12. Accumulated'
  <2>1. \A j \in 1..accumulatedTallyCount :
          j \in Recorded' /\ nationalTallyAccumulator[j] = tallyLeaf'[j]
    <3>1. ASSUME NEW j \in 1..accumulatedTallyCount
          PROVE  /\ j \in Recorded /\ j \in DOMAIN records /\ j # i
                 /\ nationalTallyAccumulator[j] = tallyLeaf[j]
      BY <1>6, <3>1 DEF IndexInv, Accumulated, Recorded
    <3>2. QED
      BY <1>5, <1>6, <3>1
  <2>2. QED
    BY <1>1, <2>1 DEF IndexInv, Accumulated
<1>13. QED
  BY <1>9, <1>10, <1>11, <1>12 DEF IndexInv

LEMMA AccumulateIndex ==
  ASSUME IndexInv, NEW i \in DOMAIN records, AccumulateNextTally(i)
  PROVE  IndexInv'
<1>1. /\ registrationFrozen
      /\ accumulatedTallyCount < Expected
      /\ i = accumulatedTallyCount + 1
      /\ tallyLeaf[i] # NoLeaf
      /\ nationalTallyAccumulator' = Append(nationalTallyAccumulator, tallyLeaf[i])
      /\ accumulatedTallyCount' = accumulatedTallyCount + 1
      /\ UNCHANGED <<records, tallyLeaf, registrationFrozen,
                     nationalIndexFinalized, recordedTallyCount,
                     nationalAcceptedBallotCount>>
      /\ UNCHANGED <<accepted, settling, tally>>
  BY DEF AccumulateNextTally, NextToAccumulate, electionVars
<1>2. /\ i \in Recorded /\ Recorded' = Recorded
      /\ DOMAIN records = 1..Len(records) /\ Len(records) \in Nat
  BY <1>1 DEF Recorded, IndexInv, TypeOK
<1>3. tallyLeaf[i] \in Leaf
  BY <1>1, <1>2 DEF IndexInv, TypeOK
<1>4. /\ accumulatedTallyCount \in Nat
      /\ nationalTallyAccumulator \in Seq(Leaf)
      /\ Len(nationalTallyAccumulator) = accumulatedTallyCount
  BY DEF IndexInv, TypeOK, Accumulated
<1>5. /\ nationalTallyAccumulator' \in Seq(Leaf)
      /\ Len(nationalTallyAccumulator') = accumulatedTallyCount + 1
      /\ nationalTallyAccumulator'[accumulatedTallyCount + 1] = tallyLeaf[i]
      /\ \A j \in 1..accumulatedTallyCount :
           nationalTallyAccumulator'[j] = nationalTallyAccumulator[j]
  BY <1>1, <1>3, <1>4
<1>6. TypeOK'
  <2>1. accumulatedTallyCount' \in 0..Expected
    BY <1>1, <1>4, IndexAssumption
  <2>2. QED
    BY <1>1, <1>5, <2>1 DEF IndexInv, TypeOK
<1>7. Roster' /\ Leaves'
  BY <1>1, <1>2 DEF IndexInv, Roster, Leaves
<1>8. Accumulated'
  <2>1. ~nationalIndexFinalized
    BY <1>1, <1>4, IndexAssumption DEF IndexInv, Accumulated
  <2>2. \A j \in 1..accumulatedTallyCount' :
          j \in Recorded /\ nationalTallyAccumulator'[j] = tallyLeaf[j]
    <3>1. ASSUME NEW j \in 1..accumulatedTallyCount'
          PROVE  j \in Recorded /\ nationalTallyAccumulator'[j] = tallyLeaf[j]
      <4>1. j \in 1..accumulatedTallyCount \/ j = accumulatedTallyCount + 1
        BY <1>1, <1>4, <3>1
      <4>2. CASE j \in 1..accumulatedTallyCount
        BY <1>5, <4>2 DEF IndexInv, Accumulated
      <4>3. QED
        BY <1>1, <1>2, <1>5, <4>1, <4>2
    <3>2. QED
      BY <3>1
  <2>3. QED
    BY <1>1, <1>2, <1>4, <1>5, <2>1, <2>2 DEF IndexInv, Accumulated
<1>9. QED
  BY <1>6, <1>7, <1>8 DEF IndexInv

LEMMA NextIndex == IndexInv /\ [Next]_vars => IndexInv'
<1>1. SUFFICES ASSUME IndexInv, [Next]_vars PROVE IndexInv'
  OBVIOUS
<1>2. ASSUME NEW d \in Deployments, RegisterConstituency(d) PROVE IndexInv'
  BY <1>1, <1>2, RegisterIndex
<1>3. CASE FreezeRegistration
  <2>1. Recorded' = Recorded
    BY <1>3 DEF FreezeRegistration, Recorded
  <2>2. QED
    BY <1>1, <1>3, <2>1 DEF FreezeRegistration, electionVars, IndexInv, TypeOK,
         Roster, Leaves, Accumulated
<1>4. ASSUME NEW i \in DOMAIN records, RecordConstituencyTally(i) PROVE IndexInv'
  BY <1>1, <1>4, RecordIndex
<1>5. ASSUME NEW i \in DOMAIN records, AccumulateNextTally(i) PROVE IndexInv'
  BY <1>1, <1>5, AccumulateIndex
<1>6. CASE FinalizeNationalIndex
  <2>1. Recorded' = Recorded
    BY <1>6 DEF FinalizeNationalIndex, Recorded
  <2>2. QED
    BY <1>1, <1>6, <2>1 DEF FinalizeNationalIndex, AllIncluded, electionVars,
         IndexInv, TypeOK, Roster, Leaves, Accumulated
<1>7. ASSUME UNCHANGED indexVars, TypeOK' PROVE IndexInv'
  <2>1. Recorded' = Recorded
    BY <1>7 DEF indexVars, Recorded
  <2>2. QED
    BY <1>1, <1>7, <2>1 DEF indexVars, IndexInv, Roster, Leaves, Accumulated
<1>8. ASSUME NEW d \in Deployments, ConstituencyFinalizesBatch(d)
      PROVE  UNCHANGED indexVars /\ TypeOK'
  <2>1. accepted' \in [Deployments -> 0..MaxAccepted]
    BY <1>1, <1>8, IndexAssumption DEF ConstituencyFinalizesBatch, IndexInv, TypeOK
  <2>2. QED
    BY <1>1, <1>8, <2>1
       DEF ConstituencyFinalizesBatch, indexVars, IndexInv, TypeOK
<1>9. ASSUME NEW d \in Deployments, ConstituencyPublishesTally(d)
      PROVE  UNCHANGED indexVars /\ TypeOK'
  <2>1. tally' \in [Deployments -> (0..MaxAccepted) \cup {NotPublished}]
    BY <1>1, <1>9 DEF ConstituencyPublishesTally, IndexInv, TypeOK
  <2>2. QED
    BY <1>1, <1>9, <2>1
       DEF ConstituencyPublishesTally, indexVars, IndexInv, TypeOK
<1>10. ASSUME NEW d \in Deployments, ConstituencySettlementEnds(d)
       PROVE  UNCHANGED indexVars /\ TypeOK'
  BY <1>1, <1>10 DEF ConstituencySettlementEnds, indexVars, IndexInv, TypeOK
<1>11. CASE UNCHANGED vars
  BY <1>1, <1>7, <1>11 DEF vars, indexVars, electionVars, IndexInv, TypeOK
<1>12. QED
  BY <1>1, <1>2, <1>3, <1>4, <1>5, <1>6, <1>7, <1>8, <1>9, <1>10, <1>11 DEF Next

LEMMA IndexInvAlways == Spec => []IndexInv
BY InitIndex, NextIndex, PTL DEF Spec

-----------------------------------------------------------------------------
(* The counters, leaves and flags of the index keep their types: neither   *)
(* counter passes the number of expected constituencies, and the national  *)
(* ballot count stays a uint64.                                            *)
THEOREM IndexTypeCorrect == Spec => []TypeOK
<1>1. IndexInv => TypeOK
  BY DEF IndexInv
<1>2. QED
  BY <1>1, IndexInvAlways, PTL

(* Whatever order constituencies finish, are recorded and accumulated in,  *)
(* the accumulator is the leaves in the order of registration.             *)
THEOREM OrderInvisible == Spec => []IndexDeterministic
<1>1. ASSUME IndexInv PROVE IndexDeterministic
  <2> DEFINE n == accumulatedTallyCount
             prefix == SubSeq(tallyLeaf, 1, n)
  <2>1. /\ n \in Nat /\ n <= Len(records)
        /\ Len(nationalTallyAccumulator) = n
        /\ nationalTallyAccumulator \in Seq(Leaf)
        /\ \A i \in 1..n : nationalTallyAccumulator[i] = tallyLeaf[i]
    BY <1>1 DEF IndexInv, TypeOK, Accumulated
  <2>2. \A i \in 1..n : tallyLeaf[i] \in Leaf
    BY <2>1
  <2>3. /\ prefix \in Seq(Leaf)
        /\ Len(prefix) = n
        /\ \A i \in 1..n : prefix[i] = tallyLeaf[i]
    <3>1. /\ prefix \in Seq(Leaf)
          /\ Len(prefix) = IF 1 <= n THEN n - 1 + 1 ELSE 0
          /\ \A i \in 1..n - 1 + 1 : prefix[i] = tallyLeaf[1 + i - 1]
      BY <2>1, <2>2, SubSeqProperties
    <3> HIDE DEF prefix
    <3>2. QED
      BY <2>1, <3>1
  <2> HIDE DEF prefix
  <2>4. nationalTallyAccumulator = prefix
    BY <2>1, <2>3, SeqEqual
  <2>5. QED
    BY <2>4 DEF prefix, IndexDeterministic
<1>2. QED
  BY <1>1, IndexInvAlways, PTL

(* A constituency with two deployments still counts once. *)
THEOREM ConstituenciesOnce == Spec => []OneLeafPerConstituency
<1>1. ASSUME IndexInv PROVE OneLeafPerConstituency
  <2>1. \A i \in Recorded : i \in DOMAIN records /\ tallyLeaf[i].deployment = records[i]
    BY <1>1 DEF IndexInv, Leaves, Recorded
  <2>2. QED
    BY <1>1, <2>1 DEF OneLeafPerConstituency, IndexInv, Roster
<1>2. QED
  BY <1>1, IndexInvAlways, PTL

(* When the index is final, every place of the roster is recorded. *)
LEMMA FinalIsFull ==
  ASSUME IndexInv, nationalIndexFinalized
  PROVE  /\ registrationFrozen
         /\ Recorded = 1..Expected /\ DOMAIN records = 1..Expected
         /\ accumulatedTallyCount = Expected
         /\ Len(nationalTallyAccumulator) = Expected
<1>1. /\ registrationFrozen /\ accumulatedTallyCount = Expected
      /\ Len(nationalTallyAccumulator) = Expected
      /\ \A i \in 1..Expected : i \in Recorded
  BY DEF IndexInv, Accumulated
<1>2. DOMAIN records = 1..Expected
  BY <1>1 DEF IndexInv, Roster, TypeOK
<1>3. QED
  BY <1>1, <1>2 DEF Recorded

(* finalizeNationalIndex checks one counter; every expected constituency   *)
(* is then recorded and accumulated.                                       *)
THEOREM FinalIsComplete == Spec => []FinalIndexComplete
<1>1. ASSUME IndexInv PROVE FinalIndexComplete
  <2>1. Expected \in Nat /\ Cardinality(1..Expected) = Expected
    BY IndexAssumption, Places
  <2>2. QED
    BY <1>1, <2>1, FinalIsFull DEF FinalIndexComplete
<1>2. QED
  BY <1>1, IndexInvAlways, PTL

(* No call, by anyone, changes a final index. *)
THEOREM FinalIsFrozen == Spec => FinalIndexFrozen
<1>1. ASSUME IndexInv, [Next]_vars, nationalIndexFinalized
      PROVE  UNCHANGED indexVars
  <2>1. /\ registrationFrozen
        /\ accumulatedTallyCount = Expected
        /\ \A i \in DOMAIN records : tallyLeaf[i] # NoLeaf
    BY <1>1, FinalIsFull DEF Recorded
  <2>2. /\ ~ \E d \in Deployments : RegisterConstituency(d)
        /\ ~ FreezeRegistration
        /\ ~ \E i \in DOMAIN records : RecordConstituencyTally(i)
        /\ ~ \E i \in DOMAIN records : AccumulateNextTally(i)
        /\ ~ FinalizeNationalIndex
    <3>1. /\ ~ \E d \in Deployments : RegisterConstituency(d)
          /\ ~ FreezeRegistration
          /\ ~ FinalizeNationalIndex
      BY <1>1, <2>1 DEF RegisterConstituency, FreezeRegistration,
           FinalizeNationalIndex
    <3>2. ~ \E i \in DOMAIN records : RecordConstituencyTally(i)
      BY <2>1 DEF RecordConstituencyTally, NotRecorded
    <3>3. ~ \E i \in DOMAIN records : AccumulateNextTally(i)
      <4>1. ASSUME NEW i \in DOMAIN records, AccumulateNextTally(i)
            PROVE  accumulatedTallyCount < Expected
        BY <4>1 DEF AccumulateNextTally
      <4>2. QED
        BY <2>1, <4>1, IndexAssumption
    <3>4. QED
      BY <3>1, <3>2, <3>3
  <2>3. QED
    BY <1>1, <2>2 DEF Next, vars, ConstituencyFinalizesBatch,
         ConstituencyPublishesTally, ConstituencySettlementEnds
<1>2. QED
  BY <1>1, IndexInvAlways, PTL DEF Spec, FinalIndexFrozen

-----------------------------------------------------------------------------
(* The counters.  That a place is recorded once is what makes the ballot   *)
(* count the sum over the recorded leaves.                                 *)

AcceptedBallots == [i \in Recorded |-> tallyLeaf[i].accepted]

SumInv == IndexInv /\ nationalAcceptedBallotCount = SumFunction(AcceptedBallots)

LEMMA AcceptedBallotsType ==
  ASSUME TypeOK
  PROVE  /\ AcceptedBallots \in [Recorded -> Nat]
         /\ \A i \in Recorded : tallyLeaf[i].accepted \in Nat
<1>1. \A i \in Recorded : tallyLeaf[i] \in Leaf
  BY DEF TypeOK, Recorded
<1>2. \A leaf \in Leaf : leaf.accepted \in Nat
  BY IndexAssumption DEF Leaf
<1>3. QED
  BY <1>1, <1>2 DEF AcceptedBallots

(* A tally recorded adds its leaf's ballots to the sum. *)
LEMMA RecordSum ==
  ASSUME SumInv, IndexInv', NEW i \in DOMAIN records, RecordConstituencyTally(i)
  PROVE  SumInv'
<1> DEFINE leaf == [deployment |-> records[i], inputs |-> tally[records[i]],
                    accepted |-> accepted[records[i]]]
<1>1. /\ tallyLeaf[i] = NoLeaf
      /\ tallyLeaf' = [tallyLeaf EXCEPT ![i] = leaf]
      /\ nationalAcceptedBallotCount' =
           nationalAcceptedBallotCount + accepted[records[i]]
      /\ records' = records
  BY DEF RecordConstituencyTally, NotRecorded
<1>2. /\ DOMAIN tallyLeaf = DOMAIN records
      /\ tallyLeaf \in [DOMAIN records -> Leaf \cup {NoLeaf}]
  BY DEF SumInv, IndexInv, TypeOK
<1>3. leaf \in Leaf /\ leaf # NoLeaf /\ leaf.accepted = accepted[records[i]]
  <2>1. /\ records[i] \in Deployments
        /\ accepted[records[i]] \in 0..MaxAccepted
        /\ tally[records[i]] \in 0..MaxAccepted
    BY <1>1 DEF SumInv, IndexInv, TypeOK, RecordConstituencyTally
  <2>2. QED
    BY <2>1, IndexAssumption DEF Leaf
<1> HIDE DEF leaf
<1>4. /\ tallyLeaf'[i] = leaf
      /\ \A j \in DOMAIN records : j # i => tallyLeaf'[j] = tallyLeaf[j]
  BY <1>1, <1>2
<1>5. Recorded' = Recorded \cup {i} /\ i \notin Recorded
  BY <1>1, <1>3, <1>4 DEF Recorded
<1>6. IsFiniteSet(Recorded)
  BY RecordedFinite DEF SumInv
<1>7. AcceptedBallots \in [Recorded -> Nat]
  BY AcceptedBallotsType DEF SumInv, IndexInv
<1>8. AcceptedBallots' \in [Recorded \cup {i} -> Nat]
  <2>1. TypeOK'
    BY DEF IndexInv
  <2>2. \A j \in Recorded' : tallyLeaf'[j].accepted \in Nat
    <3>1. \A j \in Recorded : tallyLeaf'[j] = tallyLeaf[j]
      BY <1>4, <1>5 DEF Recorded
    <3>2. leaf.accepted \in Nat
      BY <1>3, IndexAssumption DEF Leaf
    <3>3. \A j \in Recorded : tallyLeaf[j].accepted \in Nat
      BY AcceptedBallotsType DEF SumInv, IndexInv
    <3>4. QED
      BY <1>4, <1>5, <3>1, <3>2, <3>3
  <2>3. QED
    BY <1>5, <2>2 DEF AcceptedBallots
<1>9. \A j \in Recorded : AcceptedBallots'[j] = AcceptedBallots[j]
  BY <1>4, <1>5 DEF AcceptedBallots, Recorded
<1>10. AcceptedBallots'[i] = accepted[records[i]]
  BY <1>3, <1>4, <1>5 DEF AcceptedBallots
<1>11. Adds(AcceptedBallots', AcceptedBallots, i)
  BY <1>5, <1>6, <1>7, <1>8, <1>9, SumFunctionAdds
<1>12. QED
  BY <1>1, <1>10, <1>11 DEF SumInv, Adds

LEMMA InitSum == Init => SumInv
<1>1. SUFFICES ASSUME Init PROVE SumInv
  OBVIOUS
<1>2. DOMAIN AcceptedBallots = {}
  BY <1>1 DEF Init, Recorded, AcceptedBallots
<1>3. QED
  BY <1>1, <1>2, InitIndex, SumFunctionEmpty DEF Init, SumInv

LEMMA NextSum == SumInv /\ [Next]_vars => SumInv'
<1>1. SUFFICES ASSUME SumInv, [Next]_vars PROVE SumInv'
  OBVIOUS
<1>2. IndexInv'
  BY <1>1, NextIndex DEF SumInv
<1>3. CASE UNCHANGED <<records, tallyLeaf, nationalAcceptedBallotCount>>
  <2>1. AcceptedBallots' = AcceptedBallots
    BY <1>3 DEF AcceptedBallots, Recorded
  <2>2. QED
    BY <1>1, <1>2, <1>3, <2>1 DEF SumInv
<1>4. ASSUME NEW d \in Deployments, RegisterConstituency(d) PROVE SumInv'
  <2>1. ~registrationFrozen /\ ~registrationFrozen'
        /\ UNCHANGED nationalAcceptedBallotCount
    BY <1>4 DEF RegisterConstituency
  <2>2. Recorded = {} /\ Recorded' = {}
    BY <1>1, <1>2, <2>1 DEF SumInv, IndexInv, Leaves
  <2>3. DOMAIN AcceptedBallots = {} /\ DOMAIN AcceptedBallots' = {}
    BY <2>2 DEF AcceptedBallots
  <2>4. SumFunction(AcceptedBallots) = 0 /\ SumFunction(AcceptedBallots') = 0
    BY <2>3, SumFunctionEmpty
  <2>5. QED
    BY <1>1, <1>2, <2>1, <2>4 DEF SumInv
<1>5. ASSUME NEW i \in DOMAIN records, RecordConstituencyTally(i) PROVE SumInv'
  BY <1>1, <1>2, <1>5, RecordSum
<1>6. ASSUME NEW i \in DOMAIN records, AccumulateNextTally(i) PROVE SumInv'
  BY <1>3, <1>6 DEF AccumulateNextTally
<1>7. ASSUME NEW d \in Deployments,
             \/ ConstituencyFinalizesBatch(d)
             \/ ConstituencyPublishesTally(d)
             \/ ConstituencySettlementEnds(d)
      PROVE  SumInv'
  BY <1>3, <1>7 DEF ConstituencyFinalizesBatch, ConstituencyPublishesTally,
       ConstituencySettlementEnds, indexVars
<1>8. QED
  BY <1>1, <1>3, <1>4, <1>5, <1>6, <1>7
     DEF Next, FreezeRegistration, FinalizeNationalIndex, vars, indexVars

(* The national counters summarise the recorded leaves: how many there are *)
(* and how many ballots they hold, each place added once whatever the      *)
(* order of recording.                                                     *)
THEOREM CountersSummariseLeaves == Spec => []CountersAgree
<1>1. SumInv => CountersAgree
  BY DEF SumInv, IndexInv, Leaves, CountersAgree, AcceptedBallots
<1>2. QED
  BY <1>1, InitSum, NextSum, PTL DEF Spec
==============================================================================
