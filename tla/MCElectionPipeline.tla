------------------------- MODULE MCElectionPipeline -------------------------
(***************************************************************************)
(* TLC instance of ElectionPipeline: elections of a few ballots,           *)
(* each with the mishaps its version has to cope with, and elections of    *)
(* one or two ballots with those of their ceremony and their trustees.     *)
(***************************************************************************)
EXTENDS ElectionPipeline

MCBallotIds == 1..4

MCNullifierOf ==
  [x \in Elections \X Positions |-> x[2] + IF x[1] = "e1" THEN 0 ELSE 4]

Voter(position, choice) ==
  [position |-> position, choice |-> choice, roll |-> {0, 1, 2},
   election |-> "e1", candidateList |-> "list1", privateKey |-> 3,
   contentId |-> "cid", damage |-> "none"]

Box(voters) == [id \in DOMAIN voters |-> voters[id] @@ [id |-> id]]

Ceremony(privateKey, coefficient) ==
  [privateKey |-> privateKey, coefficients |-> <<coefficient>>,
   trusteeCount |-> 3]

Election(v, voters) ==
  [version |-> v, ballots |-> Box(voters), election |-> "e1",
   candidateList |-> "list1", roll |-> {0, 1, 2},
   maxList |-> 2, maxArtifacts |-> 2, maxBatches |-> 2, maxShares |-> 0,
   trusteeCount |-> 3, ceremonies |-> {Ceremony(3, 2)},
   maxRuns |-> 1, maxFaults |-> 0, maxFiles |-> 3]

(* Batching: a revote, with one more artifact than batches;                *)
Revote == <<Voter(0, "A"), Voter(1, "B"), Voter(0, "B")>>

(* a ballot for another list and one to another key;                       *)
Strays == <<Voter(0, "A"), [Voter(1, "B") EXCEPT !.candidateList = "list2"],
            [Voter(2, "B") EXCEPT !.privateKey = 4]>>

(* an unpinned package, a nullifier written anew, a proof that fails;      *)
Careless == <<Voter(0, "A"), [Voter(1, "B") EXCEPT !.contentId = "none"],
              [Voter(0, "A") EXCEPT !.damage = "reencoded"],
              [Voter(2, "A") EXCEPT !.damage = "badProof"]>>

(* an outdated roll, swapped ciphertexts, another election;                *)
Damage == <<Voter(0, "B"), [Voter(2, "B") EXCEPT !.roll = {0, 2}],
            [Voter(1, "A") EXCEPT !.damage = "swapped"],
            [Voter(1, "A") EXCEPT !.election = "e2"]>>

(* and batches of three packages.                                          *)
Three == <<Voter(0, "A"), Voter(1, "B"), Voter(2, "B")>>

BatchingElections ==
  {Election(v, box) : v \in 1..3, box \in {Careless, Damage}} \cup
  {[Election(v, box) EXCEPT !.maxArtifacts = 3] :
     v \in 1..3, box \in {Revote, Strays}} \cup
  {[Election(v, Three) EXCEPT !.maxList = 4] : v \in 1..3}

(* Decryption: the same key shared twice, another key, a share that would  *)
(* be zero;                                                                *)
Ceremonies == {Ceremony(3, 2), Ceremony(3, 5), Ceremony(4, 1), Ceremony(3, 4)}

One == <<Voter(0, "A")>>

(* and two encrypted tallies, one after the other, of one election.        *)
Two == <<Voter(0, "A"), Voter(1, "B")>>

DecryptionElections ==
  {[Election(v, One) EXCEPT !.maxArtifacts = 1, !.maxBatches = 1,
      !.ceremonies = Ceremonies, !.maxShares = 3,
      !.maxRuns = 2, !.maxFaults = 1] : v \in 1..3}
  \cup
  {[Election(v, Two) EXCEPT !.maxBatches = 1, !.maxShares = 3] : v \in 1..3}

MCScenarios == BatchingElections \cup DecryptionElections
=============================================================================
