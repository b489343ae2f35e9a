-------------------------- MODULE Settlement_proofs --------------------------
(***************************************************************************)
(* Theorems about the settlement contract (BatchCommitmentV4) and the      *)
(* result contract that reads it (TallyVerifierV4), for every value of     *)
(* their constants: types, bonds, the ledger and its counts, the           *)
(* refinement of SettlementLedger, what honest parties are promised, and   *)
(* the published tally.                                                    *)
(***************************************************************************)
EXTENDS TallyVerifierV4, FiniteData_proofs

(* The proposals after the proposal id is closed with the given outcome. *)
Closed(id, outcome) ==
  [proposals EXCEPT ![id].state = outcome, ![id].bond = 0]

(* Closing a proposal changes its state and bond and nothing else. *)
LEMMA ClosedProposals ==
  ASSUME TypeOK, NEW id \in DOMAIN proposals, NEW outcome \in BatchState
  PROVE  /\ Closed(id, outcome) \in [DOMAIN proposals -> BatchProposal]
         /\ DOMAIN Closed(id, outcome) = DOMAIN proposals
         /\ Closed(id, outcome)[id] =
              [proposals[id] EXCEPT !.state = outcome, !.bond = 0]
         /\ \A x \in DOMAIN proposals : x # id => Closed(id, outcome)[x] = proposals[x]
<1>1. proposals[id] \in BatchProposal
  BY DEF TypeOK
<1>2. [proposals[id] EXCEPT !.state = outcome, !.bond = 0] \in BatchProposal
  BY <1>1 DEF BatchProposal
<1>3. Closed(id, outcome) =
        [proposals EXCEPT ![id] = [proposals[id] EXCEPT !.state = outcome, !.bond = 0]]
  BY DEF TypeOK, Closed
<1>4. QED
  BY <1>2, <1>3 DEF TypeOK

(* Closing a proposal leaves every deadline, batcher and batch alone. *)
LEMMA ClosedKeeps ==
  ASSUME TypeOK, NEW id \in DOMAIN proposals, NEW outcome \in BatchState,
         proposals' = Closed(id, outcome)
  PROVE  /\ DOMAIN proposals' = DOMAIN proposals
         /\ \A x \in DOMAIN proposals :
              /\ proposals'[x].batcher = proposals[x].batcher
              /\ proposals'[x].batch = proposals[x].batch
              /\ proposals'[x].proposedAt = proposals[x].proposedAt
              /\ proposals'[x].challengeDeadline = proposals[x].challengeDeadline
         /\ proposals'[id].state = outcome
         /\ \A x \in DOMAIN proposals : x # id => proposals'[x] = proposals[x]
<1>1. proposals[id] \in BatchProposal
  BY DEF TypeOK
<1> DEFINE closed == [proposals[id] EXCEPT !.state = outcome, !.bond = 0]
<1>2. /\ closed.batcher = proposals[id].batcher
      /\ closed.batch = proposals[id].batch
      /\ closed.proposedAt = proposals[id].proposedAt
      /\ closed.challengeDeadline = proposals[id].challengeDeadline
      /\ closed.state = outcome
  BY <1>1 DEF BatchProposal
<1>3. /\ DOMAIN proposals' = DOMAIN proposals
      /\ proposals'[id] = closed
      /\ \A x \in DOMAIN proposals : x # id => proposals'[x] = proposals[x]
  BY ClosedProposals
<1> HIDE DEF closed
<1>4. QED
  BY <1>2, <1>3

(* A transfer between two accounts keeps every balance an integer. *)
LEMMA TransferType ==
  ASSUME NEW S, NEW bal \in [S -> Int], NEW from \in S, NEW to \in S,
         NEW amount \in Int
  PROVE  Transfer(bal, from, to, amount) \in [S -> Int]
BY DEF Transfer

-----------------------------------------------------------------------------
(* Type correctness. *)

LEMMA InitTypeOK == Init => TypeOK
<1>1. SUFFICES ASSUME Init PROVE TypeOK
  OBVIOUS
<1>2. DOMAIN proposals = {}
  BY <1>1 DEF Init
<1>3. proposals \in [DOMAIN proposals -> BatchProposal]
  BY <1>1, <1>2 DEF Init
<1>4. balance \in [Accounts \cup {Settlement} -> Int]
  BY <1>1, EnvironmentAssumption DEF Init
<1>5. finalizedBatchAccumulator \in Seq(Batches)
  BY <1>1 DEF Init
<1>6. QED
  BY <1>1, <1>2, <1>3, <1>4, <1>5, EnvironmentAssumption DEF Init, TypeOK

LEMMA ProposeTypeOK ==
  ASSUME TypeOK, NEW a \in Batchers, NEW b \in Batches, ProposeBatch(a, b)
  PROVE  TypeOK'
<1> DEFINE id == <<a, batcherNonces[a], b.manifestDigest>>
           proposal == [state             |-> "Proposed",
                        batcher           |-> a,
                        batch             |-> b,
                        proposedAt        |-> now,
                        challengeDeadline |-> now + ChallengePeriod,
                        bond              |-> BatcherBond]
<1>1. b \in BatchInput /\ b.manifestDigest \in Manifests
  BY EnvironmentAssumption DEF BatchInput
<1>2. id \in ProposalId
  BY <1>1 DEF TypeOK, ProposalId
<1>3. proposal \in BatchProposal
  BY ConfigAssumption DEF TypeOK, BatchProposal, BatchState
<1>4. proposals' = [x \in DOMAIN proposals \cup {id} |->
                      IF x = id THEN proposal ELSE proposals[x]]
  BY DEF ProposeBatch
<1>5. DOMAIN proposals' = DOMAIN proposals \cup {id}
  BY <1>4
<1> HIDE DEF id, proposal
<1>6. proposals' \in [DOMAIN proposals' -> BatchProposal]
  BY <1>3, <1>4, <1>5 DEF TypeOK
<1>7. (DOMAIN proposals') \in SUBSET ProposalId
  BY <1>2, <1>5 DEF TypeOK
<1>8. balance' \in [Accounts \cup {Settlement} -> Int]
  <2>1. balance' = Transfer(balance, a, Settlement, BatcherBond)
    BY DEF ProposeBatch
  <2>2. a \in Accounts \cup {Settlement} /\ BatcherBond \in Int
    BY ConfigAssumption DEF Accounts
  <2>3. QED
    BY <2>1, <2>2, TransferType DEF TypeOK
<1>9. /\ isManifestProposed' \in SUBSET Manifests
      /\ batcherNonces' \in [Batchers -> Nat]
  BY <1>1 DEF TypeOK, ProposeBatch
<1>10. QED
  BY <1>6, <1>7, <1>8, <1>9 DEF TypeOK, ProposeBatch, ledgerVars

LEMMA ChallengeTypeOK ==
  ASSUME TypeOK, NEW a \in Challengers, NEW id \in DOMAIN proposals,
         NEW v \in BOOLEAN, ChallengeBatch(a, id, v)
  PROVE  TypeOK'
<1> DEFINE staked == Transfer(balance, a, Settlement, ChallengerBond)
           S == Accounts \cup {Settlement}
<1>1. /\ proposals[id].bond \in Int
      /\ proposals[id].batcher \in S
      /\ a \in S /\ Settlement \in S
      /\ balance \in [S -> Int]
  BY DEF TypeOK, BatchProposal, Accounts
<1> ChallengerBond \in Int
  BY ConfigAssumption
<1> HIDE DEF S
<1>2. staked \in [S -> Int]
  BY <1>1, TransferType
<1> HIDE DEF staked
<1>3. CASE v
  <2>1. proposals' = Closed(id, "Reverted")
    BY <1>3 DEF ChallengeBatch, Closed
  <2>2. balance' = Transfer(staked, Settlement, a, proposals[id].bond + ChallengerBond)
    BY <1>3 DEF ChallengeBatch, staked
  <2>3. balance' \in [S -> Int]
    <3>1. proposals[id].bond + ChallengerBond \in Int
      BY <1>1
    <3>2. QED
      BY <1>1, <1>2, <2>2, <3>1, TransferType
  <2>4. QED
    BY <2>1, <2>3, ClosedProposals DEF TypeOK, ChallengeBatch, ledgerVars, BatchState, S
<1>4. CASE ~v
  <2>1. balance' = Transfer(staked, Settlement, proposals[id].batcher, ChallengerBond)
    BY <1>4 DEF ChallengeBatch, staked
  <2>2. balance' \in [S -> Int]
    BY <1>1, <1>2, <2>1, TransferType
  <2>3. QED
    BY <1>4, <2>2 DEF TypeOK, ChallengeBatch, ledgerVars, S
<1>5. QED
  BY <1>3, <1>4

LEMMA CloseTypeOK ==
  ASSUME TypeOK, NEW id \in DOMAIN proposals, NEW outcome \in BatchState,
         Close(id, outcome)
  PROVE  /\ (DOMAIN proposals') \in SUBSET ProposalId
         /\ proposals' \in [DOMAIN proposals' -> BatchProposal]
         /\ balance' \in [Accounts \cup {Settlement} -> Int]
<1>1. proposals' = Closed(id, outcome)
  BY DEF Close, Closed
<1>2. /\ proposals[id].bond \in Int
      /\ proposals[id].batcher \in Accounts \cup {Settlement}
  BY DEF TypeOK, BatchProposal, Accounts
<1>3. balance' \in [Accounts \cup {Settlement} -> Int]
  BY <1>2, TransferType DEF TypeOK, Close
<1>4. QED
  BY <1>1, <1>3, ClosedProposals DEF TypeOK

LEMMA FinalizeTypeOK ==
  ASSUME TypeOK, NEW id \in DOMAIN proposals, Finalize(id)
  PROVE  TypeOK'
<1>1. proposals[id].batch \in Batches /\ proposals[id].batch \in BatchInput
  BY EnvironmentAssumption DEF TypeOK, BatchProposal
<1>2. /\ (DOMAIN proposals') \in SUBSET ProposalId
      /\ proposals' \in [DOMAIN proposals' -> BatchProposal]
      /\ balance' \in [Accounts \cup {Settlement} -> Int]
  BY CloseTypeOK DEF Finalize, BatchState
<1>3. /\ finalizedNullifierRoot' \in Roots \cup {NoRoot}
      /\ finalizedBatchAccumulator' \in Seq(Batches)
  BY <1>1 DEF TypeOK, Finalize, BatchInput
<1>4. /\ finalizedBatchCount' \in 0..MaxUint64
      /\ acceptedBallotCount' \in 0..MaxUint64
  BY <1>1, EnvironmentAssumption DEF TypeOK, Finalize, Settleable, BatchInput
<1>5. QED
  BY <1>2, <1>3, <1>4 DEF TypeOK, Finalize

LEMMA NextTypeOK == TypeOK /\ [Next]_vars => TypeOK'
<1>1. SUFFICES ASSUME TypeOK, [Next]_vars PROVE TypeOK'
  OBVIOUS
<1>2. ASSUME NEW a \in Batchers, NEW b \in Batches, ProposeBatch(a, b) PROVE TypeOK'
  BY <1>1, <1>2, ProposeTypeOK
<1>3. ASSUME NEW a \in Challengers, NEW id \in DOMAIN proposals, NEW v \in BOOLEAN,
             ChallengeBatch(a, id, v)
      PROVE  TypeOK'
  BY <1>1, <1>3, ChallengeTypeOK
<1>4. ASSUME NEW id \in DOMAIN proposals, FinalizeOptimistic(id) PROVE TypeOK'
  BY <1>1, <1>4, FinalizeTypeOK DEF FinalizeOptimistic
<1>5. ASSUME NEW id \in DOMAIN proposals, FinalizeWithProof(id) PROVE TypeOK'
  BY <1>1, <1>5, FinalizeTypeOK DEF FinalizeWithProof
<1>6. ASSUME NEW id \in DOMAIN proposals, RevertStaleProposal(id) PROVE TypeOK'
  BY <1>1, <1>6, CloseTypeOK
     DEF RevertStaleProposal, BatchState, TypeOK, ledgerVars
<1>7. ASSUME NEW type \in VerifierTypes, RegisterVerifier(type) PROVE TypeOK'
  BY <1>1, <1>7 DEF RegisterVerifier, TypeOK, ledgerVars
<1>8. CASE Tick
  BY <1>1, <1>8 DEF Tick, TypeOK, ledgerVars
<1>9. CASE UNCHANGED vars
  BY <1>1, <1>9 DEF vars, ledgerVars, TypeOK
<1>10. QED
  BY <1>1, <1>2, <1>3, <1>4, <1>5, <1>6, <1>7, <1>8, <1>9 DEF Next, Call

(* Every variable keeps its type: in particular the uint64 counters never  *)
(* leave their range.                                                      *)
THEOREM TypeCorrect == Spec => []TypeOK
<1>1. Init => TypeOK
  BY InitTypeOK
<1>2. TypeOK /\ [Next]_vars => TypeOK'
  BY NextTypeOK
<1>3. QED
  BY <1>1, <1>2, PTL DEF Spec

-----------------------------------------------------------------------------
(* Every bond is backed.  BondsBacked alone is not inductive: a proposal   *)
(* must not overwrite an open one, which is what the nonce in its id is    *)
(* for, and the open proposals must be finitely many to be counted.        *)

IdsBelowNonce ==
  \A id \in DOMAIN proposals : id[2] < batcherNonces[id[1]]

BondInv ==
  /\ TypeOK
  /\ IdsBelowNonce
  /\ IsFiniteSet(OpenProposals)
  /\ BondsBacked

(* A proposal's id is new: its nonce was never used by the same batcher. *)
LEMMA FreshId ==
  ASSUME TypeOK, IdsBelowNonce, NEW a \in Batchers, NEW m
  PROVE  <<a, batcherNonces[a], m>> \notin DOMAIN proposals
<1>1. SUFFICES ASSUME <<a, batcherNonces[a], m>> \in DOMAIN proposals PROVE FALSE
  OBVIOUS
<1>2. batcherNonces[a] < batcherNonces[a]
  BY <1>1 DEF IdsBelowNonce
<1>3. QED
  BY <1>2 DEF TypeOK

(* Bonds of one more or one less open proposal. *)
LEMMA BondArithmetic ==
  ASSUME NEW n \in Nat
  PROVE  /\ BatcherBond * (n + 1) = BatcherBond * n + BatcherBond
         /\ BatcherBond * (n - 1) = BatcherBond * n - BatcherBond
BY ConfigAssumption

(* The money of BondsBacked: what the contract holds. *)
LEMMA BalanceIsInt ==
  ASSUME BondInv
  PROVE  /\ Cardinality(OpenProposals) \in Nat
         /\ balance[Settlement] \in Int
         /\ balance[Settlement] = BatcherBond * Cardinality(OpenProposals)
BY FS_CardinalityType DEF BondInv, BondsBacked, TypeOK

(* What a transfer does to the contract's own balance. *)
LEMMA SettlementTransfer ==
  ASSUME NEW bal \in [Accounts \cup {Settlement} -> Int], NEW x \in Accounts,
         NEW amount \in Int
  PROVE  /\ Transfer(bal, x, Settlement, amount)[Settlement] = bal[Settlement] + amount
         /\ Transfer(bal, Settlement, x, amount)[Settlement] = bal[Settlement] - amount
BY EnvironmentAssumption DEF Transfer

(* Closing an open proposal releases exactly its bond. *)
LEMMA ClosedBonds ==
  ASSUME BondInv, NEW id \in OpenProposals, NEW outcome \in BatchState \ {"Proposed"},
         proposals' = Closed(id, outcome), batcherNonces' = batcherNonces,
         balance'[Settlement] = balance[Settlement] - BatcherBond,
         TypeOK'
  PROVE  BondInv'
<1>1. id \in DOMAIN proposals /\ proposals[id].state = "Proposed"
  BY DEF OpenProposals
<1>2. /\ DOMAIN proposals' = DOMAIN proposals
      /\ proposals'[id] = [proposals[id] EXCEPT !.state = outcome, !.bond = 0]
      /\ \A x \in DOMAIN proposals : x # id => proposals'[x] = proposals[x]
  BY <1>1, ClosedProposals DEF BondInv
<1>3. /\ proposals[id] \in BatchProposal
      /\ proposals'[id].state = outcome
      /\ proposals'[id].bond = 0
  BY <1>1, <1>2 DEF BondInv, TypeOK, BatchProposal
<1>4. OpenProposals' = OpenProposals \ {id}
  BY <1>2, <1>3 DEF OpenProposals
<1>5. /\ IsFiniteSet(OpenProposals')
      /\ Cardinality(OpenProposals') = Cardinality(OpenProposals) - 1
  BY <1>4, FS_RemoveElement DEF BondInv
<1>6. balance'[Settlement] = BatcherBond * Cardinality(OpenProposals')
  BY <1>5, BalanceIsInt, BondArithmetic
<1>7. \A x \in DOMAIN proposals' :
        proposals'[x].bond = IF proposals'[x].state = "Proposed" THEN BatcherBond ELSE 0
  BY <1>2, <1>3 DEF BondInv, BondsBacked
<1>8. IdsBelowNonce'
  BY <1>2 DEF BondInv, IdsBelowNonce
<1>9. QED
  BY <1>5, <1>6, <1>7, <1>8 DEF BondInv, BondsBacked

(* The bond an open proposal holds. *)
LEMMA OpenBond ==
  ASSUME BondInv, NEW id \in OpenProposals
  PROVE  /\ id \in DOMAIN proposals
         /\ proposals[id].bond = BatcherBond
         /\ proposals[id].batcher \in Accounts
BY DEF BondInv, BondsBacked, OpenProposals, TypeOK, BatchProposal, Accounts

(* The refund of _finalize and revertStaleProposal. *)
LEMMA CloseBonds ==
  ASSUME BondInv, NEW id \in OpenProposals, NEW outcome \in BatchState \ {"Proposed"},
         Close(id, outcome), batcherNonces' = batcherNonces, TypeOK'
  PROVE  BondInv'
<1>1. balance' = Transfer(balance, Settlement, proposals[id].batcher, BatcherBond)
  BY OpenBond DEF Close
<1>2. BatcherBond \in Int /\ balance \in [Accounts \cup {Settlement} -> Int]
  BY ConfigAssumption DEF BondInv, TypeOK
<1>3. balance'[Settlement] = balance[Settlement] - BatcherBond
  BY <1>1, <1>2, OpenBond, SettlementTransfer
<1>4. proposals' = Closed(id, outcome)
  BY DEF Close, Closed
<1>5. QED
  BY <1>3, <1>4, ClosedBonds

LEMMA ProposeBonds ==
  ASSUME BondInv, NEW a \in Batchers, NEW b \in Batches, ProposeBatch(a, b)
  PROVE  BondInv'
<1> DEFINE id == <<a, batcherNonces[a], b.manifestDigest>>
<1>1. TypeOK'
  BY ProposeTypeOK DEF BondInv
<1>2. id \notin DOMAIN proposals
  BY FreshId DEF BondInv
<1>3. /\ DOMAIN proposals' = DOMAIN proposals \cup {id}
      /\ proposals'[id].state = "Proposed"
      /\ proposals'[id].bond = BatcherBond
      /\ \A x \in DOMAIN proposals : proposals'[x] = proposals[x]
  BY <1>2 DEF ProposeBatch
<1>4. IdsBelowNonce'
  <2>1. batcherNonces' = [batcherNonces EXCEPT ![a] = @ + 1]
    BY DEF ProposeBatch
  <2>2. \A x \in DOMAIN proposals : x[1] \in Batchers /\ x[2] \in Nat
    BY DEF BondInv, TypeOK, ProposalId
  <2>3. \A x \in DOMAIN proposals : x[2] < batcherNonces'[x[1]]
    BY <2>1, <2>2 DEF BondInv, IdsBelowNonce, TypeOK
  <2>4. id[2] < batcherNonces'[id[1]]
    BY <2>1 DEF BondInv, TypeOK
  <2>5. QED
    BY <1>3, <2>3, <2>4 DEF IdsBelowNonce
<1> HIDE DEF id
<1>5. OpenProposals' = OpenProposals \cup {id} /\ id \notin OpenProposals
  BY <1>2, <1>3 DEF OpenProposals
<1>6. /\ IsFiniteSet(OpenProposals')
      /\ Cardinality(OpenProposals') = Cardinality(OpenProposals) + 1
  BY <1>5, FS_AddElement DEF BondInv
<1>7. balance'[Settlement] = balance[Settlement] + BatcherBond
  <2>1. balance' = Transfer(balance, a, Settlement, BatcherBond)
    BY DEF ProposeBatch
  <2>2. /\ a \in Accounts /\ BatcherBond \in Int
        /\ balance \in [Accounts \cup {Settlement} -> Int]
    BY ConfigAssumption DEF Accounts, BondInv, TypeOK
  <2>3. QED
    BY <2>1, <2>2, SettlementTransfer
<1>8. balance'[Settlement] = BatcherBond * Cardinality(OpenProposals')
  BY <1>6, <1>7, BalanceIsInt, BondArithmetic
<1>9. \A x \in DOMAIN proposals' :
        proposals'[x].bond = IF proposals'[x].state = "Proposed" THEN BatcherBond ELSE 0
  BY <1>3 DEF BondInv, BondsBacked
<1>10. QED
  BY <1>1, <1>4, <1>6, <1>8, <1>9 DEF BondInv, BondsBacked

LEMMA ChallengeBonds ==
  ASSUME BondInv, NEW a \in Challengers, NEW id \in DOMAIN proposals,
         NEW v \in BOOLEAN, ChallengeBatch(a, id, v)
  PROVE  BondInv'
<1> DEFINE staked == Transfer(balance, a, Settlement, ChallengerBond)
<1>1. TypeOK'
  BY ChallengeTypeOK DEF BondInv
<1>2. id \in OpenProposals
  BY DEF ChallengeBatch, IsProposed, OpenProposals
<1>3. /\ a \in Accounts
      /\ a \in Accounts \cup {Settlement} /\ Settlement \in Accounts \cup {Settlement}
      /\ BatcherBond \in Int /\ ChallengerBond \in Int
      /\ balance \in [Accounts \cup {Settlement} -> Int]
  BY ConfigAssumption DEF Accounts, BondInv, TypeOK
<1>4. /\ staked \in [Accounts \cup {Settlement} -> Int]
      /\ staked[Settlement] = balance[Settlement] + ChallengerBond
  BY <1>3, TransferType, SettlementTransfer
<1>5. batcherNonces' = batcherNonces
  BY DEF ChallengeBatch
<1>6. CASE v
  <2>1. balance' = Transfer(staked, Settlement, a, BatcherBond + ChallengerBond)
    BY <1>2, <1>6, OpenBond DEF ChallengeBatch
  <2> HIDE DEF staked
  <2>2. balance'[Settlement] = balance[Settlement] - BatcherBond
    <3>1. BatcherBond + ChallengerBond \in Int
      BY <1>3
    <3>2. balance'[Settlement] = staked[Settlement] - (BatcherBond + ChallengerBond)
      BY <1>3, <1>4, <2>1, <3>1, SettlementTransfer
    <3>3. balance[Settlement] \in Int
      BY <1>3
    <3>4. QED
      BY <1>3, <1>4, <3>2, <3>3
  <2>3. proposals' = Closed(id, "Reverted")
    BY <1>6 DEF ChallengeBatch, Closed
  <2>4. QED
    BY <1>1, <1>2, <1>5, <2>2, <2>3, ClosedBonds DEF BatchState
<1>7. CASE ~v
  <2>1. balance' = Transfer(staked, Settlement, proposals[id].batcher, ChallengerBond)
    BY <1>7 DEF ChallengeBatch
  <2> HIDE DEF staked
  <2>2. balance'[Settlement] = balance[Settlement]
    <3>1. balance'[Settlement] = staked[Settlement] - ChallengerBond
      BY <1>2, <1>3, <1>4, <2>1, OpenBond, SettlementTransfer
    <3>2. balance[Settlement] \in Int
      BY <1>3
    <3>3. QED
      BY <1>3, <1>4, <3>1, <3>2
  <2>3. proposals' = proposals
    BY <1>7 DEF ChallengeBatch
  <2>4. QED
    BY <1>1, <1>5, <2>2, <2>3 DEF BondInv, BondsBacked, OpenProposals, IdsBelowNonce
<1>8. QED
  BY <1>6, <1>7

LEMMA InitBonds == Init => BondInv
<1>1. SUFFICES ASSUME Init PROVE BondInv
  OBVIOUS
<1>2. DOMAIN proposals = {} /\ OpenProposals = {}
  BY <1>1 DEF Init, OpenProposals
<1>3. IsFiniteSet(OpenProposals) /\ Cardinality(OpenProposals) = 0
  BY <1>2, FS_EmptySet
<1>4. balance[Settlement] = BatcherBond * Cardinality(OpenProposals)
  BY <1>1, <1>3, ConfigAssumption DEF Init
<1>5. QED
  BY <1>1, <1>2, <1>3, <1>4, InitTypeOK DEF BondInv, BondsBacked, IdsBelowNonce

LEMMA NextBonds == BondInv /\ [Next]_vars => BondInv'
<1>1. SUFFICES ASSUME BondInv, [Next]_vars PROVE BondInv'
  OBVIOUS
<1>2. TypeOK'
  BY <1>1, NextTypeOK DEF BondInv
<1>3. ASSUME NEW a \in Batchers, NEW b \in Batches, ProposeBatch(a, b) PROVE BondInv'
  BY <1>1, <1>3, ProposeBonds
<1>4. ASSUME NEW a \in Challengers, NEW id \in DOMAIN proposals, NEW v \in BOOLEAN,
             ChallengeBatch(a, id, v)
      PROVE  BondInv'
  BY <1>1, <1>4, ChallengeBonds
<1>5. ASSUME NEW id \in DOMAIN proposals, IsProposed(id), Finalize(id) PROVE BondInv'
  BY <1>1, <1>2, <1>5, CloseBonds DEF Finalize, IsProposed, OpenProposals, BatchState
<1>6. ASSUME NEW id \in DOMAIN proposals, RevertStaleProposal(id) PROVE BondInv'
  BY <1>1, <1>2, <1>6, CloseBonds
     DEF RevertStaleProposal, IsProposed, OpenProposals, BatchState
<1>7. CASE UNCHANGED <<proposals, batcherNonces, balance>>
  BY <1>1, <1>2, <1>7 DEF BondInv, BondsBacked, OpenProposals, IdsBelowNonce
<1>8. ASSUME NEW type \in VerifierTypes, RegisterVerifier(type) PROVE BondInv'
  BY <1>7, <1>8 DEF RegisterVerifier
<1>9. CASE Tick
  BY <1>7, <1>9 DEF Tick
<1>10. CASE UNCHANGED vars
  BY <1>7, <1>10 DEF vars
<1>11. QED
  BY <1>1, <1>3, <1>4, <1>5, <1>6, <1>8, <1>9, <1>10
     DEF Next, Call, FinalizeOptimistic, FinalizeWithProof

(* The contract always holds exactly the bonds of its open proposals, for  *)
(* any number of batchers, challengers, manifests and any configuration    *)
(* the constructors accept.                                                *)
THEOREM BondsAlwaysBacked == Spec => []BondsBacked
<1>1. Init => BondInv
  BY InitBonds
<1>2. BondInv /\ [Next]_vars => BondInv'
  BY NextBonds
<1>3. BondInv => BondsBacked
  BY DEF BondInv
<1>4. QED
  BY <1>1, <1>2, <1>3, PTL DEF Spec

-----------------------------------------------------------------------------
(* What honest parties are promised. *)

(* The deadline of a proposal is one challenge period after its proposal. *)
DeadlinesSet ==
  \A id \in DOMAIN proposals :
    proposals[id].challengeDeadline = proposals[id].proposedAt + ChallengePeriod

WindowInv == BondInv /\ DeadlinesSet

FraudStep ==
  \A id \in OpenProposals :
     (/\ proposals'[id].state = "Finalized"
      /\ proposals[id].batch \notin ValidBatches)
     => now > proposals[id].proposedAt + ChallengePeriod

(* A new proposal leaves the others alone. *)
LEMMA Proposed ==
  ASSUME BondInv, NEW a \in Batchers, NEW b \in Batches, ProposeBatch(a, b)
  PROVE  \E id : /\ id \notin DOMAIN proposals
                 /\ DOMAIN proposals' = DOMAIN proposals \cup {id}
                 /\ \A x \in DOMAIN proposals : proposals'[x] = proposals[x]
                 /\ proposals'[id].state = "Proposed"
                 /\ proposals'[id].batcher = a
                 /\ proposals'[id].challengeDeadline =
                      proposals'[id].proposedAt + ChallengePeriod
<1> DEFINE id == <<a, batcherNonces[a], b.manifestDigest>>
<1>1. id \notin DOMAIN proposals
  BY FreshId DEF BondInv
<1>2. /\ DOMAIN proposals' = DOMAIN proposals \cup {id}
      /\ \A x \in DOMAIN proposals : proposals'[x] = proposals[x]
      /\ proposals'[id].state = "Proposed"
      /\ proposals'[id].batcher = a
      /\ proposals'[id].challengeDeadline = proposals'[id].proposedAt + ChallengePeriod
  BY <1>1 DEF ProposeBatch
<1>3. QED
  BY <1>1, <1>2

(* Every step either adds a proposal, closes one, or leaves them alone. *)
LEMMA StepShapes ==
  ASSUME BondInv, [Next]_vars
  PROVE  \/ \E a \in Batchers, b \in Batches : ProposeBatch(a, b)
         \/ \E id \in OpenProposals, outcome \in BatchState \ {"Proposed"} :
              proposals' = Closed(id, outcome)
         \/ UNCHANGED proposals
<1>1. ASSUME NEW c \in Challengers, NEW id \in DOMAIN proposals, NEW v \in BOOLEAN,
             ChallengeBatch(c, id, v), ~UNCHANGED proposals
      PROVE  id \in OpenProposals /\ proposals' = Closed(id, "Reverted")
  BY <1>1 DEF ChallengeBatch, Closed, IsProposed, OpenProposals
<1>2. ASSUME NEW id \in DOMAIN proposals, IsProposed(id), Finalize(id)
      PROVE  id \in OpenProposals /\ proposals' = Closed(id, "Finalized")
  BY <1>2 DEF Finalize, Close, Closed, IsProposed, OpenProposals
<1>3. ASSUME NEW id \in DOMAIN proposals, RevertStaleProposal(id)
      PROVE  id \in OpenProposals /\ proposals' = Closed(id, "Reverted")
  BY <1>3 DEF RevertStaleProposal, Close, Closed, IsProposed, OpenProposals
<1>4. ASSUME NEW type \in VerifierTypes, RegisterVerifier(type)
      PROVE  UNCHANGED proposals
  BY <1>4 DEF RegisterVerifier
<1>5. Tick \/ UNCHANGED vars => UNCHANGED proposals
  BY DEF Tick, vars
<1>6. QED
  BY <1>1, <1>2, <1>3, <1>4, <1>5
     DEF Next, Call, FinalizeOptimistic, FinalizeWithProof, BatchState

LEMMA NextWindow == WindowInv /\ [Next]_vars => WindowInv'
<1>1. SUFFICES ASSUME WindowInv, [Next]_vars PROVE DeadlinesSet'
  BY NextBonds DEF WindowInv
<1>2. ASSUME NEW a \in Batchers, NEW b \in Batches, ProposeBatch(a, b)
      PROVE  DeadlinesSet'
  <2>1. BondInv /\ DeadlinesSet
    BY <1>1 DEF WindowInv
  <2>2. PICK id : /\ DOMAIN proposals' = DOMAIN proposals \cup {id}
                  /\ \A x \in DOMAIN proposals : proposals'[x] = proposals[x]
                  /\ proposals'[id].challengeDeadline =
                       proposals'[id].proposedAt + ChallengePeriod
    <3>1. BondInv /\ ProposeBatch(a, b)
      BY <1>2, <2>1
    <3>2. QED
      BY <3>1, Proposed
  <2>3. ASSUME NEW x \in DOMAIN proposals'
        PROVE  proposals'[x].challengeDeadline = proposals'[x].proposedAt + ChallengePeriod
    BY <2>1, <2>2, <2>3 DEF DeadlinesSet
  <2>4. QED
    BY <2>3 DEF DeadlinesSet
<1>3. ASSUME NEW id \in OpenProposals, NEW outcome \in BatchState \ {"Proposed"},
             proposals' = Closed(id, outcome)
      PROVE  DeadlinesSet'
  BY <1>1, <1>3, ClosedKeeps DEF WindowInv, DeadlinesSet, BondInv, OpenProposals
<1>4. CASE UNCHANGED proposals
  BY <1>1, <1>4 DEF WindowInv, DeadlinesSet
<1>5. QED
  BY <1>1, <1>2, <1>3, <1>4, StepShapes DEF WindowInv

(* A proposal that a step finalizes was finalized by one of two calls. *)
LEMMA FinalizingStep ==
  ASSUME WindowInv, [Next]_vars, NEW id \in OpenProposals,
         proposals'[id].state = "Finalized"
  PROVE  FinalizeOptimistic(id) \/ FinalizeWithProof(id)
<1>1. /\ id \in DOMAIN proposals /\ proposals[id].state = "Proposed"
      /\ TypeOK /\ BondInv
  BY DEF OpenProposals, WindowInv, BondInv
<1>2. ASSUME NEW a \in Batchers, NEW b \in Batches, ProposeBatch(a, b) PROVE FALSE
  BY <1>1, <1>2, Proposed
<1>3. ASSUME NEW x \in DOMAIN proposals, NEW outcome \in BatchState,
             proposals' = Closed(x, outcome)
      PROVE  x = id /\ outcome = "Finalized"
  BY <1>1, <1>3, ClosedKeeps
<1>4. ASSUME NEW c \in Challengers, NEW x \in DOMAIN proposals, NEW v \in BOOLEAN,
             ChallengeBatch(c, x, v)
      PROVE  FALSE
  <2>1. UNCHANGED proposals \/ proposals' = Closed(x, "Reverted")
    BY <1>4 DEF ChallengeBatch, Closed
  <2>2. QED
    BY <1>1, <1>3, <2>1 DEF BatchState
<1>5. ASSUME NEW x \in DOMAIN proposals, Finalize(x) PROVE x = id
  <2>1. proposals' = Closed(x, "Finalized")
    BY <1>5 DEF Finalize, Close, Closed
  <2>2. QED
    BY <1>3, <2>1 DEF BatchState
<1>6. ASSUME NEW x \in DOMAIN proposals, RevertStaleProposal(x) PROVE FALSE
  <2>1. proposals' = Closed(x, "Reverted")
    BY <1>6 DEF RevertStaleProposal, Close, Closed
  <2>2. QED
    BY <1>3, <2>1 DEF BatchState
<1>7. ASSUME NEW type \in VerifierTypes, RegisterVerifier(type) PROVE FALSE
  BY <1>1, <1>7 DEF RegisterVerifier
<1>8. ~Tick /\ ~UNCHANGED vars
  BY <1>1 DEF Tick, vars
<1>9. QED
  BY <1>2, <1>4, <1>5, <1>6, <1>7, <1>8
     DEF Next, Call, FinalizeOptimistic, FinalizeWithProof

(* An invalid batch is finalized only after the whole challenge period has *)
(* passed since it was proposed.                                           *)
THEOREM FraudWindowKept == Spec => FraudHasFullWindow
<1>1. Init => WindowInv
  BY InitBonds DEF WindowInv, DeadlinesSet, Init
<1>2. WindowInv /\ [Next]_vars => WindowInv'
  BY NextWindow
<1>3. WindowInv /\ [Next]_vars => FraudStep
  <2>1. SUFFICES ASSUME WindowInv, [Next]_vars, NEW id \in OpenProposals,
                        proposals'[id].state = "Finalized",
                        proposals[id].batch \notin ValidBatches
                 PROVE  now > proposals[id].proposedAt + ChallengePeriod
    BY DEF FraudStep
  <2>2. FinalizeOptimistic(id)
    BY <2>1, FinalizingStep DEF FinalizeWithProof
  <2>3. now > proposals[id].challengeDeadline
    BY <2>2 DEF FinalizeOptimistic, WindowOver
  <2>4. QED
    BY <2>1, <2>3 DEF WindowInv, DeadlinesSet, OpenProposals
<1>4. QED
  BY <1>1, <1>2, <1>3, PTL DEF Spec, FraudHasFullWindow, FraudStep

-----------------------------------------------------------------------------
(* The honest batcher.  What it owns is its balance and the bonds of its   *)
(* open proposals; every call keeps that sum at least as large.            *)

Open(a) == {id \in OpenProposals : proposals[id].batcher = a}

Honest(a) ==
  \A id \in DOMAIN proposals :
    proposals[id].batcher = a => proposals[id].batch \in ValidBatches

Wealth(a) == balance[a] + BatcherBond * Cardinality(Open(a))

Whole(a) == Honest(a) => Wealth(a) >= InitialBalance

WholeInv == BondInv /\ \A a \in Batchers \ Challengers : Whole(a)

(* The property speaks of the same set of proposals and the same sum. *)
LEMMA WholeIsProperty == (\A a \in Batchers \ Challengers : Whole(a)) => HonestBatcherWhole
<1>1. \A a : Open(a) = {id \in DOMAIN proposals : proposals[id].batcher = a} \cap OpenProposals
  BY DEF Open, OpenProposals
<1>2. QED
  BY <1>1 DEF HonestBatcherWhole, Whole, Honest, Wealth

(* What the contract's two kinds of transfer do to the balances of accounts: *)
(* it receives amount from x, or it pays amount to x.                        *)
Takes(old, new, x, amount) ==
  \A a \in Accounts : new[a] = IF a = x THEN old[a] - amount ELSE old[a]

Pays(old, new, x, amount) ==
  \A a \in Accounts : new[a] = IF a = x THEN old[a] + amount ELSE old[a]

LEMMA TransferTakes ==
  ASSUME NEW bal, DOMAIN bal = Accounts \cup {Settlement},
         NEW x \in Accounts, NEW amount
  PROVE  Takes(bal, Transfer(bal, x, Settlement, amount), x, amount)
<1>1. x # Settlement /\ x \in DOMAIN bal
  BY EnvironmentAssumption
<1>2. \A a \in Accounts : a # Settlement /\ a \in DOMAIN bal
  BY EnvironmentAssumption
<1>3. QED
  BY <1>1, <1>2 DEF Transfer, Takes

LEMMA TransferPays ==
  ASSUME NEW bal, DOMAIN bal = Accounts \cup {Settlement},
         NEW x \in Accounts, NEW amount
  PROVE  Pays(bal, Transfer(bal, Settlement, x, amount), x, amount)
<1>1. x # Settlement /\ x \in DOMAIN bal
  BY EnvironmentAssumption
<1>2. \A a \in Accounts : a # Settlement /\ a \in DOMAIN bal
  BY EnvironmentAssumption
<1>3. QED
  BY <1>1, <1>2 DEF Transfer, Pays

(* The sets and numbers the sum is made of. *)
LEMMA WealthTypes ==
  ASSUME BondInv, NEW a \in Batchers
  PROVE  /\ IsFiniteSet(Open(a)) /\ Cardinality(Open(a)) \in Nat
         /\ a \in Accounts
         /\ balance \in [Accounts \cup {Settlement} -> Int] /\ balance[a] \in Int
         /\ BatcherBond \in Nat /\ ChallengerBond \in Nat /\ InitialBalance \in Nat
<1>1. Open(a) \in SUBSET OpenProposals
  BY DEF Open
<1>2. IsFiniteSet(Open(a)) /\ Cardinality(Open(a)) \in Nat
  BY <1>1, FS_Subset, FS_CardinalityType DEF BondInv
<1>3. QED
  BY <1>2, ConfigAssumption, EnvironmentAssumption DEF BondInv, TypeOK, Accounts

(* Closing a proposal takes it out of its batcher's open ones. *)
LEMMA ClosedOpen ==
  ASSUME BondInv, NEW id \in OpenProposals, NEW a \in Batchers,
         NEW outcome \in BatchState \ {"Proposed"}, proposals' = Closed(id, outcome)
  PROVE  /\ Honest(a)' => Honest(a)
         /\ proposals[id].batcher = a =>
              Cardinality(Open(a)') = Cardinality(Open(a)) - 1
         /\ proposals[id].batcher # a => Open(a)' = Open(a)
<1>1. id \in DOMAIN proposals /\ proposals[id].state = "Proposed" /\ TypeOK
  BY DEF OpenProposals, BondInv
<1>2. /\ DOMAIN proposals' = DOMAIN proposals
      /\ \A x \in DOMAIN proposals :
           /\ proposals'[x].batcher = proposals[x].batcher
           /\ proposals'[x].batch = proposals[x].batch
      /\ proposals'[id].state # "Proposed"
      /\ \A x \in DOMAIN proposals : x # id => proposals'[x] = proposals[x]
  BY <1>1, ClosedKeeps
<1>3. Open(a)' = Open(a) \ {id}
  BY <1>1, <1>2 DEF Open, OpenProposals
<1>4. id \in Open(a) => Cardinality(Open(a) \ {id}) = Cardinality(Open(a)) - 1
  BY WealthTypes, FS_RemoveElement
<1>5. id \in Open(a) <=> proposals[id].batcher = a
  BY DEF Open
<1>6. Honest(a)' => Honest(a)
  BY <1>2 DEF Honest
<1>7. QED
  BY <1>3, <1>4, <1>5, <1>6

(* Proposing locks a bond and counts it as the sender's. *)
LEMMA ProposeWhole ==
  ASSUME WholeInv, NEW s \in Batchers, NEW b \in Batches, ProposeBatch(s, b),
         NEW a \in Batchers \ Challengers
  PROVE  Whole(a)'
<1>1. PICK id : /\ id \notin DOMAIN proposals
                /\ DOMAIN proposals' = DOMAIN proposals \cup {id}
                /\ \A x \in DOMAIN proposals : proposals'[x] = proposals[x]
                /\ proposals'[id].state = "Proposed"
                /\ proposals'[id].batcher = s
  BY Proposed DEF WholeInv
<1>2. Honest(a)' => Honest(a)
  BY <1>1 DEF Honest
<1>3. /\ balance' = Transfer(balance, s, Settlement, BatcherBond)
      /\ s \in Accounts /\ a \in Accounts /\ BatcherBond \in Int
      /\ DOMAIN balance = Accounts \cup {Settlement}
  BY ConfigAssumption DEF ProposeBatch, WholeInv, BondInv, TypeOK, Accounts
<1> DEFINE after == Transfer(balance, s, Settlement, BatcherBond)
<1>4. Takes(balance, after, s, BatcherBond)
  BY <1>3, TransferTakes
<1>5. balance'[a] = IF a = s THEN balance[a] - BatcherBond ELSE balance[a]
  BY <1>3, <1>4 DEF Takes
<1>6. CASE a = s
  <2>1. Open(a)' = Open(a) \cup {id} /\ id \notin Open(a)
    BY <1>1, <1>6 DEF Open, OpenProposals
  <2>2. Cardinality(Open(a)') = Cardinality(Open(a)) + 1
    BY <2>1, WealthTypes, FS_AddElement DEF WholeInv
  <2>3. balance'[a] = balance[a] - BatcherBond
    BY <1>6, <1>5
  <2>4. Wealth(a)' = Wealth(a)
    BY <2>2, <2>3, WealthTypes, BondArithmetic DEF WholeInv, Wealth
  <2>5. QED
    BY <1>2, <2>4 DEF WholeInv, Whole
<1>7. CASE a # s
  <2>1. Open(a)' = Open(a)
    BY <1>1, <1>7 DEF Open, OpenProposals
  <2>2. balance'[a] = balance[a]
    BY <1>7, <1>5
  <2>3. Wealth(a)' = Wealth(a)
    BY <2>1, <2>2 DEF Wealth
  <2>4. QED
    BY <1>2, <2>3 DEF WholeInv, Whole
<1>8. QED
  BY <1>6, <1>7

(* Finalizing or reverting a proposal turns its bond into balance. *)
LEMMA CloseWhole ==
  ASSUME WholeInv, NEW id \in OpenProposals, NEW outcome \in BatchState \ {"Proposed"},
         Close(id, outcome), NEW a \in Batchers \ Challengers
  PROVE  Whole(a)'
<1>1. proposals' = Closed(id, outcome)
  BY DEF Close, Closed
<1>2. /\ balance' = Transfer(balance, Settlement, proposals[id].batcher, BatcherBond)
      /\ proposals[id].batcher \in Accounts /\ a \in Accounts /\ BatcherBond \in Int
      /\ DOMAIN balance = Accounts \cup {Settlement}
  BY OpenBond, ConfigAssumption DEF Close, WholeInv, BondInv, TypeOK, Accounts
<1>3. Honest(a)' => Honest(a)
  BY <1>1, ClosedOpen DEF WholeInv
<1> DEFINE owner == proposals[id].batcher
           after == Transfer(balance, Settlement, owner, BatcherBond)
<1>4. Pays(balance, after, owner, BatcherBond)
  BY <1>2, TransferPays
<1>5. balance'[a] = IF a = owner THEN balance[a] + BatcherBond ELSE balance[a]
  BY <1>2, <1>4 DEF Pays
<1>6. CASE proposals[id].batcher = a
  <2>1. Cardinality(Open(a)') = Cardinality(Open(a)) - 1
    BY <1>1, <1>6, ClosedOpen DEF WholeInv
  <2>2. balance'[a] = balance[a] + BatcherBond
    BY <1>6, <1>5
  <2>3. Wealth(a)' = Wealth(a)
    BY <2>1, <2>2, WealthTypes, BondArithmetic DEF WholeInv, Wealth
  <2>4. QED
    BY <1>3, <2>3 DEF WholeInv, Whole
<1>7. CASE proposals[id].batcher # a
  <2>1. Open(a)' = Open(a)
    BY <1>1, <1>7, ClosedOpen DEF WholeInv
  <2>2. balance'[a] = balance[a]
    BY <1>7, <1>5
  <2>3. Wealth(a)' = Wealth(a)
    BY <2>1, <2>2 DEF Wealth
  <2>4. QED
    BY <1>3, <2>3 DEF WholeInv, Whole
<1>8. QED
  BY <1>6, <1>7

(* A challenge costs an account that makes none nothing: a proof of fraud  *)
(* exists only against an invalid batch, and a failed challenge pays.      *)
LEMMA ChallengeWhole ==
  ASSUME WholeInv, NEW c \in Challengers, NEW id \in DOMAIN proposals,
         NEW v \in BOOLEAN, ChallengeBatch(c, id, v),
         NEW a \in Batchers \ Challengers
  PROVE  Whole(a)'
<1> DEFINE staked == Transfer(balance, c, Settlement, ChallengerBond)
<1>1. id \in OpenProposals
  BY DEF ChallengeBatch, IsProposed, OpenProposals
<1>2. /\ c \in Accounts /\ a \in Accounts /\ a # c
      /\ c \in Accounts \cup {Settlement} /\ Settlement \in Accounts \cup {Settlement}
      /\ balance \in [Accounts \cup {Settlement} -> Int]
      /\ DOMAIN balance = Accounts \cup {Settlement}
      /\ BatcherBond \in Int /\ ChallengerBond \in Nat /\ ChallengerBond \in Int
  BY WealthTypes DEF WholeInv, Accounts
<1>3. /\ staked \in [Accounts \cup {Settlement} -> Int]
      /\ DOMAIN staked = Accounts \cup {Settlement}
      /\ staked[a] = balance[a]
  <2>1. staked \in [Accounts \cup {Settlement} -> Int]
    BY <1>2, TransferType
  <2>2. Takes(balance, staked, c, ChallengerBond)
    BY <1>2, TransferTakes
  <2> HIDE DEF staked
  <2>3. staked[a] = balance[a]
    BY <1>2, <2>2 DEF Takes
  <2>4. DOMAIN staked = Accounts \cup {Settlement}
    BY <2>1
  <2>5. QED
    BY <2>1, <2>3, <2>4
<1>4. CASE v
  <2>1. proposals' = Closed(id, "Reverted")
    BY <1>4 DEF ChallengeBatch, Closed
  <2>2. proposals[id].batch \notin ValidBatches
    BY <1>4 DEF ChallengeBatch, FraudVerdicts
  <2>3. CASE proposals[id].batcher = a
    BY <1>1, <2>1, <2>2, <2>3, ClosedOpen
       DEF WholeInv, Whole, Honest, OpenProposals, BatchState
  <2>4. CASE proposals[id].batcher # a
    <3>1. Open(a)' = Open(a) /\ (Honest(a)' => Honest(a))
      BY <1>1, <2>1, <2>4, ClosedOpen DEF WholeInv, BatchState
    <3>2. balance' = Transfer(staked, Settlement, c, BatcherBond + ChallengerBond)
      BY <1>1, <1>4, OpenBond DEF ChallengeBatch, WholeInv
    <3> HIDE DEF staked
    <3>4. balance'[a] = balance[a]
      <4> DEFINE paid == BatcherBond + ChallengerBond
                 after == Transfer(staked, Settlement, c, paid)
      <4>1. Pays(staked, after, c, paid)
        BY <1>2, <1>3, TransferPays
      <4>2. balance' = after
        BY <3>2
      <4> HIDE DEF after
      <4>3. balance'[a] = staked[a]
        BY <1>2, <4>1, <4>2 DEF Pays
      <4>4. QED
        BY <1>3, <4>3
    <3>5. Wealth(a)' = Wealth(a)
      BY <3>1, <3>4 DEF Wealth
    <3>6. QED
      BY <3>1, <3>5 DEF WholeInv, Whole
  <2>5. QED
    BY <2>3, <2>4
<1>5. CASE ~v
  <2>1. proposals' = proposals
    BY <1>5 DEF ChallengeBatch
  <2>2. Open(a)' = Open(a) /\ (Honest(a)' => Honest(a))
    BY <2>1 DEF Open, OpenProposals, Honest
  <2> DEFINE owner == proposals[id].batcher
  <2>3. balance' = Transfer(staked, Settlement, owner, ChallengerBond)
    BY <1>5 DEF ChallengeBatch
  <2>4. owner \in Accounts
    BY <1>1, OpenBond DEF WholeInv
  <2> HIDE DEF staked, owner
  <2>5. balance'[a] = balance[a] \/ balance'[a] = balance[a] + ChallengerBond
    <3> DEFINE after == Transfer(staked, Settlement, owner, ChallengerBond)
    <3>1. Pays(staked, after, owner, ChallengerBond)
      BY <1>3, <2>4, TransferPays
    <3>2. balance' = after
      BY <2>3
    <3> HIDE DEF after
    <3>3. balance'[a] = IF a = owner THEN staked[a] + ChallengerBond ELSE staked[a]
      BY <1>2, <3>1, <3>2 DEF Pays
    <3>4. QED
      BY <1>3, <3>3
  <2>6. Wealth(a)' >= Wealth(a) /\ Wealth(a)' \in Int /\ Wealth(a) \in Int
    BY <2>2, <2>5, WealthTypes DEF WholeInv, Wealth
  <2>7. QED
    BY <2>2, <2>6, WealthTypes DEF WholeInv, Whole
<1>6. QED
  BY <1>4, <1>5

LEMMA NextWhole == WholeInv /\ [Next]_vars => WholeInv'
<1>1. SUFFICES ASSUME WholeInv, [Next]_vars, NEW a \in Batchers \ Challengers
               PROVE  Whole(a)'
  BY NextBonds DEF WholeInv
<1>2. ASSUME NEW s \in Batchers, NEW b \in Batches, ProposeBatch(s, b)
      PROVE  Whole(a)'
  BY <1>1, <1>2, ProposeWhole
<1>3. ASSUME NEW c \in Challengers, NEW id \in DOMAIN proposals, NEW v \in BOOLEAN,
             ChallengeBatch(c, id, v)
      PROVE  Whole(a)'
  BY <1>1, <1>3, ChallengeWhole
<1>4. ASSUME NEW id \in DOMAIN proposals, IsProposed(id), Finalize(id)
      PROVE  Whole(a)'
  BY <1>1, <1>4, CloseWhole DEF Finalize, IsProposed, OpenProposals, BatchState
<1>5. ASSUME NEW id \in DOMAIN proposals, RevertStaleProposal(id)
      PROVE  Whole(a)'
  BY <1>1, <1>5, CloseWhole DEF RevertStaleProposal, IsProposed, OpenProposals, BatchState
<1>6. CASE UNCHANGED <<proposals, balance>>
  BY <1>1, <1>6 DEF WholeInv, Whole, Honest, Wealth, Open, OpenProposals
<1>7. ASSUME NEW type \in VerifierTypes, RegisterVerifier(type)
      PROVE  Whole(a)'
  BY <1>6, <1>7 DEF RegisterVerifier
<1>8. Tick \/ UNCHANGED vars => Whole(a)'
  BY <1>6 DEF Tick, vars
<1>9. QED
  BY <1>1, <1>2, <1>3, <1>4, <1>5, <1>7, <1>8
     DEF Next, Call, FinalizeOptimistic, FinalizeWithProof

LEMMA InitWhole == Init => WholeInv
<1>1. SUFFICES ASSUME Init, NEW a \in Batchers \ Challengers PROVE Whole(a)
  BY InitBonds DEF WholeInv
<1>2. Open(a) = {}
  BY <1>1 DEF Init, Open, OpenProposals
<1>3. Cardinality(Open(a)) = 0
  BY <1>2, FS_EmptySet
<1>4. balance[a] = InitialBalance
  BY <1>1, EnvironmentAssumption DEF Init, Accounts
<1>5. QED
  BY <1>3, <1>4, ConfigAssumption, EnvironmentAssumption DEF Whole, Wealth

(* A batcher that proposes valid batches only and challenges nobody has    *)
(* its initial balance, in hand or as the bonds of its open proposals,     *)
(* after any calls of any others.                                          *)
THEOREM HonestBatchersKeepAll == Spec => []HonestBatcherWhole
<1>1. Init => WholeInv
  BY InitWhole
<1>2. WholeInv /\ [Next]_vars => WholeInv'
  BY NextWhole
<1>3. WholeInv => HonestBatcherWhole
  BY WholeIsProperty DEF WholeInv
<1>4. QED
  BY <1>1, <1>2, <1>3, PTL DEF Spec

-----------------------------------------------------------------------------
(* The ledger. *)

(* Nullifier continuity. *)
LEMMA FinalizeChain ==
  ASSUME TypeOK, FinalizedChain, NEW id \in DOMAIN proposals, Finalize(id)
  PROVE  FinalizedChain'
<1> DEFINE acc == finalizedBatchAccumulator
           b == proposals[id].batch
<1>1. /\ acc \in Seq(Batches) /\ b \in Batches /\ Len(acc) \in Nat
  BY DEF TypeOK, BatchProposal
<1>2. /\ acc' = Append(acc, b)
      /\ finalizedNullifierRoot' = b.nullifierRoot
      /\ b.previousNullifierRoot = finalizedNullifierRoot
  BY DEF Finalize, Settleable
<1> HIDE DEF acc, b
<1>3. /\ Len(acc') = Len(acc) + 1
      /\ acc'[Len(acc) + 1] = b
      /\ \A i \in 1..Len(acc) : acc'[i] = acc[i]
  BY <1>1, <1>2
<1>4. acc' # << >> /\ finalizedNullifierRoot' = acc'[Len(acc')].nullifierRoot
  BY <1>1, <1>2, <1>3
<1>5. ASSUME NEW i \in 1..Len(acc')
      PROVE  acc'[i].previousNullifierRoot =
               IF i = 1 THEN NoRoot ELSE acc'[i - 1].nullifierRoot
  <2>1. CASE i \in 1..Len(acc)
    <3>1. i # 1 => i - 1 \in 1..Len(acc)
      BY <1>1, <2>1
    <3>2. acc[i].previousNullifierRoot =
            IF i = 1 THEN NoRoot ELSE acc[i - 1].nullifierRoot
      BY <2>1 DEF FinalizedChain, acc
    <3>3. QED
      BY <1>3, <2>1, <3>1, <3>2
  <2>2. CASE i = Len(acc) + 1
    <3>1. b.previousNullifierRoot = IF acc = << >> THEN NoRoot ELSE acc[Len(acc)].nullifierRoot
      BY <1>2 DEF FinalizedChain, LastRoot, acc
    <3>2. acc = << >> <=> i = 1
      BY <1>1, <2>2
    <3>3. i # 1 => i - 1 = Len(acc) /\ i - 1 \in 1..Len(acc)
      BY <1>1, <2>2
    <3>4. QED
      BY <1>3, <2>2, <3>1, <3>2, <3>3
  <2>3. QED
    BY <1>1, <1>3, <1>5, <2>1, <2>2
<1>6. QED
  BY <1>4, <1>5 DEF FinalizedChain, LastRoot, acc

(* A step either finalizes one proposal or leaves the ledger alone. *)
LEMMA LedgerSteps ==
  ASSUME [Next]_vars
  PROVE  \/ \E id \in DOMAIN proposals : IsProposed(id) /\ Finalize(id)
         \/ UNCHANGED ledgerVars
BY DEF Next, Call, vars, ProposeBatch, ChallengeBatch, FinalizeOptimistic,
       FinalizeWithProof, RevertStaleProposal, RegisterVerifier, Tick

LEMMA NextChain == TypeOK /\ FinalizedChain /\ [Next]_vars => FinalizedChain'
<1>1. SUFFICES ASSUME TypeOK, FinalizedChain, [Next]_vars PROVE FinalizedChain'
  OBVIOUS
<1>2. CASE UNCHANGED ledgerVars
  BY <1>1, <1>2 DEF ledgerVars, FinalizedChain
<1>3. CASE \E id \in DOMAIN proposals : IsProposed(id) /\ Finalize(id)
  BY <1>1, <1>3, FinalizeChain
<1>4. QED
  BY <1>1, <1>2, <1>3, LedgerSteps

LEMMA InitChain == Init => FinalizedChain
BY DEF Init, FinalizedChain, LastRoot

(* The finalized batches always form one chain that ends in                *)
(* finalizedNullifierRoot.                                                 *)
THEOREM ChainAlways == Spec => []FinalizedChain
<1>1. Init => TypeOK /\ FinalizedChain
  BY InitTypeOK, InitChain
<1>2. (TypeOK /\ FinalizedChain) /\ [Next]_vars => (TypeOK /\ FinalizedChain)'
  BY NextTypeOK, NextChain
<1>3. QED
  BY <1>1, <1>2, PTL DEF Spec

-----------------------------------------------------------------------------
(* A manifest identifies its proposal: the link between proposals and the  *)
(* ledger.  It is what makes both NoManifestCountedTwice and the           *)
(* refinement inductive.                                                   *)

Keyed ==
  /\ \A id \in DOMAIN proposals :
       /\ id[3] \in isManifestProposed
       /\ proposals[id].batch.manifestDigest = id[3]
  /\ \A x, y \in DOMAIN proposals : x[3] = y[3] => x = y

LedgerFromProposals ==
  \A i \in 1..Len(finalizedBatchAccumulator) :
    \E id \in DOMAIN proposals :
      /\ proposals[id].state = "Finalized"
      /\ proposals[id].batch = finalizedBatchAccumulator[i]

LedgerInv ==
  /\ TypeOK
  /\ IdsBelowNonce
  /\ Keyed
  /\ LedgerFromProposals
  /\ FinalizedChain
  /\ NoManifestCountedTwice

(* Two proposals that carry the same batch are the same proposal. *)
LEMMA BatchIdentifies ==
  ASSUME Keyed, NEW x \in DOMAIN proposals, NEW y \in DOMAIN proposals,
         proposals[x].batch = proposals[y].batch
  PROVE  x = y
BY DEF Keyed

(* Closing a proposal keeps the invariant's part about proposals, and its  *)
(* part about the ledger when the ledger stays.                            *)
LEMMA ClosedInv ==
  ASSUME LedgerInv, NEW id \in DOMAIN proposals, IsProposed(id),
         NEW outcome \in BatchState, proposals' = Closed(id, outcome),
         UNCHANGED <<batcherNonces, isManifestProposed>>
  PROVE  /\ IdsBelowNonce'
         /\ Keyed'
         /\ UNCHANGED ledgerVars =>
              LedgerFromProposals' /\ FinalizedChain' /\ NoManifestCountedTwice'
<1>1. /\ DOMAIN proposals' = DOMAIN proposals
      /\ \A x \in DOMAIN proposals :
           /\ proposals'[x].batch = proposals[x].batch
           /\ x # id => proposals'[x].state = proposals[x].state
  BY ClosedKeeps DEF LedgerInv
<1>2. IdsBelowNonce' /\ Keyed'
  BY <1>1 DEF LedgerInv, IdsBelowNonce, Keyed
<1>3. ASSUME UNCHANGED ledgerVars
      PROVE  LedgerFromProposals' /\ FinalizedChain' /\ NoManifestCountedTwice'
  <2>1. UNCHANGED <<finalizedBatchAccumulator, finalizedNullifierRoot>>
    BY <1>3 DEF ledgerVars
  <2>2. FinalizedChain' /\ NoManifestCountedTwice'
    BY <2>1 DEF LedgerInv, FinalizedChain, NoManifestCountedTwice, LastRoot
  <2>3. ASSUME NEW i \in 1..Len(finalizedBatchAccumulator)
        PROVE  \E x \in DOMAIN proposals' :
                 /\ proposals'[x].state = "Finalized"
                 /\ proposals'[x].batch = finalizedBatchAccumulator[i]
    <3>1. PICK x \in DOMAIN proposals :
            /\ proposals[x].state = "Finalized"
            /\ proposals[x].batch = finalizedBatchAccumulator[i]
      BY DEF LedgerInv, LedgerFromProposals
    <3>2. x # id
      BY <3>1 DEF IsProposed
    <3>3. QED
      BY <1>1, <3>1, <3>2
  <2>4. LedgerFromProposals'
    BY <2>1, <2>3 DEF LedgerFromProposals
  <2>5. QED
    BY <2>2, <2>4
<1>4. QED
  BY <1>2, <1>3

LEMMA FinalizeInv ==
  ASSUME LedgerInv, NEW id \in DOMAIN proposals, IsProposed(id), Finalize(id), TypeOK'
  PROVE  LedgerInv'
<1> DEFINE acc == finalizedBatchAccumulator
           b == proposals[id].batch
<1>1. /\ proposals' = Closed(id, "Finalized")
      /\ UNCHANGED <<batcherNonces, isManifestProposed>>
      /\ "Finalized" \in BatchState
  BY DEF Finalize, Close, Closed, BatchState
<1>2. IdsBelowNonce' /\ Keyed'
  BY <1>1, ClosedInv
<1>3. FinalizedChain'
  BY FinalizeChain DEF LedgerInv
<1>4. /\ DOMAIN proposals' = DOMAIN proposals
      /\ \A x \in DOMAIN proposals :
           /\ proposals'[x].batch = proposals[x].batch
           /\ x # id => proposals'[x].state = proposals[x].state
      /\ proposals'[id].state = "Finalized"
  BY <1>1, ClosedKeeps DEF LedgerInv
<1>5. /\ acc' = Append(acc, b)
      /\ acc \in Seq(Batches) /\ b \in Batches /\ Len(acc) \in Nat
  BY DEF Finalize, LedgerInv, TypeOK, BatchProposal
<1>6. \A i \in 1..Len(acc) :
        \E x \in DOMAIN proposals : /\ proposals[x].state = "Finalized"
                                    /\ proposals[x].batch = acc[i]
  BY DEF LedgerInv, LedgerFromProposals
<1>7. \A i \in 1..Len(acc) : acc[i].manifestDigest # b.manifestDigest
  BY <1>6 DEF IsProposed, LedgerInv, Keyed
<1>8. \A i, j \in 1..Len(acc) : acc[i].manifestDigest = acc[j].manifestDigest => i = j
  BY DEF LedgerInv, NoManifestCountedTwice
<1> HIDE DEF acc
<1>9. /\ Len(acc') = Len(acc) + 1
      /\ acc'[Len(acc) + 1] = b
      /\ \A i \in 1..Len(acc) : acc'[i] = acc[i]
      /\ \A i \in 1..Len(acc') : i \in 1..Len(acc) \/ i = Len(acc) + 1
  BY <1>5
<1>10. \A i \in 1..Len(acc') :
         \E x \in DOMAIN proposals' : /\ proposals'[x].state = "Finalized"
                                      /\ proposals'[x].batch = acc'[i]
  <2> TAKE i \in 1..Len(acc')
  <2>1. CASE i \in 1..Len(acc)
    <3>1. PICK x \in DOMAIN proposals : /\ proposals[x].state = "Finalized"
                                        /\ proposals[x].batch = acc[i]
      BY <1>6, <2>1
    <3>2. x # id
      BY <3>1 DEF IsProposed
    <3>3. QED
      BY <1>4, <1>9, <2>1, <3>1, <3>2
  <2>2. CASE i = Len(acc) + 1
    BY <1>4, <1>9, <2>2
  <2>3. QED
    BY <1>9, <2>1, <2>2
<1>11. \A i, j \in 1..Len(acc') :
         acc'[i].manifestDigest = acc'[j].manifestDigest => i = j
  BY <1>7, <1>8, <1>9
<1>12. LedgerFromProposals' /\ NoManifestCountedTwice'
  BY <1>10, <1>11 DEF LedgerFromProposals, NoManifestCountedTwice, acc
<1>13. QED
  BY <1>2, <1>3, <1>12 DEF LedgerInv

LEMMA ProposeInv ==
  ASSUME LedgerInv, NEW a \in Batchers, NEW b \in Batches, ProposeBatch(a, b), TypeOK'
  PROVE  LedgerInv'
<1> DEFINE id == <<a, batcherNonces[a], b.manifestDigest>>
<1>1. id \notin DOMAIN proposals /\ id[3] = b.manifestDigest
  BY FreshId DEF LedgerInv
<1>2. /\ DOMAIN proposals' = DOMAIN proposals \cup {id}
      /\ proposals'[id].batch = b
      /\ \A x \in DOMAIN proposals : proposals'[x] = proposals[x]
  BY <1>1 DEF ProposeBatch
<1>3. /\ b.manifestDigest \notin isManifestProposed
      /\ isManifestProposed' = isManifestProposed \cup {b.manifestDigest}
  BY DEF ProposeBatch, FreshManifest
<1>4. IdsBelowNonce'
  <2>1. batcherNonces' = [batcherNonces EXCEPT ![a] = @ + 1]
    BY DEF ProposeBatch
  <2>2. \A x \in DOMAIN proposals : x[1] \in Batchers /\ x[2] \in Nat
    BY DEF LedgerInv, TypeOK, ProposalId
  <2>3. \A x \in DOMAIN proposals : x[2] < batcherNonces'[x[1]]
    BY <2>1, <2>2 DEF LedgerInv, IdsBelowNonce, TypeOK
  <2>4. id[2] < batcherNonces'[id[1]]
    BY <2>1 DEF LedgerInv, TypeOK
  <2>5. QED
    BY <1>2, <2>3, <2>4 DEF IdsBelowNonce
<1> HIDE DEF id
<1>5. Keyed'
  BY <1>1, <1>2, <1>3 DEF LedgerInv, Keyed
<1>6. UNCHANGED <<finalizedBatchAccumulator, finalizedNullifierRoot>>
  BY DEF ProposeBatch, ledgerVars
<1>7. LedgerFromProposals'
  <2>1. \A i \in 1..Len(finalizedBatchAccumulator) :
          \E x \in DOMAIN proposals' :
            /\ proposals'[x].state = "Finalized"
            /\ proposals'[x].batch = finalizedBatchAccumulator[i]
    BY <1>2 DEF LedgerInv, LedgerFromProposals
  <2>2. QED
    BY <1>6, <2>1 DEF LedgerFromProposals
<1>8. FinalizedChain' /\ NoManifestCountedTwice'
  BY <1>6 DEF LedgerInv, FinalizedChain, NoManifestCountedTwice, LastRoot
<1>9. QED
  BY <1>4, <1>5, <1>7, <1>8 DEF LedgerInv

LEMMA NextLedgerInv == LedgerInv /\ [Next]_vars => LedgerInv'
<1>1. SUFFICES ASSUME LedgerInv, [Next]_vars PROVE LedgerInv'
  OBVIOUS
<1>2. TypeOK'
  BY <1>1, NextTypeOK DEF LedgerInv
<1>3. ASSUME NEW a \in Batchers, NEW b \in Batches, ProposeBatch(a, b) PROVE LedgerInv'
  BY <1>1, <1>2, <1>3, ProposeInv
<1>4. CASE UNCHANGED <<proposals, batcherNonces, isManifestProposed, ledgerVars>>
  BY <1>1, <1>2, <1>4
     DEF LedgerInv, IdsBelowNonce, Keyed, LedgerFromProposals, FinalizedChain,
         NoManifestCountedTwice, LastRoot, ledgerVars
<1>5. ASSUME NEW a \in Challengers, NEW id \in DOMAIN proposals, NEW v \in BOOLEAN,
             ChallengeBatch(a, id, v)
      PROVE  LedgerInv'
  <2>1. /\ IsProposed(id)
        /\ UNCHANGED <<batcherNonces, isManifestProposed>>
        /\ UNCHANGED ledgerVars
        /\ proposals' = Closed(id, "Reverted") \/ proposals' = proposals
    BY <1>5 DEF ChallengeBatch, Closed
  <2>2. CASE proposals' = Closed(id, "Reverted")
    BY <1>1, <1>2, <2>1, <2>2, ClosedInv DEF LedgerInv, BatchState
  <2>3. QED
    BY <1>4, <2>1, <2>2
<1>6. ASSUME NEW id \in DOMAIN proposals, IsProposed(id), Finalize(id) PROVE LedgerInv'
  BY <1>1, <1>2, <1>6, FinalizeInv
<1>7. ASSUME NEW id \in DOMAIN proposals, RevertStaleProposal(id) PROVE LedgerInv'
  <2>1. /\ IsProposed(id)
        /\ UNCHANGED <<batcherNonces, isManifestProposed>>
        /\ UNCHANGED ledgerVars
        /\ proposals' = Closed(id, "Reverted")
    BY <1>7 DEF RevertStaleProposal, Close, Closed
  <2>2. QED
    BY <1>1, <1>2, <2>1, ClosedInv DEF LedgerInv, BatchState
<1>8. ASSUME NEW type \in VerifierTypes, RegisterVerifier(type) PROVE LedgerInv'
  BY <1>4, <1>8 DEF RegisterVerifier
<1>9. CASE Tick
  BY <1>4, <1>9 DEF Tick
<1>10. CASE UNCHANGED vars
  BY <1>4, <1>10 DEF vars
<1>11. QED
  BY <1>1, <1>3, <1>5, <1>6, <1>7, <1>8, <1>9, <1>10
     DEF Next, Call, FinalizeOptimistic, FinalizeWithProof

LEMMA InitLedgerInv == Init => LedgerInv
<1>1. SUFFICES ASSUME Init PROVE LedgerInv
  OBVIOUS
<1>2. DOMAIN proposals = {} /\ finalizedBatchAccumulator = << >>
  BY <1>1 DEF Init
<1>3. QED
  BY <1>1, <1>2, InitTypeOK, InitChain
     DEF LedgerInv, IdsBelowNonce, Keyed, LedgerFromProposals, NoManifestCountedTwice

(* No manifest is ever counted twice, in any interleaving of batchers and  *)
(* whatever roots come back.                                               *)
THEOREM CountedOnce == Spec => []NoManifestCountedTwice
<1>1. Init => LedgerInv
  BY InitLedgerInv
<1>2. LedgerInv /\ [Next]_vars => LedgerInv'
  BY NextLedgerInv
<1>3. LedgerInv => NoManifestCountedTwice
  BY DEF LedgerInv
<1>4. QED
  BY <1>1, <1>2, <1>3, PTL DEF Spec

-----------------------------------------------------------------------------
(* Refinement.  Under LedgerInv every step of the contract is a step of    *)
(* SettlementLedger or leaves its variables unchanged.                     *)

Pending == {proposals[id].batch : id \in OpenProposals}
Decided == {proposals[id].batch : id \in DOMAIN proposals \ OpenProposals}

LEMMA RefineInit == Init => Ledger!Init
<1>1. SUFFICES ASSUME Init PROVE Ledger!Init
  OBVIOUS
<1>2. DOMAIN proposals = {} /\ OpenProposals = {} /\ finalizedBatchAccumulator = << >>
  BY <1>1 DEF Init, OpenProposals
<1>3. QED
  BY <1>2 DEF Ledger!Init

(* Closing a proposal moves its batch from the pending to the decided. *)
LEMMA CloseMoves ==
  ASSUME LedgerInv, NEW id \in DOMAIN proposals, IsProposed(id),
         NEW outcome \in BatchState \ {"Proposed"}, proposals' = Closed(id, outcome)
  PROVE  /\ proposals[id].batch \in Pending
         /\ Pending' = Pending \ {proposals[id].batch}
         /\ Decided' = Decided \cup {proposals[id].batch}
<1>1. id \in OpenProposals
  BY DEF IsProposed, OpenProposals
<1>2. /\ DOMAIN proposals' = DOMAIN proposals
      /\ \A x \in DOMAIN proposals :
           /\ proposals'[x].batch = proposals[x].batch
           /\ x # id => proposals'[x].state = proposals[x].state
      /\ proposals'[id].state = outcome
  BY ClosedKeeps DEF LedgerInv
<1>3. OpenProposals' = OpenProposals \ {id}
  BY <1>2 DEF OpenProposals
<1>4. OpenProposals \subseteq DOMAIN proposals
  BY DEF OpenProposals
<1>5. \A x \in DOMAIN proposals : proposals[x].batch = proposals[id].batch => x = id
  BY BatchIdentifies DEF LedgerInv
<1>6. Pending' = Pending \ {proposals[id].batch}
  BY <1>1, <1>2, <1>3, <1>4, <1>5 DEF Pending
<1>7. Decided' = Decided \cup {proposals[id].batch}
  BY <1>1, <1>2, <1>3, <1>4 DEF Decided
<1>8. QED
  BY <1>1, <1>6, <1>7 DEF Pending

LEMMA RefinePropose ==
  ASSUME LedgerInv, NEW a \in Batchers, NEW b \in Batches, ProposeBatch(a, b)
  PROVE  Ledger!Submit(b)
<1> DEFINE id == <<a, batcherNonces[a], b.manifestDigest>>
<1>1. id \notin DOMAIN proposals
  BY FreshId DEF LedgerInv
<1>2. /\ DOMAIN proposals' = DOMAIN proposals \cup {id}
      /\ proposals'[id].batch = b
      /\ proposals'[id].state = "Proposed"
      /\ \A x \in DOMAIN proposals : proposals'[x] = proposals[x]
  BY <1>1 DEF ProposeBatch
<1>3. /\ b.manifestDigest \notin isManifestProposed
      /\ b.previousNullifierRoot = finalizedNullifierRoot
      /\ b.ballotCount # 0
      /\ finalizedBatchAccumulator' = finalizedBatchAccumulator
  BY DEF ProposeBatch, FreshManifest, WellFormed, ledgerVars
<1>4. b.ballotCount > 0
  BY <1>3, EnvironmentAssumption DEF BatchInput
<1> HIDE DEF id
<1>5. OpenProposals' = OpenProposals \cup {id}
  BY <1>1, <1>2 DEF OpenProposals
<1>6. \A x \in DOMAIN proposals : proposals[x].batch.manifestDigest # b.manifestDigest
  BY <1>3 DEF LedgerInv, Keyed
<1>7. OpenProposals \subseteq DOMAIN proposals
  BY DEF OpenProposals
<1>8. /\ Pending' = Pending \cup {b}
      /\ Decided' = Decided
  BY <1>1, <1>2, <1>5, <1>7 DEF Pending, Decided
<1>9. \A x \in Pending \cup Decided : x.manifestDigest # b.manifestDigest
  BY <1>6, <1>7 DEF Pending, Decided
<1>10. b.previousNullifierRoot = Ledger!Head_
  BY <1>3 DEF LedgerInv, FinalizedChain, LastRoot, Ledger!Head_
<1>11. QED
  BY <1>3, <1>4, <1>8, <1>9, <1>10 DEF Ledger!Submit, Pending, Decided

LEMMA RefineFinalize ==
  ASSUME LedgerInv, NEW id \in DOMAIN proposals, IsProposed(id), Finalize(id),
         NEW b \in Batches, b = proposals[id].batch
  PROVE  Ledger!Accept(b)
<1>1. /\ proposals' = Closed(id, "Finalized")
      /\ "Finalized" \in BatchState \ {"Proposed"}
      /\ proposals[id].batch.previousNullifierRoot = finalizedNullifierRoot
      /\ finalizedBatchAccumulator' =
           Append(finalizedBatchAccumulator, proposals[id].batch)
  BY DEF Finalize, Close, Closed, Settleable, BatchState
<1>2. proposals[id].batch.previousNullifierRoot = Ledger!Head_
  BY <1>1 DEF LedgerInv, FinalizedChain, LastRoot, Ledger!Head_
<1>3. QED
  BY <1>1, <1>2, CloseMoves DEF Ledger!Accept, Pending, Decided

LEMMA RefineReject ==
  ASSUME LedgerInv, NEW id \in DOMAIN proposals, IsProposed(id),
         proposals' = Closed(id, "Reverted"), UNCHANGED finalizedBatchAccumulator,
         NEW b \in Batches, b = proposals[id].batch,
         b \notin ValidBatches \/ b.previousNullifierRoot # finalizedNullifierRoot
  PROVE  Ledger!Reject(b)
<1>1. "Reverted" \in BatchState \ {"Proposed"}
  BY DEF BatchState
<1>2. finalizedNullifierRoot = Ledger!Head_
  BY DEF LedgerInv, FinalizedChain, LastRoot, Ledger!Head_
<1>3. QED
  BY <1>1, <1>2, CloseMoves DEF Ledger!Reject, Pending, Decided

LEMMA RefineNext == LedgerInv /\ [Next]_vars => [Ledger!Next]_(Ledger!ledger_vars)
<1>1. SUFFICES ASSUME LedgerInv, [Next]_vars
               PROVE  [Ledger!Next]_(Ledger!ledger_vars)
  OBVIOUS
<1>2. \A id \in DOMAIN proposals : proposals[id].batch \in Batches
  BY <1>1 DEF LedgerInv, TypeOK, BatchProposal
<1>3. ASSUME NEW a \in Batchers, NEW b \in Batches, ProposeBatch(a, b)
      PROVE  Ledger!Next
  BY <1>1, <1>3, RefinePropose DEF Ledger!Next
<1>4. CASE UNCHANGED <<proposals, finalizedBatchAccumulator>>
  BY <1>4 DEF Ledger!ledger_vars, OpenProposals
<1>5. ASSUME NEW a \in Challengers, NEW id \in DOMAIN proposals, NEW v \in BOOLEAN,
             ChallengeBatch(a, id, v)
      PROVE  [Ledger!Next]_(Ledger!ledger_vars)
  <2>1. /\ IsProposed(id)
        /\ UNCHANGED finalizedBatchAccumulator
        /\ v \in FraudVerdicts(proposals[id].batch)
    BY <1>5 DEF ChallengeBatch, ledgerVars
  <2>2. CASE v
    <3>1. proposals' = Closed(id, "Reverted")
      BY <1>5, <2>2 DEF ChallengeBatch, Closed
    <3>2. proposals[id].batch \notin ValidBatches
      BY <2>1, <2>2 DEF FraudVerdicts
    <3>3. PICK b \in Batches : b = proposals[id].batch
      BY <1>2
    <3>4. Ledger!Reject(b)
      BY <1>1, <2>1, <3>1, <3>2, <3>3, RefineReject
    <3>5. QED
      BY <3>4 DEF Ledger!Next
  <2>3. CASE ~v
    BY <1>4, <1>5, <2>1, <2>3 DEF ChallengeBatch
  <2>4. QED
    BY <2>2, <2>3
<1>6. ASSUME NEW id \in DOMAIN proposals, IsProposed(id), Finalize(id)
      PROVE  Ledger!Next
  <2>1. PICK b \in Batches : b = proposals[id].batch
    BY <1>2
  <2>2. Ledger!Accept(b)
    BY <1>1, <1>6, <2>1, RefineFinalize
  <2>3. QED
    BY <2>2 DEF Ledger!Next
<1>7. ASSUME NEW id \in DOMAIN proposals, RevertStaleProposal(id)
      PROVE  Ledger!Next
  <2>1. /\ IsProposed(id)
        /\ UNCHANGED finalizedBatchAccumulator
        /\ proposals' = Closed(id, "Reverted")
        /\ proposals[id].batch.previousNullifierRoot # finalizedNullifierRoot
    BY <1>7 DEF RevertStaleProposal, Stale, Close, Closed, ledgerVars
  <2>2. PICK b \in Batches : b = proposals[id].batch
    BY <1>2
  <2>3. Ledger!Reject(b)
    BY <1>1, <2>1, <2>2, RefineReject
  <2>4. QED
    BY <2>3 DEF Ledger!Next
<1>8. ASSUME NEW type \in VerifierTypes, RegisterVerifier(type)
      PROVE  [Ledger!Next]_(Ledger!ledger_vars)
  BY <1>4, <1>8 DEF RegisterVerifier, ledgerVars
<1>9. CASE Tick
  BY <1>4, <1>9 DEF Tick, ledgerVars
<1>10. CASE UNCHANGED vars
  BY <1>4, <1>10 DEF vars, ledgerVars
<1>11. QED
  BY <1>1, <1>3, <1>5, <1>6, <1>7, <1>8, <1>9, <1>10
     DEF Next, Call, FinalizeOptimistic, FinalizeWithProof

(* The settlement contract implements the abstract ledger. *)
THEOREM SettlementImplementsLedger == Spec => ImplementsLedger
<1>1. Init => LedgerInv /\ Ledger!Init
  BY InitLedgerInv, RefineInit
<1>2. LedgerInv /\ [Next]_vars => LedgerInv'
  BY NextLedgerInv
<1>3. LedgerInv /\ [Next]_vars => [Ledger!Next]_(Ledger!ledger_vars)
  BY RefineNext
<1>4. QED
  BY <1>1, <1>2, <1>3, PTL DEF Spec, ImplementsLedger, Ledger!Spec

-----------------------------------------------------------------------------
(* The counts.  AcceptedIsFinalized is not inductive on its own: a new      *)
(* proposal must not land on a finalized id, every batch must count at     *)
(* least one ballot, and the sums only mean something over finite sets.    *)

Finalized == {id \in DOMAIN proposals : proposals[id].state = "Finalized"}

BallotsOf == [id \in Finalized |-> proposals[id].batch.ballotCount]

CountInv ==
  /\ BondInv
  /\ \A id \in DOMAIN proposals : proposals[id].batch.ballotCount # 0
  /\ IsFiniteSet(Finalized)
  /\ AcceptedIsFinalized
  /\ acceptedBallotCount = BallotsIn(finalizedBatchAccumulator)

(* Ballot counts are naturals. *)
LEMMA BatchCounts ==
  ASSUME NEW b \in Batches
  PROVE  b.ballotCount \in Nat
BY EnvironmentAssumption DEF BatchInput

LEMMA BallotsOfType ==
  ASSUME TypeOK
  PROVE  /\ BallotsOf \in [Finalized -> Nat]
         /\ \A id \in DOMAIN proposals : proposals[id].batch.ballotCount \in Nat
<1>1. \A id \in DOMAIN proposals : proposals[id].batch \in Batches
  BY DEF TypeOK, BatchProposal
<1>2. QED
  BY <1>1, BatchCounts DEF BallotsOf, Finalized

(* A ledger that grows by a batch grows by that batch's ballots. *)
LEMMA BallotsInAppend ==
  ASSUME NEW ledger \in Seq(Batches), NEW b \in Batches
  PROVE  /\ BallotsIn(ledger) \in Nat
         /\ BallotsIn(Append(ledger, b)) = BallotsIn(ledger) + b.ballotCount
<1> DEFINE n == Len(ledger)
           longer == Append(ledger, b)
           before == [i \in DOMAIN ledger |-> ledger[i].ballotCount]
           after == [i \in DOMAIN longer |-> longer[i].ballotCount]
<1>1. /\ n \in Nat /\ DOMAIN ledger = 1..n
      /\ DOMAIN longer = (1..n) \cup {n + 1} /\ n + 1 \notin 1..n
      /\ \A i \in 1..n : ledger[i] \in Batches /\ longer[i] = ledger[i]
      /\ longer[n + 1] = b
  OBVIOUS
<1>2. IsFiniteSet(1..n)
  BY <1>1, FS_Interval
<1> HIDE DEF longer, n
<1>3. before \in [1..n -> Nat]
  BY <1>1, BatchCounts
<1>4. after \in [(1..n) \cup {n + 1} -> Nat] /\ after[n + 1] = b.ballotCount
  BY <1>1, BatchCounts
<1>5. \A i \in 1..n : after[i] = before[i]
  BY <1>1
<1> HIDE DEF before, after
<1>6. SumFunction(before) \in Nat
  BY <1>2, <1>3, SumFunctionType
<1>7. SumFunction(after) = SumFunction(before) + after[n + 1]
  <2>1. Adds(after, before, n + 1)
    BY <1>1, <1>2, <1>3, <1>4, <1>5, SumFunctionAdds
  <2>2. QED
    BY <2>1 DEF Adds
<1>8. QED
  BY <1>4, <1>6, <1>7 DEF BallotsIn, before, after, longer

(* What a step does, as far as the counts are concerned. *)
LEMMA CountSteps ==
  ASSUME [Next]_vars
  PROVE  \/ \E a \in Batchers, b \in Batches : ProposeBatch(a, b)
         \/ \E id \in DOMAIN proposals : IsProposed(id) /\ Finalize(id)
         \/ \E id \in DOMAIN proposals :
              /\ IsProposed(id)
              /\ proposals' = Closed(id, "Reverted")
              /\ UNCHANGED ledgerVars
         \/ UNCHANGED <<proposals, ledgerVars>>
<1>1. ASSUME NEW c \in Challengers, NEW id \in DOMAIN proposals, NEW v \in BOOLEAN,
             ChallengeBatch(c, id, v)
      PROVE  /\ IsProposed(id) /\ UNCHANGED ledgerVars
             /\ UNCHANGED proposals \/ proposals' = Closed(id, "Reverted")
  BY <1>1 DEF ChallengeBatch, Closed
<1>2. ASSUME NEW id \in DOMAIN proposals, RevertStaleProposal(id)
      PROVE  /\ IsProposed(id) /\ UNCHANGED ledgerVars
             /\ proposals' = Closed(id, "Reverted")
  BY <1>2 DEF RevertStaleProposal, Close, Closed
<1>3. ASSUME NEW type \in VerifierTypes, RegisterVerifier(type)
      PROVE  UNCHANGED <<proposals, ledgerVars>>
  BY <1>3 DEF RegisterVerifier
<1>4. Tick \/ UNCHANGED vars => UNCHANGED <<proposals, ledgerVars>>
  BY DEF Tick, vars
<1>5. QED
  BY <1>1, <1>2, <1>3, <1>4 DEF Next, Call, FinalizeOptimistic, FinalizeWithProof

(* The counts only look at which proposals are finalized and at their      *)
(* batches.                                                                *)
LEMMA CountsStay ==
  ASSUME CountInv, UNCHANGED ledgerVars, Finalized' = Finalized,
         \A id \in Finalized : proposals'[id].batch = proposals[id].batch
  PROVE  /\ IsFiniteSet(Finalized')
         /\ AcceptedIsFinalized'
         /\ (acceptedBallotCount = BallotsIn(finalizedBatchAccumulator))'
<1>1. BallotsOf' = BallotsOf
  BY DEF BallotsOf
<1>2. AcceptedIsFinalized <=>
        /\ acceptedBallotCount = SumFunction(BallotsOf)
        /\ finalizedBatchCount = Cardinality(Finalized)
        /\ finalizedBatchCount = Len(finalizedBatchAccumulator)
        /\ finalizedBatchCount <= acceptedBallotCount
  BY DEF AcceptedIsFinalized, BallotsOf, Finalized
<1>3. AcceptedIsFinalized' <=>
        /\ acceptedBallotCount' = SumFunction(BallotsOf')
        /\ finalizedBatchCount' = Cardinality(Finalized')
        /\ finalizedBatchCount' = Len(finalizedBatchAccumulator')
        /\ finalizedBatchCount' <= acceptedBallotCount'
  BY DEF AcceptedIsFinalized, BallotsOf, Finalized
<1>4. UNCHANGED <<acceptedBallotCount, finalizedBatchCount, finalizedBatchAccumulator>>
  BY DEF ledgerVars
<1>5. QED
  BY <1>1, <1>2, <1>3, <1>4 DEF CountInv, BallotsIn

LEMMA ProposeCounts ==
  ASSUME CountInv, NEW a \in Batchers, NEW b \in Batches, ProposeBatch(a, b),
         BondInv'
  PROVE  CountInv'
<1> DEFINE id == <<a, batcherNonces[a], b.manifestDigest>>
<1>1. id \notin DOMAIN proposals
  BY FreshId DEF CountInv, BondInv
<1>2. /\ DOMAIN proposals' = DOMAIN proposals \cup {id}
      /\ proposals'[id].batch = b
      /\ proposals'[id].state = "Proposed"
      /\ \A x \in DOMAIN proposals : proposals'[x] = proposals[x]
      /\ b.ballotCount # 0
      /\ UNCHANGED ledgerVars
  BY <1>1 DEF ProposeBatch, WellFormed
<1> HIDE DEF id
<1>3. Finalized' = Finalized
  BY <1>1, <1>2 DEF Finalized
<1>4. \A x \in Finalized : proposals'[x].batch = proposals[x].batch
  BY <1>2 DEF Finalized
<1>5. \A x \in DOMAIN proposals' : proposals'[x].batch.ballotCount # 0
  BY <1>2 DEF CountInv
<1>6. QED
  BY <1>2, <1>3, <1>4, <1>5, CountsStay DEF CountInv

LEMMA RevertCounts ==
  ASSUME CountInv, NEW id \in DOMAIN proposals, IsProposed(id),
         proposals' = Closed(id, "Reverted"), UNCHANGED ledgerVars, BondInv'
  PROVE  CountInv'
<1>1. "Reverted" \in BatchState /\ proposals[id].state = "Proposed" /\ TypeOK
  BY DEF BatchState, IsProposed, CountInv, BondInv
<1>2. /\ DOMAIN proposals' = DOMAIN proposals
      /\ \A x \in DOMAIN proposals : proposals'[x].batch = proposals[x].batch
      /\ proposals'[id].state = "Reverted"
      /\ \A x \in DOMAIN proposals : x # id => proposals'[x] = proposals[x]
  BY <1>1, ClosedKeeps
<1>3. Finalized' = Finalized
  BY <1>1, <1>2 DEF Finalized
<1>4. QED
  BY <1>2, <1>3, CountsStay DEF CountInv, Finalized

LEMMA FinalizeCounts ==
  ASSUME CountInv, NEW id \in DOMAIN proposals, IsProposed(id), Finalize(id),
         BondInv'
  PROVE  CountInv'
<1> DEFINE b == proposals[id].batch
<1>1. /\ "Finalized" \in BatchState /\ proposals[id].state = "Proposed" /\ TypeOK
      /\ proposals' = Closed(id, "Finalized")
  BY DEF BatchState, IsProposed, CountInv, BondInv, Finalize, Close, Closed
<1>2. /\ DOMAIN proposals' = DOMAIN proposals
      /\ \A x \in DOMAIN proposals : proposals'[x].batch = proposals[x].batch
      /\ proposals'[id].state = "Finalized"
      /\ \A x \in DOMAIN proposals : x # id => proposals'[x] = proposals[x]
  BY <1>1, ClosedKeeps
<1>3. /\ finalizedBatchAccumulator' = Append(finalizedBatchAccumulator, b)
      /\ finalizedBatchCount' = finalizedBatchCount + 1
      /\ acceptedBallotCount' = acceptedBallotCount + b.ballotCount
  BY DEF Finalize
<1>4. /\ b \in Batches /\ b.ballotCount \in Nat /\ b.ballotCount # 0
      /\ finalizedBatchAccumulator \in Seq(Batches)
      /\ acceptedBallotCount \in Nat /\ finalizedBatchCount \in Nat
  BY <1>1, BatchCounts, EnvironmentAssumption DEF TypeOK, BatchProposal, CountInv
<1>5. Finalized' = Finalized \cup {id} /\ id \notin Finalized
  BY <1>1, <1>2 DEF Finalized
<1>6. /\ IsFiniteSet(Finalized) /\ IsFiniteSet(Finalized')
      /\ Cardinality(Finalized') = Cardinality(Finalized) + 1
  BY <1>5, FS_AddElement DEF CountInv
<1>7. SumFunction(BallotsOf') = SumFunction(BallotsOf) + b.ballotCount
  <2>1. BallotsOf \in [Finalized -> Nat]
    BY <1>1, BallotsOfType
  <2>2. BallotsOf' \in [Finalized \cup {id} -> Nat]
    <3>1. TypeOK'
      BY DEF BondInv
    <3>2. \A x \in DOMAIN proposals' : proposals'[x].batch.ballotCount \in Nat
      BY <1>1, <1>2, BallotsOfType
    <3>3. QED
      BY <1>5, <3>2 DEF BallotsOf, Finalized
  <2>3. BallotsOf'[id] = b.ballotCount
    BY <1>2, <1>5 DEF BallotsOf
  <2>4. \A x \in Finalized : BallotsOf'[x] = BallotsOf[x]
    BY <1>2, <1>5 DEF BallotsOf, Finalized
  <2> HIDE DEF b
  <2>5. Adds(BallotsOf', BallotsOf, id)
    BY <1>5, <1>6, <2>1, <2>2, <2>3, <2>4, SumFunctionAdds
  <2>6. QED
    BY <2>3, <2>5 DEF Adds
<1>8. AcceptedIsFinalized'
  <2>1. /\ acceptedBallotCount = SumFunction(BallotsOf)
        /\ finalizedBatchCount = Cardinality(Finalized)
        /\ finalizedBatchCount = Len(finalizedBatchAccumulator)
        /\ finalizedBatchCount <= acceptedBallotCount
    BY DEF CountInv, AcceptedIsFinalized, BallotsOf, Finalized
  <2>2. Len(finalizedBatchAccumulator') = Len(finalizedBatchAccumulator) + 1
    BY <1>3, <1>4
  <2>3. finalizedBatchCount' <= acceptedBallotCount'
    BY <1>3, <1>4, <2>1
  <2> HIDE DEF b
  <2>4. /\ acceptedBallotCount' = SumFunction(BallotsOf')
        /\ finalizedBatchCount' = Cardinality(Finalized')
        /\ finalizedBatchCount' = Len(finalizedBatchAccumulator')
    BY <1>3, <1>6, <1>7, <2>1, <2>2
  <2>5. QED
    BY <2>3, <2>4 DEF AcceptedIsFinalized, BallotsOf, Finalized
<1>9. acceptedBallotCount' = BallotsIn(finalizedBatchAccumulator')
  BY <1>3, <1>4, BallotsInAppend DEF CountInv
<1>10. (\A x \in DOMAIN proposals : proposals[x].batch.ballotCount # 0)'
  BY <1>2 DEF CountInv
<1>11. (acceptedBallotCount = BallotsIn(finalizedBatchAccumulator))'
  BY <1>9 DEF BallotsIn
<1>12. QED
  BY <1>6, <1>8, <1>10, <1>11 DEF CountInv

LEMMA InitCounts == Init => CountInv
<1>1. SUFFICES ASSUME Init PROVE CountInv
  OBVIOUS
<1>2. /\ BondInv /\ DOMAIN proposals = {} /\ Finalized = {}
      /\ finalizedBatchAccumulator = << >>
      /\ finalizedBatchCount = 0 /\ acceptedBallotCount = 0
  BY <1>1, InitBonds DEF Init, Finalized
<1>3. IsFiniteSet(Finalized) /\ Cardinality(Finalized) = 0
  BY <1>2, FS_EmptySet
<1>4. SumFunction(BallotsOf) = 0
  BY <1>2, SumFunctionEmpty DEF BallotsOf
<1>5. BallotsIn(finalizedBatchAccumulator) = 0
  <2>1. DOMAIN [i \in DOMAIN << >> |-> << >>[i].ballotCount] = {}
    OBVIOUS
  <2>2. QED
    BY <1>2, <2>1, SumFunctionEmpty DEF BallotsIn
<1>6. AcceptedIsFinalized
  BY <1>2, <1>3, <1>4 DEF AcceptedIsFinalized, BallotsOf, Finalized
<1>7. QED
  BY <1>2, <1>3, <1>5, <1>6 DEF CountInv

LEMMA NextCounts == CountInv /\ [Next]_vars => CountInv'
<1>1. SUFFICES ASSUME CountInv, [Next]_vars PROVE CountInv'
  OBVIOUS
<1>2. BondInv'
  BY <1>1, NextBonds DEF CountInv
<1>3. CASE UNCHANGED <<proposals, ledgerVars>>
  <2>1. Finalized' = Finalized
    BY <1>3 DEF Finalized
  <2>2. QED
    BY <1>1, <1>2, <1>3, <2>1, CountsStay DEF CountInv
<1>4. QED
  BY <1>1, <1>2, <1>3, CountSteps, ProposeCounts, FinalizeCounts, RevertCounts

(* The contract's two counters are the number of finalized proposals and   *)
(* the ballots in them, whatever is challenged, overtaken or reverted.     *)
THEOREM CountersAreFinalized == Spec => []AcceptedIsFinalized
<1>1. CountInv => AcceptedIsFinalized
  BY DEF CountInv
<1>2. QED
  BY <1>1, InitCounts, NextCounts, PTL DEF Spec

-----------------------------------------------------------------------------
(* The tally that is bound to this ledger. *)

(* A published result was published after voting, at a time not in the     *)
(* future.                                                                 *)
PublishedInPast ==
  tally # NoTally => publishedAt <= now /\ now > VotingEndsAt

TallyInv == TallyTypeOK /\ PublishedInPast /\ SettledTallyComplete

LEMMA InitTally == TallyInit => TallyInv
BY InitTypeOK DEF TallyInit, TallyInv, TallyTypeOK, PublishedInPast,
                  SettledTallyComplete

LEMMA PublishInv ==
  ASSUME TallyInv, NEW counts \in CandidateCounts, PublishTally(counts)
  PROVE  TallyInv'
<1>1. /\ now > VotingEndsAt /\ publishedAt' = now /\ UNCHANGED vars
      /\ tally' = [accumulator     |-> finalizedBatchAccumulator,
                   acceptedCount   |-> acceptedBallotCount,
                   candidateCounts |-> counts]
  BY DEF PublishTally, VotingOver
<1>2. /\ finalizedBatchAccumulator \in Seq(Batches)
      /\ acceptedBallotCount \in 0..MaxUint64
      /\ now \in Nat
  BY DEF TallyInv, TallyTypeOK, TypeOK
<1>3. TypeOK'
  BY <1>1 DEF TallyInv, TallyTypeOK, TypeOK, vars, ledgerVars
<1>4. TallyTypeOK'
  BY <1>1, <1>2, <1>3 DEF TallyTypeOK
<1>5. now' = now /\ finalizedBatchAccumulator' = finalizedBatchAccumulator
  BY <1>1 DEF vars, ledgerVars
<1>6. PublishedInPast' /\ SettledTallyComplete'
  BY <1>1, <1>2, <1>5 DEF PublishedInPast, SettledTallyComplete
<1>7. QED
  BY <1>4, <1>6 DEF TallyInv

(* The clock never goes back. *)
LEMMA TimePasses ==
  ASSUME TypeOK, [Next]_vars
  PROVE  now \in Nat /\ now' \in Nat /\ now <= now'
<1>1. now \in Nat
  BY DEF TypeOK
<1>2. now' = now \/ now' = now + 1
  BY DEF Next, Call, vars, ProposeBatch, ChallengeBatch, FinalizeOptimistic,
       FinalizeWithProof, Finalize, RevertStaleProposal, RegisterVerifier, Tick
<1>3. QED
  BY <1>1, <1>2

LEMMA SettleTally ==
  ASSUME TallyInv, [Next]_vars, UNCHANGED tallyVars
  PROVE  TallyInv'
<1>1. TypeOK /\ publishedAt \in Nat
  BY DEF TallyInv, TallyTypeOK
<1>2. TypeOK'
  BY <1>1, NextTypeOK
<1>3. UNCHANGED <<tally, publishedAt>>
  BY DEF tallyVars
<1>4. now \in Nat /\ now' \in Nat /\ now <= now'
  BY <1>1, TimePasses
<1>5. TallyTypeOK'
  BY <1>2, <1>3 DEF TallyInv, TallyTypeOK
<1>6. PublishedInPast'
  BY <1>1, <1>3, <1>4, ConfigAssumption DEF TallyInv, PublishedInPast
<1>7. SettledTallyComplete'
  <2>1. SUFFICES ASSUME tally # NoTally, publishedAt > SettlementEndsAt
                 PROVE  UNCHANGED finalizedBatchAccumulator
    BY <1>3 DEF TallyInv, SettledTallyComplete
  <2>2. now > SettlementEndsAt
    BY <1>1, <1>4, <2>1, ConfigAssumption DEF TallyInv, PublishedInPast
  <2>3. ASSUME NEW id \in DOMAIN proposals, Finalize(id) PROVE FALSE
    BY <1>4, <2>2, <2>3, ConfigAssumption DEF Finalize, Settleable
  <2>4. QED
    BY <2>3, LedgerSteps DEF ledgerVars
<1>8. QED
  BY <1>5, <1>6, <1>7 DEF TallyInv

LEMMA NextTally == TallyInv /\ [TallyNext]_<<vars, tallyVars>> => TallyInv'
<1>1. SUFFICES ASSUME TallyInv, [TallyNext]_<<vars, tallyVars>> PROVE TallyInv'
  OBVIOUS
<1>2. CASE [Next]_vars /\ UNCHANGED tallyVars
  BY <1>1, <1>2, SettleTally
<1>3. QED
  BY <1>1, <1>2, PublishInv DEF TallyNext

LEMMA TallyInvAlways == TallySpec => []TallyInv
BY InitTally, NextTally, PTL DEF TallySpec

(* The settlement and the result bound to it keep their types. *)
THEOREM TallyTypeCorrect == TallySpec => []TallyTypeOK
<1>1. TallyInv => TallyTypeOK
  BY DEF TallyInv
<1>2. QED
  BY <1>1, TallyInvAlways, PTL

(* A result published after the settlement window covers every batch that  *)
(* is ever finalized: none can follow it.                                  *)
THEOREM SettledTallyIsComplete == TallySpec => []SettledTallyComplete
<1>1. TallyInv => SettledTallyComplete
  BY DEF TallyInv
<1>2. QED
  BY <1>1, TallyInvAlways, PTL

(* A batch once finalized stays: the ledger only grows at its end. *)
LEMMA LedgerGrows ==
  ASSUME TypeOK, [Next]_vars
  PROVE  /\ finalizedBatchAccumulator' \in Seq(Batches)
         /\ \/ UNCHANGED finalizedBatchAccumulator
            \/ \E b \in Batches : finalizedBatchAccumulator' =
                                    Append(finalizedBatchAccumulator, b)
<1>1. TypeOK'
  BY NextTypeOK
<1>2. ASSUME NEW id \in DOMAIN proposals, Finalize(id)
      PROVE  \E b \in Batches : finalizedBatchAccumulator' =
                                  Append(finalizedBatchAccumulator, b)
  BY <1>2 DEF Finalize, TypeOK, BatchProposal
<1>3. QED
  BY <1>1, <1>2, LedgerSteps DEF ledgerVars, TypeOK

LEMMA PrefixOfAppend ==
  ASSUME NEW s \in Seq(Batches), NEW t \in Seq(Batches), NEW b \in Batches,
         IsPrefix(s, t)
  PROVE  IsPrefix(s, Append(t, b))
<1>1. /\ Len(s) \in Nat /\ Len(t) \in Nat /\ Len(s) <= Len(t)
      /\ SubSeq(s, 1, Len(s)) = SubSeq(t, 1, Len(s))
      /\ Len(Append(t, b)) = Len(t) + 1
  BY DEF IsPrefix
<1>2. SubSeq(Append(t, b), 1, Len(s)) = SubSeq(t, 1, Len(s))
  BY <1>1
<1>3. Len(s) <= Len(Append(t, b))
  BY <1>1
<1>4. QED
  BY <1>1, <1>2, <1>3 DEF IsPrefix

LEMMA PrefixOfItself ==
  ASSUME NEW s \in Seq(Batches)
  PROVE  IsPrefix(s, s)
BY DEF IsPrefix

BindInv == TallyInv /\ CountInv /\ TallyBindsPrefix

LEMMA InitBind == TallyInit => BindInv
BY InitTally, InitCounts DEF TallyInit, BindInv, TallyBindsPrefix

LEMMA NextBind == BindInv /\ [TallyNext]_<<vars, tallyVars>> => BindInv'
<1>1. SUFFICES ASSUME BindInv, [TallyNext]_<<vars, tallyVars>> PROVE BindInv'
  OBVIOUS
<1>2. TallyInv'
  BY <1>1, NextTally DEF BindInv
<1>3. TypeOK /\ [Next]_vars
  BY <1>1 DEF BindInv, TallyInv, TallyTypeOK, TallyNext, PublishTally
<1>4. CountInv'
  BY <1>1, <1>3, NextCounts DEF BindInv
<1>5. ASSUME UNCHANGED tallyVars PROVE TallyBindsPrefix'
  <2>1. tally' = tally
    BY <1>5 DEF tallyVars
  <2>2. SUFFICES ASSUME tally # NoTally
                 PROVE  IsPrefix(tally.accumulator, finalizedBatchAccumulator')
    BY <1>1, <2>1 DEF BindInv, TallyBindsPrefix, BallotsIn, Total
  <2>3. /\ IsPrefix(tally.accumulator, finalizedBatchAccumulator)
        /\ tally.accumulator \in Seq(Batches)
        /\ finalizedBatchAccumulator \in Seq(Batches)
    BY <1>1, <1>3, <2>2 DEF BindInv, TallyBindsPrefix, TallyInv, TallyTypeOK, TypeOK
  <2>4. QED
    BY <1>3, <2>3, LedgerGrows, PrefixOfAppend
<1>6. ASSUME NEW counts \in CandidateCounts, PublishTally(counts)
      PROVE  TallyBindsPrefix'
  <2>1. /\ tally' = [accumulator     |-> finalizedBatchAccumulator,
                     acceptedCount   |-> acceptedBallotCount,
                     candidateCounts |-> counts]
        /\ UNCHANGED vars
        /\ Total(counts) = acceptedBallotCount
    BY <1>6 DEF PublishTally, CountsMatchAccepted
  <2>2. /\ finalizedBatchAccumulator' = finalizedBatchAccumulator
        /\ finalizedBatchAccumulator \in Seq(Batches)
        /\ acceptedBallotCount = BallotsIn(finalizedBatchAccumulator)
    BY <1>1, <1>3, <2>1 DEF vars, ledgerVars, TypeOK, BindInv, CountInv
  <2>3. /\ tally'.accumulator = finalizedBatchAccumulator
        /\ tally'.acceptedCount = acceptedBallotCount
        /\ tally'.candidateCounts = counts
    BY <2>1
  <2>4. IsPrefix(tally'.accumulator, finalizedBatchAccumulator')
    BY <2>2, <2>3, PrefixOfItself
  <2>5. QED
    BY <2>1, <2>2, <2>3, <2>4 DEF TallyBindsPrefix, BallotsIn, Total
<1>7. TallyBindsPrefix'
  BY <1>1, <1>5, <1>6 DEF TallyNext
<1>8. QED
  BY <1>2, <1>4, <1>7 DEF BindInv

(* A published result is for ever that of a prefix of the ledger: its      *)
(* counts distribute exactly the ballots of the batches it is bound to.    *)
THEOREM TallyBoundToPrefix == TallySpec => []TallyBindsPrefix
<1>1. BindInv => TallyBindsPrefix
  BY DEF BindInv
<1>2. QED
  BY <1>1, InitBind, NextBind, PTL DEF TallySpec

(* Once a result is out, in the settlement window or after it, no proposal *)
(* can be added: whatever is finalized later was proposed before.          *)
THEOREM NothingProposedAfterTally == TallySpec => NoProposalAfterTally
<1>1. ASSUME TallyInv, [TallyNext]_<<vars, tallyVars>>, tally # NoTally
      PROVE  DOMAIN proposals' = DOMAIN proposals
  <2>1. TypeOK /\ now \in Nat /\ now > VotingEndsAt
    BY <1>1 DEF TallyInv, TallyTypeOK, TypeOK, PublishedInPast
  <2>2. ~ \E a \in Batchers, b \in Batches : ProposeBatch(a, b)
    <3>1. ~ now <= VotingEndsAt
      BY <2>1, ConfigAssumption
    <3>2. QED
      BY <3>1 DEF ProposeBatch
  <2>3. UNCHANGED vars \/ Next
    BY <1>1 DEF TallyNext, PublishTally
  <2>4. ASSUME NEW id \in DOMAIN proposals, NEW outcome, Close(id, outcome)
        PROVE  DOMAIN proposals' = DOMAIN proposals
    BY <2>1, <2>4 DEF Close, TypeOK
  <2>5. ASSUME NEW a \in Challengers, NEW id \in DOMAIN proposals,
               NEW v \in BOOLEAN, ChallengeBatch(a, id, v)
        PROVE  DOMAIN proposals' = DOMAIN proposals
    BY <2>1, <2>5 DEF ChallengeBatch, TypeOK
  <2>6. QED
    BY <2>2, <2>3, <2>4, <2>5 DEF Next, Call, vars, FinalizeOptimistic,
         FinalizeWithProof, Finalize, RevertStaleProposal, RegisterVerifier, Tick
<1>2. QED
  BY <1>1, TallyInvAlways, PTL DEF TallySpec, NoProposalAfterTally
==============================================================================
