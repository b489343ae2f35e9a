--------------------- MODULE BatcherReceiptRegistry_proofs ---------------------
(***************************************************************************)
(* Safety of the batch log and of the omission claims over it, for any     *)
(* accounts, verifiers, receipts and Merkle paths.                         *)
(***************************************************************************)
EXTENDS BatcherReceiptRegistry, TLAPS

LogInv == BatchTypeOK /\ LogIsChain

LEMMA InitLog == BatchInit => LogInv
<1>1. SUFFICES ASSUME BatchInit PROVE LogInv
  OBVIOUS
<1>2. batches \in Seq(Batch) /\ DOMAIN batches = {}
  BY <1>1 DEF BatchInit
<1>3. BatchTypeOK
  BY <1>1, <1>2, DeploymentAssumption DEF BatchInit, BatchTypeOK
<1>4. LogIsChain
  BY <1>1, <1>2 DEF BatchInit, LogIsChain
<1>5. QED
  BY <1>3, <1>4 DEF LogInv

(* What a commit appends, and that it keeps the rest of the log. *)
LEMMA CommitAppends ==
  ASSUME LogInv, NEW a \in Accounts, NEW r \in PackageRoots \cup {NoRoot},
         NEW p, NEW n \in NullifierRoots \cup {NoRoot},
         NEW inputs \in PublicInputs \cup {NoInputs}, CommitBatch(a, r, p, n, inputs)
  PROVE  /\ Len(batches) \in Nat /\ DOMAIN batches = 1..Len(batches)
         /\ batches' \in Seq(Batch) /\ DOMAIN batches' = 1..Len(batches) + 1
         /\ Len(batches') = Len(batches) + 1
         /\ \A i \in 1..Len(batches) : batches'[i] = batches[i]
         /\ batches'[Len(batches) + 1].previousNullifierRoot = latestNullifierRoot
         /\ batches'[Len(batches) + 1].nullifierRoot = n
         /\ batches'[Len(batches) + 1].cidMerkleRoot = r
         /\ r \in PackageRoots /\ n \in NullifierRoots /\ r \notin isRootCommitted
<1> DEFINE batch == [cidMerkleRoot         |-> r,
                     previousNullifierRoot |-> p,
                     nullifierRoot         |-> n,
                     batchPublicInputsHash |-> inputs,
                     submittedAt           |-> now,
                     batcher               |-> a]
<1>1. /\ r \in PackageRoots /\ n \in NullifierRoots /\ r \notin isRootCommitted
      /\ p = latestNullifierRoot
      /\ batches' = Append(batches, batch)
  BY DEF CommitBatch, WellFormed, Continues, Uncommitted
<1>2. now \in Nat /\ latestNullifierRoot \in NullifierRoots \cup {NoRoot}
  BY DeploymentAssumption DEF LogInv, BatchTypeOK
<1>3. batch \in Batch
  BY <1>1, <1>2 DEF Batch
<1>4. /\ batch.previousNullifierRoot = latestNullifierRoot
      /\ batch.nullifierRoot = n /\ batch.cidMerkleRoot = r
  BY <1>1
<1> HIDE DEF batch
<1>5. batches \in Seq(Batch)
  BY DEF LogInv, BatchTypeOK
<1>6. /\ Len(batches) \in Nat /\ DOMAIN batches = 1..Len(batches)
      /\ batches' \in Seq(Batch) /\ DOMAIN batches' = 1..Len(batches) + 1
      /\ Len(batches') = Len(batches) + 1
      /\ \A i \in 1..Len(batches) : batches'[i] = batches[i]
      /\ batches'[Len(batches) + 1] = batch
  BY <1>1, <1>3, <1>5
<1>7. QED
  BY <1>1, <1>4, <1>6

LEMMA CommitLog ==
  ASSUME LogInv, NEW a \in Accounts, NEW r \in PackageRoots \cup {NoRoot},
         NEW p, NEW n \in NullifierRoots \cup {NoRoot},
         NEW inputs \in PublicInputs \cup {NoInputs}, CommitBatch(a, r, p, n, inputs)
  PROVE  LogInv'
<1> DEFINE k == Len(batches)
<1>1. /\ k \in Nat /\ DOMAIN batches = 1..k
      /\ batches' \in Seq(Batch) /\ DOMAIN batches' = 1..k + 1
      /\ Len(batches') = k + 1
      /\ \A i \in 1..k : batches'[i] = batches[i]
      /\ batches'[k + 1].previousNullifierRoot = latestNullifierRoot
      /\ batches'[k + 1].nullifierRoot = n
      /\ batches'[k + 1].cidMerkleRoot = r
      /\ r \in PackageRoots /\ n \in NullifierRoots /\ r \notin isRootCommitted
  BY CommitAppends
<1>2. /\ latestNullifierRoot' = n
      /\ isRootCommitted' = isRootCommitted \cup {r}
      /\ UNCHANGED <<now, isBatcher, batchProofVerifier>>
  BY DEF CommitBatch
<1>3. latestNullifierRoot =
        IF batches = << >> THEN NoRoot ELSE batches[k].nullifierRoot
  BY DEF LogInv, LogIsChain
<1>4. batches = << >> <=> k = 0
  BY DEF LogInv, BatchTypeOK
<1> HIDE DEF k
<1>5. BatchTypeOK'
  BY <1>1, <1>2 DEF LogInv, BatchTypeOK
<1>6. \A i \in DOMAIN batches' :
        batches'[i].previousNullifierRoot =
          IF i = 1 THEN NoRoot ELSE batches'[i - 1].nullifierRoot
  <2>1. ASSUME NEW i \in 1..k + 1
        PROVE  batches'[i].previousNullifierRoot =
                 IF i = 1 THEN NoRoot ELSE batches'[i - 1].nullifierRoot
    <3>1. CASE i = k + 1
      <4>1. k # 0 => batches'[k] = batches[k]
        BY <1>1
      <4>2. QED
        BY <1>1, <1>3, <1>4, <3>1, <4>1
    <3>2. CASE i \in 1..k
      <4>1. batches[i].previousNullifierRoot =
              IF i = 1 THEN NoRoot ELSE batches[i - 1].nullifierRoot
        BY <1>1, <3>2 DEF LogInv, LogIsChain
      <4>2. i # 1 => i - 1 \in 1..k
        BY <1>1, <3>2
      <4>3. QED
        BY <1>1, <3>2, <4>1, <4>2
    <3>3. QED
      BY <1>1, <3>1, <3>2
  <2>2. QED
    BY <1>1, <2>1
<1>7. latestNullifierRoot' =
        IF batches' = << >> THEN NoRoot ELSE batches'[Len(batches')].nullifierRoot
  <2>1. batches' # << >>
    BY <1>1
  <2>2. QED
    BY <1>1, <1>2, <2>1
<1>8. \A i \in 1..k : batches[i].cidMerkleRoot \in isRootCommitted
  BY <1>1 DEF LogInv, LogIsChain
<1>9. isRootCommitted' = {batches'[i].cidMerkleRoot : i \in DOMAIN batches'}
  <2>1. isRootCommitted = {batches[i].cidMerkleRoot : i \in 1..k}
    BY <1>1 DEF LogInv, LogIsChain
  <2>2. {batches'[i].cidMerkleRoot : i \in 1..k + 1}
          = {batches[i].cidMerkleRoot : i \in 1..k} \cup {r}
    <3>1. 1..k + 1 = 1..k \cup {k + 1}
      BY <1>1
    <3>2. QED
      BY <1>1, <3>1
  <2>3. QED
    BY <1>1, <1>2, <2>1, <2>2
<1>10. \A i, j \in DOMAIN batches' :
         batches'[i].cidMerkleRoot = batches'[j].cidMerkleRoot => i = j
  <2>1. \A i, j \in 1..k :
          batches'[i].cidMerkleRoot = batches'[j].cidMerkleRoot => i = j
    BY <1>1 DEF LogInv, LogIsChain
  <2>2. \A i \in 1..k : batches'[i].cidMerkleRoot # r
    BY <1>1, <1>8
  <2>3. \A i \in 1..k + 1 : i \in 1..k \/ i = k + 1
    BY <1>1
  <2>4. QED
    BY <1>1, <2>1, <2>2, <2>3
<1>11. QED
  BY <1>5, <1>6, <1>7, <1>9, <1>10 DEF LogInv, LogIsChain

(* A step of the log commits a batch or leaves the log alone; no step      *)
(* takes the clock back.                                                   *)
LEMMA LogSteps ==
  ASSUME BatchTypeOK, BatchNext
  PROVE  \/ \E a \in Accounts, r \in PackageRoots \cup {NoRoot},
               p, n \in NullifierRoots \cup {NoRoot},
               inputs \in PublicInputs \cup {NoInputs} :
              CommitBatch(a, r, p, n, inputs)
         \/ /\ UNCHANGED <<latestNullifierRoot, batches, isRootCommitted>>
            /\ BatchTypeOK'
            /\ now' >= now
<1>1. ASSUME NEW a \in Accounts, NEW r \in PackageRoots \cup {NoRoot},
             NEW p \in NullifierRoots \cup {NoRoot},
             NEW n \in NullifierRoots \cup {NoRoot},
             \/ SubmitBatch(a, r, p, n)
             \/ \E inputs \in PublicInputs \cup {NoInputs} :
                  SubmitBatchWithProof(a, r, p, n, inputs)
      PROVE  \E inputs \in PublicInputs \cup {NoInputs} :
               CommitBatch(a, r, p, n, inputs)
  BY <1>1 DEF SubmitBatch, SubmitBatchWithProof
<1>2. now \in Int
  BY DeploymentAssumption DEF BatchTypeOK
<1>3. ASSUME NEW a \in Accounts, NEW authorized \in BOOLEAN, SetBatcher(a, authorized)
      PROVE  /\ UNCHANGED <<latestNullifierRoot, batches, isRootCommitted>>
             /\ BatchTypeOK' /\ now' >= now
  BY <1>2, <1>3 DEF SetBatcher, BatchTypeOK
<1>4. ASSUME NEW v \in BatchVerifiers \cup {NoVerifier}, SetBatchProofVerifier(v)
      PROVE  /\ UNCHANGED <<latestNullifierRoot, batches, isRootCommitted>>
             /\ BatchTypeOK' /\ now' >= now
  BY <1>2, <1>4 DEF SetBatchProofVerifier, BatchTypeOK
<1>5. CASE Tick
  <2>1. now' \in 0..MaxTime /\ now' >= now
    BY <1>5, DeploymentAssumption DEF Tick, BatchTypeOK
  <2>2. QED
    BY <1>5, <2>1 DEF Tick, BatchTypeOK, batchVars
<1>6. QED
  BY <1>1, <1>3, <1>4, <1>5 DEF BatchNext

-----------------------------------------------------------------------------
(* The claims over the log. *)

(* No claim is from the future; with that, ClaimsJustified is inductive.   *)
ReceiptInv ==
  /\ TypeOK
  /\ LogIsChain
  /\ ClaimsJustified
  /\ \A r \in Receipts : claims[r].openedAt <= now

LEMMA InitReceipts == Init => ReceiptInv
<1>1. SUFFICES ASSUME Init PROVE ReceiptInv
  OBVIOUS
<1>2. LogInv /\ now = 0
  BY <1>1, InitLog DEF Init, BatchInit
<1>3. NoClaim \in OmissionClaim /\ NoClaim.status = "None" /\ NoClaim.openedAt = 0
  BY DEF NoClaim, OmissionClaim, ClaimStatus
<1>4. claims \in [Receipts -> OmissionClaim]
  BY <1>1, <1>3 DEF Init
<1>5. TypeOK
  BY <1>1, <1>2, <1>4, ReceiptAssumption DEF Init, TypeOK, LogInv
<1>6. \A r \in Receipts : claims[r].status = "None" /\ claims[r].openedAt = 0
  BY <1>1, <1>3 DEF Init
<1>7. QED
  BY <1>2, <1>5, <1>6 DEF ReceiptInv, LogInv, ClaimsJustified

(* A claim stays justified while the log and the signatures only grow.     *)
LEMMA KeptClaims ==
  ASSUME ReceiptInv, TypeOK', LogIsChain', UNCHANGED claims, now' >= now,
         signatures \subseteq signatures',
         \A i \in DOMAIN batches : i \in DOMAIN batches' /\ batches'[i] = batches[i]
  PROVE  ReceiptInv'
<1>1. \A r \in Receipts : claims[r].openedAt <= now /\ claims[r].openedAt \in Int
  BY DEF ReceiptInv, TypeOK, OmissionClaim
<1>2. now \in Int /\ now' \in Int
  BY DeploymentAssumption DEF ReceiptInv, TypeOK, BatchTypeOK
<1>3. ClaimsJustified'
  BY DEF ReceiptInv, ClaimsJustified
<1>4. \A r \in Receipts : claims'[r].openedAt <= now'
  BY <1>1, <1>2
<1>5. QED
  BY <1>3, <1>4 DEF ReceiptInv

LEMMA OpenReceipts ==
  ASSUME ReceiptInv, NEW s \in Signers, NEW r \in Receipts, OpenOmissionClaim(s, r)
  PROVE  ReceiptInv'
<1> DEFINE claim == [status |-> "Open", receiptSigner |-> s,
                     resolvingBatchRoot |-> NoRoot, openedAt |-> now,
                     resolvedAt |-> 0]
<1>1. /\ now > r.includeBy
      /\ <<s, r>> \in signatures
      /\ claims' = [claims EXCEPT ![r] = claim]
      /\ UNCHANGED <<now, batchVars, isReceiptSigner, voterVars>>
  BY DEF OpenOmissionClaim, Overdue, Verifies
<1>2. now \in Nat
  BY DeploymentAssumption DEF ReceiptInv, TypeOK, BatchTypeOK
<1>3. /\ claim \in OmissionClaim
      /\ claim.status = "Open" /\ claim.receiptSigner = s /\ claim.openedAt = now
  BY <1>2 DEF OmissionClaim, ClaimStatus
<1> HIDE DEF claim
<1>4. /\ claims' \in [Receipts -> OmissionClaim]
      /\ claims'[r] = claim
      /\ \A x \in Receipts : x # r => claims'[x] = claims[x]
  BY <1>1, <1>3 DEF ReceiptInv, TypeOK
<1>5. TypeOK' /\ LogIsChain'
  BY <1>1, <1>4 DEF ReceiptInv, TypeOK, BatchTypeOK, LogIsChain, batchVars, voterVars
<1>6. ClaimsJustified'
  <2>1. SUFFICES ASSUME NEW x \in Receipts, claims'[x].status # "None"
                 PROVE  /\ <<claims'[x].receiptSigner, x>> \in signatures
                        /\ claims'[x].openedAt > x.includeBy
                        /\ claims'[x].status = "Resolved" =>
                             /\ claims'[x].resolvedAt >= claims'[x].openedAt
                             /\ \E i \in DOMAIN batches :
                                  /\ batches[i].cidMerkleRoot =
                                       claims'[x].resolvingBatchRoot
                                  /\ <<batches[i].cidMerkleRoot, x.package>>
                                       \in Contains
    BY <1>1 DEF ClaimsJustified, batchVars, voterVars
  <2>2. CASE x = r
    BY <1>1, <1>3, <1>4, <2>2
  <2>3. CASE x # r
    BY <1>4, <2>1, <2>3 DEF ReceiptInv, ClaimsJustified
  <2>4. QED
    BY <2>2, <2>3
<1>7. \A x \in Receipts : claims'[x].openedAt <= now'
  <2>1. now' = now
    BY <1>1
  <2>2. QED
    BY <1>2, <1>3, <1>4, <2>1 DEF ReceiptInv
<1>8. QED
  BY <1>5, <1>6, <1>7 DEF ReceiptInv

LEMMA ResolveReceipts ==
  ASSUME ReceiptInv, NEW r \in Receipts, NEW root \in PackageRoots,
         ResolveWithInclusion(r, root)
  PROVE  ReceiptInv'
<1> DEFINE claim == [claims[r] EXCEPT !.status = "Resolved",
                                      !.resolvingBatchRoot = root,
                                      !.resolvedAt = now]
<1>1. /\ claims[r].status = "Open"
      /\ root \in isRootCommitted /\ <<root, r.package>> \in Contains
      /\ UNCHANGED <<now, batchVars, isReceiptSigner, voterVars>>
  BY DEF ResolveWithInclusion, Included
<1>2. claims[r] \in OmissionClaim /\ claims \in [Receipts -> OmissionClaim]
  BY DEF ReceiptInv, TypeOK
<1>3. claims' = [claims EXCEPT ![r] = claim]
  BY <1>2 DEF ResolveWithInclusion
<1>4. now \in Nat
  BY DeploymentAssumption DEF ReceiptInv, TypeOK, BatchTypeOK
<1>5. /\ claim \in OmissionClaim
      /\ claim.status = "Resolved" /\ claim.receiptSigner = claims[r].receiptSigner
      /\ claim.openedAt = claims[r].openedAt /\ claim.resolvedAt = now
      /\ claim.resolvingBatchRoot = root
  BY <1>2, <1>4 DEF OmissionClaim, ClaimStatus
<1> HIDE DEF claim
<1>6. /\ claims' \in [Receipts -> OmissionClaim]
      /\ claims'[r] = claim
      /\ \A x \in Receipts : x # r => claims'[x] = claims[x]
  BY <1>2, <1>3, <1>5
<1>7. TypeOK' /\ LogIsChain'
  BY <1>1, <1>6 DEF ReceiptInv, TypeOK, BatchTypeOK, LogIsChain, batchVars, voterVars
<1>8. \E i \in DOMAIN batches : batches[i].cidMerkleRoot = root
  BY <1>1 DEF ReceiptInv, LogIsChain
<1>9. /\ <<claims[r].receiptSigner, r>> \in signatures
      /\ claims[r].openedAt > r.includeBy
      /\ claims[r].openedAt <= now /\ claims[r].openedAt \in Nat
  BY <1>1, <1>2 DEF ReceiptInv, ClaimsJustified, OmissionClaim
<1>10. ClaimsJustified'
  <2>1. SUFFICES ASSUME NEW x \in Receipts, claims'[x].status # "None"
                 PROVE  /\ <<claims'[x].receiptSigner, x>> \in signatures
                        /\ claims'[x].openedAt > x.includeBy
                        /\ claims'[x].status = "Resolved" =>
                             /\ claims'[x].resolvedAt >= claims'[x].openedAt
                             /\ \E i \in DOMAIN batches :
                                  /\ batches[i].cidMerkleRoot =
                                       claims'[x].resolvingBatchRoot
                                  /\ <<batches[i].cidMerkleRoot, x.package>>
                                       \in Contains
    BY <1>1 DEF ClaimsJustified, batchVars, voterVars
  <2>2. CASE x = r
    BY <1>1, <1>4, <1>5, <1>6, <1>8, <1>9, <2>2
  <2>3. CASE x # r
    BY <1>6, <2>1, <2>3 DEF ReceiptInv, ClaimsJustified
  <2>4. QED
    BY <2>2, <2>3
<1>11. \A x \in Receipts : claims'[x].openedAt <= now'
  <2>1. now' = now
    BY <1>1
  <2>2. QED
    BY <1>5, <1>6, <1>9, <2>1 DEF ReceiptInv
<1>12. QED
  BY <1>7, <1>10, <1>11 DEF ReceiptInv

LEMMA NextReceipts == ReceiptInv /\ [Next]_vars => ReceiptInv'
<1>1. SUFFICES ASSUME ReceiptInv, [Next]_vars PROVE ReceiptInv'
  OBVIOUS
<1>2. LogInv /\ BatchTypeOK
  BY <1>1 DEF ReceiptInv, TypeOK, LogInv
<1>3. now \in Int
  BY <1>2, DeploymentAssumption DEF BatchTypeOK
<1>4. CASE BatchNext /\ UNCHANGED <<claimVars, voterVars>>
  <2>1. UNCHANGED <<isReceiptSigner, claims, signatures, held>>
    BY <1>4 DEF claimVars, voterVars
  <2>2. ASSUME NEW a \in Accounts, NEW r \in PackageRoots \cup {NoRoot},
               NEW p, NEW n \in NullifierRoots \cup {NoRoot},
               NEW inputs \in PublicInputs \cup {NoInputs},
               CommitBatch(a, r, p, n, inputs)
        PROVE  ReceiptInv'
    <3>1. LogInv'
      BY <1>2, <2>2, CommitLog
    <3>2. /\ \A i \in DOMAIN batches : i \in DOMAIN batches' /\ batches'[i] = batches[i]
      <4>1. /\ Len(batches) \in Nat /\ DOMAIN batches = 1..Len(batches)
            /\ DOMAIN batches' = 1..Len(batches) + 1
            /\ \A i \in 1..Len(batches) : batches'[i] = batches[i]
        BY <1>2, <2>2, CommitAppends
      <4>2. QED
        BY <4>1
    <3>3. now' >= now
      BY <1>3, <2>2 DEF CommitBatch
    <3>4. TypeOK'
      BY <1>1, <2>1, <3>1 DEF ReceiptInv, TypeOK, LogInv
    <3>5. QED
      BY <1>1, <2>1, <3>1, <3>2, <3>3, <3>4, KeptClaims DEF LogInv
  <2>3. ASSUME UNCHANGED <<latestNullifierRoot, batches, isRootCommitted>>,
               BatchTypeOK', now' >= now
        PROVE  ReceiptInv'
    <3>1. TypeOK' /\ LogIsChain'
      BY <1>1, <2>1, <2>3 DEF ReceiptInv, TypeOK, LogIsChain
    <3>2. QED
      BY <1>1, <2>1, <2>3, <3>1, KeptClaims
  <2>4. QED
    BY <1>2, <1>4, <2>2, <2>3, LogSteps
<1>5. ASSUME UNCHANGED <<now, batchVars, claims>>,
             isReceiptSigner' \in SUBSET Signers, held' \in SUBSET (Signers \X Receipts),
             signatures' \in SUBSET (Signers \X Receipts),
             signatures \subseteq signatures'
      PROVE  ReceiptInv'
  <2>1. TypeOK' /\ LogIsChain'
    BY <1>1, <1>5 DEF ReceiptInv, TypeOK, BatchTypeOK, LogIsChain, batchVars
  <2>2. now' >= now
    BY <1>3, <1>5
  <2>3. QED
    BY <1>1, <1>5, <2>1, <2>2, KeptClaims DEF batchVars
<1>6. /\ isReceiptSigner \in SUBSET Signers /\ held \in SUBSET (Signers \X Receipts)
      /\ signatures \in SUBSET (Signers \X Receipts)
  BY <1>1 DEF ReceiptInv, TypeOK
<1>7. ASSUME NEW s \in Signers, NEW authorized \in BOOLEAN,
             SetReceiptSigner(s, authorized)
      PROVE  ReceiptInv'
  BY <1>5, <1>6, <1>7 DEF SetReceiptSigner, voterVars
<1>8. ASSUME NEW s \in Signers, NEW r \in Receipts, Sign(s, r)
      PROVE  ReceiptInv'
  BY <1>5, <1>6, <1>8 DEF Sign, claimVars
<1>9. ASSUME NEW s \in Signers, NEW r \in Receipts, AcceptReceipt(s, r)
      PROVE  ReceiptInv'
  BY <1>5, <1>6, <1>9 DEF AcceptReceipt, claimVars
<1>10. CASE UNCHANGED vars
  BY <1>5, <1>6, <1>10 DEF vars, claimVars, voterVars
<1>11. QED
  BY <1>1, <1>4, <1>7, <1>8, <1>9, <1>10, OpenReceipts, ResolveReceipts DEF Next

LEMMA ReceiptInvAlways == Spec => []ReceiptInv
BY InitReceipts, NextReceipts, PTL DEF Spec

(* The log, the claims and the signatures keep their types. *)
THEOREM ReceiptsTypeCorrect == Spec => []TypeOK
<1>1. ReceiptInv => TypeOK
  BY DEF ReceiptInv
<1>2. QED
  BY <1>1, ReceiptInvAlways, PTL

(* Both ways to submit extend one chain, and the committed roots are       *)
(* exactly those of the log, each once.                                    *)
THEOREM LogStaysChain == Spec => []LogIsChain
<1>1. ReceiptInv => LogIsChain
  BY DEF ReceiptInv
<1>2. QED
  BY <1>1, ReceiptInvAlways, PTL

(* A claim accuses a real signature after its deadline, a resolution names *)
(* a batch that contains the package.                                      *)
THEOREM ClaimsStayJustified == Spec => []ClaimsJustified
<1>1. ReceiptInv => ClaimsJustified
  BY DEF ReceiptInv
<1>2. QED
  BY <1>1, ReceiptInvAlways, PTL

(* Nothing reopens, retargets or deletes a claim. *)
THEOREM EvidenceStays == Spec => ClaimsArePermanent
<1>1. ASSUME ReceiptInv, [Next]_vars, NEW r \in Receipts
      PROVE  /\ claims[r].status # "None" =>
                  /\ claims'[r].status # "None"
                  /\ claims'[r].receiptSigner = claims[r].receiptSigner
                  /\ claims'[r].openedAt = claims[r].openedAt
             /\ claims[r].status = "Resolved" => claims'[r] = claims[r]
  <2>1. CASE UNCHANGED claims
    BY <2>1
  <2>2. ASSUME NEW s \in Signers, NEW x \in Receipts, OpenOmissionClaim(s, x)
        PROVE  claims[r].status # "None" => claims'[r] = claims[r]
    BY <1>1, <2>2 DEF OpenOmissionClaim, Unclaimed, ReceiptInv, TypeOK
  <2>3. ASSUME NEW x \in Receipts, NEW root \in PackageRoots,
               ResolveWithInclusion(x, root)
        PROVE  /\ claims[r].status = "Resolved" => claims'[r] = claims[r]
               /\ claims[r].status # "None" =>
                    /\ claims'[r].status # "None"
                    /\ claims'[r].receiptSigner = claims[r].receiptSigner
                    /\ claims'[r].openedAt = claims[r].openedAt
    <3>1. /\ claims \in [Receipts -> OmissionClaim]
          /\ claims[x].status = "Open"
          /\ claims' = [claims EXCEPT ![x] =
                          [claims[x] EXCEPT !.status = "Resolved",
                                            !.resolvingBatchRoot = root,
                                            !.resolvedAt = now]]
      BY <1>1, <2>3 DEF ResolveWithInclusion, ReceiptInv, TypeOK
    <3>2. CASE x = r
      <4>1. claims[r] \in OmissionClaim
        BY <3>1
      <4>2. QED
        BY <3>1, <3>2, <4>1 DEF OmissionClaim
    <3>3. CASE x # r
      BY <3>1, <3>3
    <3>4. QED
      BY <3>2, <3>3
  <2>4. \/ UNCHANGED claims
        \/ \E s \in Signers, x \in Receipts : OpenOmissionClaim(s, x)
        \/ \E x \in Receipts, root \in PackageRoots : ResolveWithInclusion(x, root)
    BY <1>1 DEF Next, vars, claimVars, SetReceiptSigner, Sign, AcceptReceipt
  <2>5. QED
    BY <2>1, <2>2, <2>3, <2>4
<1>2. ReceiptInv /\ [Next]_vars =>
        [\A r \in Receipts :
           /\ claims[r].status # "None" =>
                /\ claims'[r].status # "None"
                /\ claims'[r].receiptSigner = claims[r].receiptSigner
                /\ claims'[r].openedAt = claims[r].openedAt
           /\ claims[r].status = "Resolved" => claims'[r] = claims[r]]_vars
  BY <1>1
<1>3. QED
  BY <1>2, ReceiptInvAlways, PTL DEF Spec, ClaimsArePermanent
==============================================================================
