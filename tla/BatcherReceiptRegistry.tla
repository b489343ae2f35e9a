------------------------ MODULE BatcherReceiptRegistry ------------------------
(***************************************************************************)
(* Intake receipts and omission claims                                     *)
(* (contracts/BatcherReceiptRegistry.sol) over the batch log they refer    *)
(* to.  A receipt is signed off chain; a claim is opened with it after its *)
(* deadline and resolved by a Merkle path to a committed package root.     *)
(*                                                                         *)
(* Abstracted: a receipt is its own EIP-712 digest, its package fields are *)
(* the package leaf; a Merkle path from a leaf to a root exists or not.    *)
(***************************************************************************)
EXTENDS BatchCommitment

CONSTANTS
  Signers,        \* keys that sign receipts, authorized or not
  InitialSigner,
  Packages,       \* nonzero package leaf hashes
  Receipts,       \* receipts for this election somebody signs
  Contains,       \* <<package root, package leaf>> connected by a Merkle path
  NoSigner

IntakeReceipt == [package : Packages, issuedAt : Nat, includeBy : Nat]

ASSUME ReceiptAssumption ==
  /\ InitialSigner \in Signers
  /\ NoSigner \notin Signers
  /\ Receipts \subseteq IntakeReceipt
  /\ Contains \subseteq PackageRoots \X Packages

VARIABLES
  isReceiptSigner,
  claims,           \* receipt -> OmissionClaim, status None where nothing is written
  signatures,       \* <<signer, receipt>> pairs that exist off chain
  held              \* those a voter checked with verifyReceipt when it got them

claimVars == <<isReceiptSigner, claims>>
voterVars == <<signatures, held>>
vars == <<now, batchVars, claimVars, voterVars>>

ClaimStatus == {"None", "Open", "Resolved"}

OmissionClaim == [status             : ClaimStatus,
                  receiptSigner      : Signers \cup {NoSigner},
                  resolvingBatchRoot : PackageRoots \cup {NoRoot},
                  openedAt           : Nat,
                  resolvedAt         : Nat]

NoClaim == [status |-> "None", receiptSigner |-> NoSigner,
            resolvingBatchRoot |-> NoRoot, openedAt |-> 0, resolvedAt |-> 0]

Init ==
  /\ BatchInit
  /\ isReceiptSigner = {InitialSigner}
  /\ claims = [r \in Receipts |-> NoClaim]
  /\ signatures = {}
  /\ held = {}

-----------------------------------------------------------------------------
(* _validateReceipt *)
Valid(r) == r.issuedAt # 0 /\ r.includeBy > r.issuedAt

(* verifyReceipt *)
Verifies(signer, r) ==
  /\ Valid(r)
  /\ <<signer, r>> \in signatures
  /\ signer \in isReceiptSigner

(* setReceiptSigner, by the owner *)
SetReceiptSigner(signer, authorized) ==
  /\ isReceiptSigner' = IF authorized THEN isReceiptSigner \cup {signer}
                                      ELSE isReceiptSigner \ {signer}
  /\ UNCHANGED <<now, batchVars, claims, voterVars>>

(* Off chain: anybody may sign anything, and a voter keeps a receipt that  *)
(* verifyReceipt accepts.                                                  *)
Sign(signer, r) ==
  /\ signatures' = signatures \cup {<<signer, r>>}
  /\ UNCHANGED <<now, batchVars, claimVars, held>>

AcceptReceipt(signer, r) ==
  /\ Verifies(signer, r)
  /\ now <= r.includeBy
  /\ held' = held \cup {<<signer, r>>}
  /\ UNCHANGED <<now, batchVars, claimVars, signatures>>

OverdueAtDeadline(r) == now >= r.includeBy  \* seeded fault: < instead of <=

Overdue(r) == now > r.includeBy

UnclaimedUnchecked(r) == TRUE  \* seeded fault: ClaimAlreadyExists dropped

Unclaimed(r) == claims[r].status = "None"

OpenOmissionClaim(signer, r) ==
  /\ Overdue(r)
  /\ Verifies(signer, r)
  /\ Unclaimed(r)
  /\ claims' = [claims EXCEPT ![r] =
                  [status |-> "Open", receiptSigner |-> signer,
                   resolvingBatchRoot |-> NoRoot, openedAt |-> now,
                   resolvedAt |-> 0]]
  /\ UNCHANGED <<now, batchVars, isReceiptSigner, voterVars>>

IncludedBeforeClaim(r, root) ==  \* seeded fault: late batches do not count
  /\ <<root, r.package>> \in Contains
  /\ \E i \in DOMAIN batches : /\ batches[i].cidMerkleRoot = root
                              /\ batches[i].submittedAt < claims[r].openedAt

Included(r, root) == root \in isRootCommitted /\ <<root, r.package>> \in Contains

(* resolveWithInclusion, by anyone *)
ResolveWithInclusion(r, root) ==
  /\ claims[r].status = "Open"
  /\ Included(r, root)
  /\ claims' = [claims EXCEPT ![r].status = "Resolved",
                              ![r].resolvingBatchRoot = root,
                              ![r].resolvedAt = now]
  /\ UNCHANGED <<now, batchVars, isReceiptSigner, voterVars>>

Next ==
  \/ BatchNext /\ UNCHANGED <<claimVars, voterVars>>
  \/ \E s \in Signers, authorized \in BOOLEAN : SetReceiptSigner(s, authorized)
  \/ \E s \in Signers, r \in Receipts : \/ Sign(s, r)
                                        \/ AcceptReceipt(s, r)
                                        \/ OpenOmissionClaim(s, r)
  \/ \E r \in Receipts, root \in PackageRoots : ResolveWithInclusion(r, root)

Spec == Init /\ [][Next]_vars

(* Whoever wants a claim gone can resolve it; nobody has to open or        *)
(* include anything.                                                       *)
FairSpec ==
  Spec /\ \A r \in Receipts :
            WF_vars(\E root \in PackageRoots : ResolveWithInclusion(r, root))

-----------------------------------------------------------------------------
(* Properties *)

TypeOK ==
  /\ BatchTypeOK
  /\ isReceiptSigner \in SUBSET Signers
  /\ claims \in [Receipts -> OmissionClaim]
  /\ signatures \in SUBSET (Signers \X Receipts)
  /\ held \in SUBSET (Signers \X Receipts)

(* A claim accuses a signer that did sign the receipt, of a promise whose  *)
(* whole period was over; a resolved one names a batch of the log that     *)
(* contains the package.                                                   *)
ClaimsJustified ==
  \A r \in Receipts : LET c == claims[r] IN
    c.status # "None" =>
      /\ <<c.receiptSigner, r>> \in signatures
      /\ c.openedAt > r.includeBy
      /\ c.status = "Resolved" =>
           /\ c.resolvedAt >= c.openedAt
           /\ \E i \in DOMAIN batches :
                /\ batches[i].cidMerkleRoot = c.resolvingBatchRoot
                /\ <<batches[i].cidMerkleRoot, r.package>> \in Contains

(* Public evidence stays: no later signature, revocation or batch reopens, *)
(* retargets or deletes a claim, and a resolution is final.                *)
ClaimsArePermanent ==
  [][\A r \in Receipts :
       /\ claims[r].status # "None" =>
            /\ claims'[r].status # "None"
            /\ claims'[r].receiptSigner = claims[r].receiptSigner
            /\ claims'[r].openedAt = claims[r].openedAt
       /\ claims[r].status = "Resolved" => claims'[r] = claims[r]]_vars

(* "Anyone can resolve that claim with a valid Merkle path against a root  *)
(* already committed": a claim on a package that is in the log is resolved *)
(* in the end, however late the batch came.                                *)
InclusionResolves ==
  \A r \in Receipts :
    (claims[r].status = "Open"
       /\ \E root \in isRootCommitted : <<root, r.package>> \in Contains)
      ~> claims[r].status = "Resolved"

(* docs/architecture.md: "After the deadline, anyone holding the receipt   *)
(* can open a public omission claim": a receipt that verified when it was  *)
(* handed out still verifies when its deadline is over.                    *)
HeldReceiptsClaimable ==
  \A signer \in Signers, r \in Receipts :
    (<<signer, r>> \in held /\ Overdue(r) /\ Unclaimed(r)) => Verifies(signer, r)
==============================================================================
