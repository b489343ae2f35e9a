--------------------------- MODULE BatchCommitment ---------------------------
(***************************************************************************)
(* The V1-V3 batch log (contracts/BatchCommitment.sol): authorized         *)
(* batchers commit batches on trust, anybody with a proof the configured   *)
(* verifier accepts; there is no challenge and no way back.                *)
(*                                                                         *)
(* Abstracted: a package root is a value, the manifest digest (only        *)
(* checked to be nonzero) and batchSize are left out.                      *)
(***************************************************************************)
EXTENDS Integers, Sequences, FiniteSets

CONSTANTS
  Accounts,         \* senders, some of them batchers
  InitialBatcher,
  PackageRoots,     \* nonzero cidMerkleRoots
  NullifierRoots,   \* nonzero nullifier roots
  NoRoot,           \* bytes32(0)
  BatchVerifiers,   \* deployed batch verifiers
  NoVerifier,       \* address(0)
  PublicInputs,     \* nonzero batchPublicInputsHashes somebody has a proof for
  NoInputs,         \* bytes32(0), the hash of the trusted path
  Accepts,          \* <<verifier, public inputs>> for which verify returns true
                    \* (of the caller's proof; it may hold of NoInputs too)
  MaxTime           \* bound: the clock stops here

ASSUME DeploymentAssumption ==
  /\ InitialBatcher \in Accounts
  /\ NoRoot \notin PackageRoots \cup NullifierRoots
  /\ NoVerifier \notin BatchVerifiers
  /\ NoInputs \notin PublicInputs
  /\ Accepts \subseteq BatchVerifiers \X (PublicInputs \cup {NoInputs})
  /\ MaxTime \in Nat

VARIABLES
  now,                   \* block.timestamp
  latestNullifierRoot,
  batches,               \* batch index -> Batch; batchCount is the length
  isRootCommitted,
  isBatcher,
  batchProofVerifier

batchVars == <<latestNullifierRoot, batches, isRootCommitted, isBatcher,
               batchProofVerifier>>

Batch == [cidMerkleRoot         : PackageRoots,
          previousNullifierRoot : NullifierRoots \cup {NoRoot},
          nullifierRoot         : NullifierRoots,
          batchPublicInputsHash : PublicInputs \cup {NoInputs},
          submittedAt           : Nat,
          batcher               : Accounts]

BatchInit ==
  /\ now = 0
  /\ latestNullifierRoot = NoRoot
  /\ batches = << >>
  /\ isRootCommitted = {}
  /\ isBatcher = {InitialBatcher}
  /\ batchProofVerifier \in BatchVerifiers \cup {NoVerifier}

-----------------------------------------------------------------------------
ContinuesAnything(previous) == TRUE  \* seeded fault: NullifierRootMismatch dropped

Continues(previous) == previous = latestNullifierRoot

Uncommitted(root) == root \notin isRootCommitted

WellFormed(root, next) == root # NoRoot /\ next # NoRoot

(* _commitBatch; nothing keeps the nullifier root from staying the same.   *)
CommitBatch(sender, root, previous, next, inputs) ==
  /\ WellFormed(root, next)
  /\ Continues(previous)
  /\ Uncommitted(root)
  /\ batches' = Append(batches,
                  [cidMerkleRoot         |-> root,
                   previousNullifierRoot |-> previous,
                   nullifierRoot         |-> next,
                   batchPublicInputsHash |-> inputs,
                   submittedAt           |-> now,
                   batcher               |-> sender])
  /\ latestNullifierRoot' = next
  /\ isRootCommitted' = isRootCommitted \cup {root}
  /\ UNCHANGED <<now, isBatcher, batchProofVerifier>>

SubmitBatch(sender, root, previous, next) ==
  /\ sender \in isBatcher
  /\ CommitBatch(sender, root, previous, next, NoInputs)

SubmitBatchWithProof(sender, root, previous, next, inputs) ==
  /\ inputs # NoInputs
  /\ <<batchProofVerifier, inputs>> \in Accepts
  /\ CommitBatch(sender, root, previous, next, inputs)

(* setBatcher, by the owner *)
SetBatcher(account, authorized) ==
  /\ isBatcher' = IF authorized THEN isBatcher \cup {account}
                                ELSE isBatcher \ {account}
  /\ UNCHANGED <<now, latestNullifierRoot, batches, isRootCommitted,
                 batchProofVerifier>>

(* setBatchProofVerifier, by the owner *)
SetBatchProofVerifier(verifier) ==
  /\ batchProofVerifier' = verifier
  /\ UNCHANGED <<now, latestNullifierRoot, batches, isRootCommitted, isBatcher>>

Tick ==
  /\ now < MaxTime
  /\ now' = now + 1
  /\ UNCHANGED batchVars

BatchNext ==
  \/ \E a \in Accounts, r \in PackageRoots \cup {NoRoot},
        p, n \in NullifierRoots \cup {NoRoot} :
       \/ SubmitBatch(a, r, p, n)
       \/ \E inputs \in PublicInputs \cup {NoInputs} :
            SubmitBatchWithProof(a, r, p, n, inputs)
  \/ \E a \in Accounts, authorized \in BOOLEAN : SetBatcher(a, authorized)
  \/ \E v \in BatchVerifiers \cup {NoVerifier} : SetBatchProofVerifier(v)
  \/ Tick

BatchSpec == BatchInit /\ [][BatchNext]_<<now, batchVars>>

-----------------------------------------------------------------------------
(* Properties *)

BatchTypeOK ==
  /\ now \in 0..MaxTime
  /\ latestNullifierRoot \in NullifierRoots \cup {NoRoot}
  /\ batches \in Seq(Batch)
  /\ isRootCommitted \in SUBSET PackageRoots
  /\ isBatcher \in SUBSET Accounts
  /\ batchProofVerifier \in BatchVerifiers \cup {NoVerifier}

(* The log is one nullifier chain over both submission paths, whatever     *)
(* batchers race and whatever the owner reconfigures meanwhile, and the    *)
(* roots a claim may be resolved against are exactly those of the log,     *)
(* each committed by one batch only.                                       *)
LogIsChain ==
  /\ \A i \in DOMAIN batches :
       batches[i].previousNullifierRoot =
         IF i = 1 THEN NoRoot ELSE batches[i - 1].nullifierRoot
  /\ latestNullifierRoot =
       IF batches = << >> THEN NoRoot ELSE batches[Len(batches)].nullifierRoot
  /\ isRootCommitted = {batches[i].cidMerkleRoot : i \in DOMAIN batches}
  /\ \A i, j \in DOMAIN batches :
       batches[i].cidMerkleRoot = batches[j].cidMerkleRoot => i = j
==============================================================================
