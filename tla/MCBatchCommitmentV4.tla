------------------------ MODULE MCBatchCommitmentV4 ------------------------
(***************************************************************************)
(* TLC instances of BatchCommitmentV4 for its liveness.                    *)
(***************************************************************************)
EXTENDS BatchCommitmentV4

CONSTANT MaxBallots   \* bound: the largest ballotCount anybody submits

(* Every batch over the manifests and roots, malformed ones included. *)
MCBatches == [manifestDigest        : Manifests,
              previousNullifierRoot : Roots \cup {NoRoot},
              nullifierRoot         : Roots \cup {NoRoot},
              ballotCount           : 0..MaxBallots]

(* One ballot is the honest count; the batches that claim more are the     *)
(* ones a fraud proof can be given for.                                    *)
MCValidBatches == {b \in MCBatches : b.ballotCount = 1}
==============================================================================
