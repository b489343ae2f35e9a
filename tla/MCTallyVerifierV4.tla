------------------------- MODULE MCTallyVerifierV4 -------------------------
(***************************************************************************)
(* TLC instances of the settlement and the result of one constituency.     *)
(***************************************************************************)
EXTENDS TallyVerifierV4, TLC

CONSTANTS MaxBallots,  \* bound: the largest ballotCount anybody submits
          FirstRoot,   \* the root valid batches never go back to
          Forged       \* the manifest of the batches that do

(* Every batch over the manifests and roots, malformed ones included. *)
MCBatches == [manifestDigest        : Manifests,
              previousNullifierRoot : Roots \cup {NoRoot},
              nullifierRoot         : Roots \cup {NoRoot},
              ballotCount           : 0..MaxBallots]

(* Valid transitions only add nullifiers, so no valid one leads back to    *)
(* FirstRoot once it was left.  An invalid batch, Forged, can claim to,    *)
(* and may claim an extra ballot with it.                                  *)
OneWay(b) == b.previousNullifierRoot = NoRoot \/ b.nullifierRoot # FirstRoot

MCOneWayBatches ==
  {b \in MCBatches :
     OneWay(b) /\ b.manifestDigest # Forged /\ b.ballotCount \in {0, 1}}

MCRaceBatches ==
  MCOneWayBatches \cup
  {b \in MCBatches :
     ~OneWay(b) /\ b.manifestDigest = Forged /\ b.ballotCount \in {1, 2}}

RaceSymmetry ==
  Permutations(Manifests \ {Forged}) \cup Permutations(Candidates)
==============================================================================
