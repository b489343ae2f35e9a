-------------------------- MODULE MCRecursiveProver --------------------------
(***************************************************************************)
(* TLC instances of RecursiveProver: m1 and m2 share one job id, so they   *)
(* race to register it; the engine may fail on or not fully prove any      *)
(* manifest but proves m3 whenever it answers with a proof of it.          *)
(***************************************************************************)
EXTENDS RecursiveProver

CONSTANTS m1, m2, m3, m4, j1, j2, j3

MCIdOf == (m1 :> j1) @@ (m2 :> j1) @@ (m3 :> j2) @@ (m4 :> j3)

Artifact(m, proved) == [err |-> FALSE, manifest |-> m, recursivelyProved |-> proved]

MCAnswers ==
  {[err |-> TRUE]} \cup {Artifact(m, proved) : m \in Manifests, proved \in BOOLEAN}

MCEngine ==
  [m \in Manifests |->
     {[err |-> TRUE], NoAnswer, Artifact(m, TRUE)} \cup
       (IF m = m3 THEN {} ELSE {Artifact(m, FALSE)})]
==============================================================================
