--------------------- MODULE MCNationalElectionIndexV4 ---------------------
(***************************************************************************)
(* TLC instances of NationalElectionIndexV4.                               *)
(***************************************************************************)
EXTENDS NationalElectionIndexV4

CONSTANTS d1, d2, d3   \* three deployments, the last two of one constituency

MCConstituencyOf == [d \in Deployments |-> IF d = d1 THEN "north" ELSE "south"]
==============================================================================
