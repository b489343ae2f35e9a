---------------------------- MODULE MCContracts ----------------------------
(***************************************************************************)
(* TLC instance of the contracts whose administrators may act during an    *)
(* election: the V4 verifier registry, V1 and V2 registration and voting,  *)
(* V3 eligible voting.  None of the three calls another, so a behaviour    *)
(* exercises one of them.                                                  *)
(***************************************************************************)
EXTENDS VerifierRegistryV4, VotingContracts

VARIABLE part   \* the contracts exercised

Registry(step) == part = "registry" /\ step /\ UNCHANGED <<contractVars, part>>

V1(step) == part = "V1" /\ step /\ UNCHANGED <<vars, part>>

V3(step) == part = "V3" /\ step /\ UNCHANGED <<vars, part>>

ContractsNext ==
  \/ \E s \in Accounts, t \in VerifierTypes, v \in Versions,
        c \in Contracts \cup Accounts \cup {NoVerifier} :
       Registry(RegisterVerifier(s, t, v, c))
  \/ \E s \in Accounts, t \in VerifierTypes : Registry(FreezeVerifierType(s, t))
  \/ \E s, a \in Accounts : Registry(GrantRole(s, a))
  \/ \E s, a \in Accounts : Registry(DropRole(s, a))
  \/ \E i \in Identities, k \in Keys \cup {Nothing} : V1(Register(i, k))
  \/ \E i \in Identities, k \in Keys : V1(RegisterWithProof(i, k))
  \/ \E set \in BOOLEAN : V1(SetEligibilityVerifier(set))
  \/ \E s \in Keys, i \in Identities, n \in bytes32Values, d \in Digests :
       V1(SubmitBallot(s, i, n, d))
  \/ \E s \in Keys, i \in Identities, n \in bytes32Values, d \in Digests :
       V1(SubmitBallotWithProof(s, i, n, d))
  \/ \E set \in BOOLEAN : V1(SetBallotProofVerifier(set))
  \/ \E r \in Roots : V3(UpdateRoot(r))
  \/ V3(FreezeRoot)
  \/ \E r \in Roots, n \in bytes32Values, d \in Digests :
       V3(SubmitEligibleBallot(r, n, d))
  \/ \E set \in BOOLEAN : V3(SetVerifier(set))

PartsInit == Init /\ ContractsInit /\ part \in {"registry", "V1", "V3"}

ContractsSpec ==
  /\ PartsInit
  /\ [][ContractsNext]_<<vars, contractVars, part>>

(* The last credential joins the roll with the second root. *)
MCProvable == {<<1, "d1">>, <<1, "d2">>, <<2, "d1">>}

MCMember == {<<"r1", 1, "d1">>, <<"r2", 1, "d1">>, <<"r2", 1, "d2">>,
             <<"r2", 2, "d1">>}

MCEligible == {<<"i1", "k1">>, <<"i2", "k1">>, <<"i2", "k2">>}
==============================================================================
