--------------------------- MODULE Contracts_proofs ---------------------------
(***************************************************************************)
(* The safety properties of the verifier registry and of the V1 to V3      *)
(* voting contracts, for every value of the constants.                     *)
(***************************************************************************)
EXTENDS VerifierRegistryV4, VotingContracts, TLAPS

(* The registry *)

LEMMA RegistryTypes == TypeOK /\ [Next]_vars => TypeOK'
<1>1. SUFFICES ASSUME TypeOK, [Next]_vars PROVE TypeOK'
  OBVIOUS
<1>2. ASSUME NEW s \in Accounts, NEW t \in VerifierTypes, NEW v \in Versions,
             NEW c \in Contracts \cup Accounts \cup {NoVerifier},
             RegisterVerifier(s, t, v, c)
      PROVE  TypeOK'
  <2>1. c \in Contracts \cup {NoVerifier}
    BY <1>2 DEF RegisterVerifier, HasCode
  <2>2. verifiers' \in [VerifierTypes \X Versions -> Contracts \cup {NoVerifier}]
    BY <1>1, <1>2, <2>1 DEF RegisterVerifier, TypeOK
  <2>3. QED
    BY <1>1, <1>2, <2>2 DEF RegisterVerifier, TypeOK
<1>3. ASSUME NEW s \in Accounts, NEW t \in VerifierTypes, FreezeVerifierType(s, t)
      PROVE  TypeOK'
  BY <1>1, <1>3 DEF FreezeVerifierType, TypeOK
<1>4. ASSUME NEW s \in Accounts, NEW a \in Accounts, GrantRole(s, a) \/ DropRole(s, a)
      PROVE  TypeOK'
  BY <1>1, <1>4 DEF GrantRole, DropRole, TypeOK
<1>5. CASE UNCHANGED vars
  BY <1>1, <1>5 DEF vars, TypeOK
<1>6. QED
  BY <1>1, <1>2, <1>3, <1>4, <1>5 DEF Next

(* The roles are held by accounts, and a registered verifier is an address *)
(* with code.                                                              *)
THEOREM RegistryTypeCorrect == Spec => []TypeOK
<1>1. Init => TypeOK
  BY GovernanceAssumption DEF Init, TypeOK
<1>2. QED
  BY <1>1, RegistryTypes, PTL DEF Spec

(* Registration writes an empty entry of a type that is not frozen, and    *)
(* nothing else writes at all.                                             *)
LEMMA RegistryWrites ==
  ASSUME TypeOK, [Next]_vars, NEW t \in VerifierTypes, NEW v \in Versions,
         Available(t, v) \/ t \in isVerifierTypeFrozen
  PROVE  verifiers'[<<t, v>>] = verifiers[<<t, v>>]
<1>1. ASSUME NEW s \in Accounts, NEW t1 \in VerifierTypes, NEW v1 \in Versions,
             NEW c \in Contracts \cup Accounts \cup {NoVerifier},
             RegisterVerifier(s, t1, v1, c)
      PROVE  verifiers'[<<t, v>>] = verifiers[<<t, v>>]
  <2>1. <<t, v>> # <<t1, v1>>
    BY <1>1 DEF RegisterVerifier, Unregistered, NotFrozen, Available
  <2>2. QED
    BY <1>1, <2>1 DEF RegisterVerifier, TypeOK
<1>2. CASE UNCHANGED verifiers
  BY <1>2
<1>3. QED
  BY <1>1, <1>2 DEF Next, vars, FreezeVerifierType, GrantRole, DropRole

(* A version that resolves to a verifier does so for ever, and a frozen    *)
(* type gains none, whatever roles are granted or dropped.                 *)
THEOREM VersionsPinned == Spec => PinnedVersions
<1>1. TypeOK /\ [Next]_vars =>
        [\A t \in VerifierTypes, v \in Versions :
           (Available(t, v) \/ t \in isVerifierTypeFrozen)
             => verifiers'[<<t, v>>] = verifiers[<<t, v>>]]_vars
  BY RegistryWrites
<1>2. QED
  BY <1>1, RegistryTypeCorrect, PTL DEF Spec, PinnedVersions

-----------------------------------------------------------------------------
(* V1 and V2: registration and ballots *)

BallotEvent == [sender : Keys, identity : Identities,
                nullifier : bytes32Values, digest : Digests]

BallotTypes ==
  /\ votingKeys \in [Identities -> Keys \cup {Nothing}]
  /\ isNullifierUsed \in SUBSET bytes32Values
  /\ DOMAIN ballotPublicInputsHashOf = isNullifierUsed
  /\ ballots \in Seq(BallotEvent)

(* Every used nullifier has one ballot; what is recorded beside it is      *)
(* nothing, or its proof's digest for the canonical form of a nullifier.   *)
NullifiersUsed ==
  /\ \A i \in DOMAIN ballots : ballots[i].nullifier \in isNullifierUsed
  /\ \A i, j \in DOMAIN ballots :
       ballots[i].nullifier = ballots[j].nullifier => i = j
  /\ \A i \in DOMAIN ballots :
       LET recorded == ballotPublicInputsHashOf[ballots[i].nullifier]
       IN  recorded # "zero" =>
             recorded = ballots[i].digest /\ Canonical(ballots[i].nullifier)

BallotInv == BallotTypes /\ OneKeyPerIdentity /\ NullifiersUsed

LEMMA InitBallots == ContractsInit => BallotInv
<1>1. SUFFICES ASSUME ContractsInit PROVE BallotInv
  OBVIOUS
<1>2. BallotTypes /\ NullifiersUsed
  BY <1>1 DEF ContractsInit, BallotTypes, NullifiersUsed
<1>3. ToSet(ballots) = {}
  BY <1>1 DEF ContractsInit, ToSet
<1>4. OneKeyPerIdentity
  BY <1>1, <1>3 DEF ContractsInit, OneKeyPerIdentity
<1>5. QED
  BY <1>2, <1>4 DEF BallotInv

LEMMA RegisterBallots ==
  ASSUME BallotInv, NEW i \in Identities, NEW k \in Keys \cup {Nothing},
         _register(i, k)
  PROVE  BallotInv'
<1>1. /\ k \in Keys /\ k # Nothing
      /\ votingKeys[i] = Nothing
      /\ k \notin isVotingKeyRegistered
      /\ votingKeys' = [votingKeys EXCEPT ![i] = k]
      /\ isVotingKeyRegistered' = isVotingKeyRegistered \cup {k}
      /\ UNCHANGED ballotVars
  BY DEF _register, NewKey
<1>2. BallotTypes' /\ NullifiersUsed'
  BY <1>1 DEF BallotInv, BallotTypes, NullifiersUsed, ballotVars
<1>3. /\ votingKeys'[i] = k
      /\ \A x \in Identities : x # i => votingKeys'[x] = votingKeys[x]
  BY <1>1 DEF BallotInv, BallotTypes
<1>4. \A x \in Identities : votingKeys[x] # k
  BY <1>1 DEF BallotInv, OneKeyPerIdentity
<1>5. isVotingKeyRegistered' = {votingKeys'[x] : x \in Identities} \ {Nothing}
  BY <1>1, <1>3 DEF BallotInv, OneKeyPerIdentity
<1>6. \A x, y \in Identities :
        votingKeys'[x] = votingKeys'[y] /\ votingKeys'[x] # Nothing => x = y
  BY <1>3, <1>4 DEF BallotInv, OneKeyPerIdentity
<1>7. \A b \in ToSet(ballots') : votingKeys'[b.identity] = b.sender
  <2>1. SUFFICES ASSUME NEW n \in DOMAIN ballots
                 PROVE  votingKeys'[ballots[n].identity] = ballots[n].sender
    BY <1>1 DEF ToSet, ballotVars
  <2>2. ballots[n] \in BallotEvent
    BY DEF BallotInv, BallotTypes
  <2>3. votingKeys[ballots[n].identity] = ballots[n].sender
    BY DEF BallotInv, OneKeyPerIdentity, ToSet
  <2>4. ballots[n].identity # i
    BY <1>1, <2>2, <2>3, ContractsAssumption DEF BallotEvent
  <2>5. QED
    BY <1>3, <2>2, <2>3, <2>4 DEF BallotEvent
<1>8. QED
  BY <1>2, <1>5, <1>6, <1>7 DEF BallotInv, OneKeyPerIdentity

(* A committed ballot is the last one, and what it writes is new.          *)
LEMMA CommitAppends ==
  ASSUME BallotInv, NEW s \in Keys, NEW i \in Identities, NEW n \in bytes32Values,
         NEW d \in Digests, NEW h, _commitBallot(s, i, n, d, h)
  PROVE  /\ BallotTypes'
         /\ Len(ballots) \in Nat
         /\ DOMAIN ballots = 1..Len(ballots)
         /\ DOMAIN ballots' = 1..Len(ballots) + 1
         /\ \A x \in DOMAIN ballots : ballots'[x] = ballots[x]
         /\ ballots'[Len(ballots) + 1] =
              [sender |-> s, identity |-> i, nullifier |-> n, digest |-> d]
         /\ n \notin isNullifierUsed
         /\ isNullifierUsed' = isNullifierUsed \cup {n}
         /\ ballotPublicInputsHashOf'[n] = h
         /\ \A x \in isNullifierUsed :
              ballotPublicInputsHashOf'[x] = ballotPublicInputsHashOf[x]
         /\ UNCHANGED registryVars
<1> DEFINE event == [sender |-> s, identity |-> i, nullifier |-> n, digest |-> d]
<1>1. /\ ballots' = Append(ballots, event)
      /\ n \notin isNullifierUsed
      /\ isNullifierUsed' = isNullifierUsed \cup {n}
      /\ ballotPublicInputsHashOf' =
           [x \in isNullifierUsed' |-> IF x = n THEN h ELSE ballotPublicInputsHashOf[x]]
      /\ UNCHANGED registryVars
  BY DEF _commitBallot, Unused
<1>2. event \in BallotEvent /\ ballots \in Seq(BallotEvent)
  BY DEF BallotEvent, BallotInv, BallotTypes
<1> HIDE DEF event
<1>3. /\ ballots' \in Seq(BallotEvent)
      /\ Len(ballots) \in Nat
      /\ DOMAIN ballots = 1..Len(ballots)
      /\ DOMAIN ballots' = 1..Len(ballots) + 1
      /\ \A x \in DOMAIN ballots : ballots'[x] = ballots[x]
      /\ ballots'[Len(ballots) + 1] = event
  BY <1>1, <1>2
<1>4. /\ ballotPublicInputsHashOf'[n] = h
      /\ \A x \in isNullifierUsed :
           ballotPublicInputsHashOf'[x] = ballotPublicInputsHashOf[x]
      /\ DOMAIN ballotPublicInputsHashOf' = isNullifierUsed'
  BY <1>1
<1>5. BallotTypes'
  BY <1>1, <1>3, <1>4 DEF BallotInv, BallotTypes, registryVars
<1>6. QED
  BY <1>1, <1>3, <1>4, <1>5 DEF event

LEMMA CommitBallots ==
  ASSUME BallotInv, NEW s \in Keys, NEW i \in Identities, NEW n \in bytes32Values,
         NEW d \in Digests, NEW h, _commitBallot(s, i, n, d, h),
         h # "zero" => h = d /\ Canonical(n)
  PROVE  BallotInv'
<1> DEFINE last == Len(ballots) + 1
<1>1. /\ BallotTypes'
      /\ Len(ballots) \in Nat
      /\ DOMAIN ballots = 1..Len(ballots)
      /\ DOMAIN ballots' = 1..last
      /\ \A x \in DOMAIN ballots : ballots'[x] = ballots[x]
      /\ ballots'[last] =
           [sender |-> s, identity |-> i, nullifier |-> n, digest |-> d]
      /\ n \notin isNullifierUsed
      /\ isNullifierUsed' = isNullifierUsed \cup {n}
      /\ ballotPublicInputsHashOf'[n] = h
      /\ \A x \in isNullifierUsed :
           ballotPublicInputsHashOf'[x] = ballotPublicInputsHashOf[x]
      /\ UNCHANGED registryVars
  BY CommitAppends
<1>2. /\ DOMAIN ballots' = DOMAIN ballots \cup {last}
      /\ last \notin DOMAIN ballots
  BY <1>1
<1> HIDE DEF last
<1>3. /\ ballots'[last].nullifier = n /\ ballots'[last].digest = d
      /\ ballots'[last].identity = i /\ ballots'[last].sender = s
  BY <1>1
<1>4. \A x \in DOMAIN ballots : ballots[x].nullifier \in isNullifierUsed
  BY DEF BallotInv, NullifiersUsed
<1>5. NullifiersUsed'
  <2>1. \A x \in DOMAIN ballots' : ballots'[x].nullifier \in isNullifierUsed'
    BY <1>1, <1>2, <1>3, <1>4
  <2>2. \A x, y \in DOMAIN ballots' :
          ballots'[x].nullifier = ballots'[y].nullifier => x = y
    <3>1. \A x \in DOMAIN ballots : ballots'[x].nullifier # n
      BY <1>1, <1>4
    <3>2. \A x, y \in DOMAIN ballots :
            ballots'[x].nullifier = ballots'[y].nullifier => x = y
      BY <1>1 DEF BallotInv, NullifiersUsed
    <3>3. QED
      BY <1>2, <1>3, <3>1, <3>2
  <2>3. \A x \in DOMAIN ballots' :
          LET recorded == ballotPublicInputsHashOf'[ballots'[x].nullifier]
          IN  recorded # "zero" =>
                recorded = ballots'[x].digest /\ Canonical(ballots'[x].nullifier)
    <3>1. SUFFICES ASSUME NEW x \in DOMAIN ballots',
                          ballotPublicInputsHashOf'[ballots'[x].nullifier] # "zero"
                   PROVE  /\ ballotPublicInputsHashOf'[ballots'[x].nullifier]
                               = ballots'[x].digest
                          /\ Canonical(ballots'[x].nullifier)
      OBVIOUS
    <3>2. CASE x = last
      BY <1>1, <1>3, <3>1, <3>2
    <3>3. CASE x \in DOMAIN ballots
      <4>1. /\ ballots'[x] = ballots[x]
            /\ ballotPublicInputsHashOf'[ballots[x].nullifier]
                 = ballotPublicInputsHashOf[ballots[x].nullifier]
        BY <1>1, <1>4, <3>3
      <4>2. QED
        BY <3>1, <3>3, <4>1 DEF BallotInv, NullifiersUsed
    <3>4. QED
      BY <1>2, <3>2, <3>3
  <2>4. QED
    BY <2>1, <2>2, <2>3 DEF NullifiersUsed, Canonical
<1>6. OneKeyPerIdentity'
  <2>1. votingKeys[i] = s
    BY DEF _commitBallot
  <2>2. \A b \in ToSet(ballots') : votingKeys[b.identity] = b.sender
    <3>1. \A x \in DOMAIN ballots : votingKeys[ballots[x].identity] = ballots[x].sender
      BY DEF BallotInv, OneKeyPerIdentity, ToSet
    <3>2. \A x \in DOMAIN ballots' : votingKeys[ballots'[x].identity] = ballots'[x].sender
      BY <1>1, <1>2, <1>3, <2>1, <3>1
    <3>3. QED
      BY <3>2 DEF ToSet
  <2>3. QED
    BY <1>1, <2>2 DEF BallotInv, OneKeyPerIdentity, registryVars
<1>7. QED
  BY <1>1, <1>5, <1>6 DEF BallotInv

(* A step registers one key, commits one ballot or leaves both alone. *)
LEMMA BallotSteps ==
  ASSUME [VotingNext]_contractVars
  PROVE  \/ \E i \in Identities, k \in Keys \cup {Nothing} : _register(i, k)
         \/ \E s \in Keys, i \in Identities, n \in bytes32Values, d \in Digests :
              \/ _commitBallot(s, i, n, d, "zero")
              \/ Canonical(n) /\ _commitBallot(s, i, n, d, d)
         \/ UNCHANGED <<votingKeys, isVotingKeyRegistered, isNullifierUsed,
                        ballotPublicInputsHashOf, ballots>>
BY DEF VotingNext, contractVars, registryVars, ballotVars, Register,
       RegisterWithProof, SetEligibilityVerifier, SubmitBallot,
       SubmitBallotWithProof, SetBallotProofVerifier, UpdateRoot, FreezeRoot,
       SubmitEligibleBallot, SetVerifier

LEMMA NextBallots == BallotInv /\ [VotingNext]_contractVars => BallotInv'
<1>1. SUFFICES ASSUME BallotInv, [VotingNext]_contractVars PROVE BallotInv'
  OBVIOUS
<1>2. ASSUME NEW i \in Identities, NEW k \in Keys \cup {Nothing}, _register(i, k)
      PROVE  BallotInv'
  BY <1>1, <1>2, RegisterBallots
<1>3. ASSUME NEW s \in Keys, NEW i \in Identities, NEW n \in bytes32Values,
             NEW d \in Digests,
             \/ _commitBallot(s, i, n, d, "zero")
             \/ Canonical(n) /\ _commitBallot(s, i, n, d, d)
      PROVE  BallotInv'
  BY <1>1, <1>3, CommitBallots
<1>4. CASE UNCHANGED <<votingKeys, isVotingKeyRegistered, isNullifierUsed,
                       ballotPublicInputsHashOf, ballots>>
  BY <1>1, <1>4
     DEF BallotInv, BallotTypes, OneKeyPerIdentity, NullifiersUsed, ToSet
<1>5. QED
  BY <1>1, <1>2, <1>3, <1>4, BallotSteps

LEMMA BallotInvAlways == VotingSpec => []BallotInv
BY InitBallots, NextBallots, PTL DEF VotingSpec

(* A voting key stands for one identity, for good, over both ways to       *)
(* register; and every ballot was sent by the key of its identity.         *)
THEOREM KeysAreIdentities == VotingSpec => []OneKeyPerIdentity
<1>1. BallotInv => OneKeyPerIdentity
  BY DEF BallotInv
<1>2. QED
  BY <1>1, BallotInvAlways, PTL

(* The canonical form of a nullifier is the field element itself. *)
LEMMA CanonicalIsField ==
  ASSUME NEW n \in bytes32Values, Canonical(n)
  PROVE  n % SnarkField = n
BY ContractsAssumption DEF bytes32Values, Canonical

(* A credential has at most one proved ballot, in whatever encoding its    *)
(* nullifier is submitted, and what is recorded of it is its own proof.    *)
THEOREM ProvedOnce == VotingSpec => []OneProvedBallotPerCredential
<1>1. ASSUME BallotInv PROVE OneProvedBallotPerCredential
  <2>1. ASSUME NEW i \in Proved
        PROVE  /\ i \in DOMAIN ballots
               /\ ballots[i].nullifier % SnarkField = ballots[i].nullifier
               /\ ballotPublicInputsHashOf[ballots[i].nullifier] = ballots[i].digest
    <3>1. i \in DOMAIN ballots /\ ballotPublicInputsHashOf[ballots[i].nullifier] # "zero"
      BY <2>1 DEF Proved
    <3>2. ballots[i].nullifier \in bytes32Values
      <4>1. ballots[i] \in BallotEvent
        BY <1>1, <3>1 DEF BallotInv, BallotTypes
      <4>2. QED
        BY <4>1 DEF BallotEvent
    <3>3. /\ Canonical(ballots[i].nullifier)
          /\ ballotPublicInputsHashOf[ballots[i].nullifier] = ballots[i].digest
      BY <1>1, <3>1 DEF BallotInv, NullifiersUsed
    <3>4. QED
      BY <3>1, <3>2, <3>3, CanonicalIsField
  <2>2. QED
    BY <1>1, <2>1 DEF OneProvedBallotPerCredential, BallotInv, NullifiersUsed
<1>2. QED
  BY <1>1, BallotInvAlways, PTL

(* Neither way to submit changes what the other has committed. *)
THEOREM BallotsAreFinal == VotingSpec => CommitmentsFinal
<1>1. ASSUME BallotInv, [VotingNext]_contractVars, NEW n \in isNullifierUsed
      PROVE  /\ ballotPublicInputsHashOf'[n] = ballotPublicInputsHashOf[n]
             /\ \A b \in ToSet(ballots') : b.nullifier = n => b \in ToSet(ballots)
  <2>1. ASSUME NEW s \in Keys, NEW i \in Identities, NEW m \in bytes32Values,
               NEW d \in Digests, NEW h, _commitBallot(s, i, m, d, h)
        PROVE  /\ ballotPublicInputsHashOf'[n] = ballotPublicInputsHashOf[n]
               /\ \A b \in ToSet(ballots') : b.nullifier = n => b \in ToSet(ballots)
    <3>1. /\ Len(ballots) \in Nat
          /\ DOMAIN ballots = 1..Len(ballots)
          /\ DOMAIN ballots' = 1..Len(ballots) + 1
          /\ \A x \in DOMAIN ballots : ballots'[x] = ballots[x]
          /\ ballots'[Len(ballots) + 1] =
               [sender |-> s, identity |-> i, nullifier |-> m, digest |-> d]
          /\ m \notin isNullifierUsed
          /\ \A x \in isNullifierUsed :
               ballotPublicInputsHashOf'[x] = ballotPublicInputsHashOf[x]
      BY <1>1, <2>1, CommitAppends
    <3>2. ASSUME NEW x \in DOMAIN ballots', ballots'[x].nullifier = n
          PROVE  x \in DOMAIN ballots /\ ballots'[x] = ballots[x]
      <4>1. CASE x = Len(ballots) + 1
        BY <1>1, <3>1, <3>2, <4>1
      <4>2. QED
        BY <3>1, <3>2, <4>1
    <3>3. QED
      BY <3>1, <3>2 DEF ToSet
  <2>2. CASE UNCHANGED <<ballotPublicInputsHashOf, ballots>>
    BY <2>2
  <2>3. CASE \E i \in Identities, k \in Keys \cup {Nothing} : _register(i, k)
    BY <2>2, <2>3 DEF _register, ballotVars
  <2>4. QED
    BY <1>1, <2>1, <2>2, <2>3, BallotSteps
<1>2. BallotInv /\ [VotingNext]_contractVars =>
        [\A n \in isNullifierUsed :
           /\ ballotPublicInputsHashOf'[n] = ballotPublicInputsHashOf[n]
           /\ \A b \in ToSet(ballots') : b.nullifier = n => b \in ToSet(ballots)
        ]_contractVars
  BY <1>1
<1>3. QED
  BY <1>2, BallotInvAlways, PTL DEF VotingSpec, CommitmentsFinal

-----------------------------------------------------------------------------
(* V3: the roll and the eligible ballots *)

EligibleEvent == [root : Roots, nullifier : 1..SnarkField - 1, digest : Digests]

EligibleInv ==
  /\ eligibleBallots \in Seq(EligibleEvent)
  /\ \A i \in DOMAIN eligibleBallots :
       eligibleBallots[i].nullifier \in isEligibleNullifierUsed
  /\ OneRoll

LEMMA CastEligible ==
  ASSUME EligibleInv, NEW r \in Roots, NEW n \in bytes32Values, NEW d \in Digests,
         SubmitEligibleBallot(r, n, d)
  PROVE  EligibleInv'
<1> DEFINE event == [root |-> r, nullifier |-> n, digest |-> d]
           last == Len(eligibleBallots) + 1
<1>1. /\ eligibleBallots' = Append(eligibleBallots, event)
      /\ n \in 1..SnarkField - 1
      /\ n \notin isEligibleNullifierUsed
      /\ isEligibleNullifierUsed' = isEligibleNullifierUsed \cup {n}
      /\ rootFrozen /\ r = currentRoot
      /\ UNCHANGED rollVars
  BY DEF SubmitEligibleBallot, RollIsFinal
<1>2. /\ event \in EligibleEvent /\ eligibleBallots \in Seq(EligibleEvent)
      /\ event.root = r /\ event.nullifier = n
  BY <1>1 DEF EligibleEvent, EligibleInv
<1> HIDE DEF event
<1>3. /\ eligibleBallots' \in Seq(EligibleEvent)
      /\ DOMAIN eligibleBallots' = DOMAIN eligibleBallots \cup {last}
      /\ last \notin DOMAIN eligibleBallots
      /\ \A x \in DOMAIN eligibleBallots : eligibleBallots'[x] = eligibleBallots[x]
      /\ eligibleBallots'[last] = event
  BY <1>1, <1>2
<1> HIDE DEF last
<1>4. \A x \in DOMAIN eligibleBallots' :
        eligibleBallots'[x].nullifier \in isEligibleNullifierUsed'
  BY <1>1, <1>2, <1>3 DEF EligibleInv
<1>5. \A x \in DOMAIN eligibleBallots :
        rootFrozen /\ eligibleBallots[x].root = currentRoot
  BY DEF EligibleInv, OneRoll, ToSet
<1>6. \A b \in ToSet(eligibleBallots') : rootFrozen' /\ b.root = currentRoot'
  BY <1>1, <1>2, <1>3, <1>5 DEF ToSet, rollVars
<1>7. \A x, y \in DOMAIN eligibleBallots' :
        eligibleBallots'[x].nullifier = eligibleBallots'[y].nullifier => x = y
  BY <1>1, <1>2, <1>3 DEF EligibleInv, OneRoll
<1>8. QED
  BY <1>3, <1>4, <1>6, <1>7 DEF EligibleInv, OneRoll

LEMMA NextEligible == EligibleInv /\ [VotingNext]_contractVars => EligibleInv'
<1>1. SUFFICES ASSUME EligibleInv, [VotingNext]_contractVars PROVE EligibleInv'
  OBVIOUS
<1>2. ASSUME NEW r \in Roots, NEW n \in bytes32Values, NEW d \in Digests,
             SubmitEligibleBallot(r, n, d)
      PROVE  EligibleInv'
  BY <1>1, <1>2, CastEligible
<1>3. CASE /\ UNCHANGED <<isEligibleNullifierUsed, eligibleBallots>>
           /\ \/ UNCHANGED <<currentRoot, rootFrozen>>
              \/ ~rootFrozen
  <2>1. ASSUME ~rootFrozen PROVE DOMAIN eligibleBallots = {}
    BY <1>1, <2>1 DEF EligibleInv, OneRoll, ToSet
  <2>2. ~rootFrozen => ToSet(eligibleBallots) = {}
    BY <2>1 DEF ToSet
  <2>3. OneRoll'
    BY <1>1, <1>3, <2>2 DEF EligibleInv, OneRoll, ToSet
  <2>4. QED
    BY <1>1, <1>3, <2>3 DEF EligibleInv
<1>4. \/ \E r \in Roots, n \in bytes32Values, d \in Digests :
           SubmitEligibleBallot(r, n, d)
      \/ /\ UNCHANGED <<isEligibleNullifierUsed, eligibleBallots>>
         /\ \/ UNCHANGED <<currentRoot, rootFrozen>>
            \/ ~rootFrozen
  <2>1. \/ UNCHANGED contractVars
        \/ UNCHANGED <<rollVars, eligibleVars>>
        \/ \E r \in Roots : UpdateRoot(r)
        \/ FreezeRoot
        \/ \E r \in Roots, n \in bytes32Values, d \in Digests :
             SubmitEligibleBallot(r, n, d)
        \/ \E set \in BOOLEAN : SetVerifier(set)
    BY <1>1 DEF VotingNext, Register, RegisterWithProof, _register,
         SetEligibilityVerifier, SubmitBallot, SubmitBallotWithProof,
         _commitBallot, SetBallotProofVerifier
  <2>2. CASE UNCHANGED contractVars \/ UNCHANGED <<rollVars, eligibleVars>>
    BY <2>2 DEF contractVars, rollVars, eligibleVars
  <2>3. CASE \E r \in Roots : UpdateRoot(r)
    BY <2>3 DEF UpdateRoot, eligibleVars
  <2>4. CASE FreezeRoot
    BY <2>4 DEF FreezeRoot, eligibleVars
  <2>5. CASE \E set \in BOOLEAN : SetVerifier(set)
    BY <2>5 DEF SetVerifier, rollVars
  <2>6. QED
    BY <2>1, <2>2, <2>3, <2>4, <2>5
<1>5. QED
  BY <1>2, <1>3, <1>4

(* Every eligible ballot is for the one roll that is current for good, and *)
(* no credential of it casts twice.                                        *)
THEOREM RollIsOne == VotingSpec => []OneRoll
<1>1. ContractsInit => EligibleInv
  BY DEF ContractsInit, EligibleInv, OneRoll, ToSet
<1>2. EligibleInv => OneRoll
  BY DEF EligibleInv
<1>3. QED
  BY <1>1, <1>2, NextEligible, PTL DEF VotingSpec
==============================================================================
