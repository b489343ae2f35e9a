------------------------- MODULE VerifierRegistryV4 -------------------------
(***************************************************************************)
(* The append-only verifier registry (contracts/v4/VerifierRegistryV4.sol) *)
(* with the OpenZeppelin AccessControl roles it inherits.                  *)
(***************************************************************************)
EXTENDS Integers

CONSTANTS
  Accounts,
  AdminTimelock, VerifierManagerMultisig,  \* the constructor's arguments
  VerifierTypes,                           \* nonzero verifier types
  Versions,                                \* nonzero versions
  Contracts,                               \* addresses with code
  NoVerifier                               \* address(0)

(* The constructor's guard. *)
ASSUME GovernanceAssumption ==
  /\ AdminTimelock \in Accounts
  /\ VerifierManagerMultisig \in Accounts
  /\ AdminTimelock # VerifierManagerMultisig

ASSUME AddressAssumption == NoVerifier \notin Contracts

VARIABLES
  admins,                \* accounts with DEFAULT_ADMIN_ROLE
  managers,              \* accounts with VERIFIER_MANAGER_ROLE
  verifiers,             \* verifier type, version -> verifier
  isVerifierTypeFrozen   \* the types mapped to true

vars == <<admins, managers, verifiers, isVerifierTypeFrozen>>

Init ==
  /\ admins = {AdminTimelock}
  /\ managers = {VerifierManagerMultisig}
  /\ verifiers = [tv \in VerifierTypes \X Versions |-> NoVerifier]
  /\ isVerifierTypeFrozen = {}

UnregisteredUnchecked(type, version) == TRUE  \* seeded fault: may be replaced

Unregistered(type, version) == verifiers[<<type, version>>] = NoVerifier

NotFrozen(type) == type \notin isVerifierTypeFrozen

HasCode(verifier) == verifier \in Contracts

RegisterVerifier(sender, type, version, verifier) ==
  /\ sender \in managers
  /\ NotFrozen(type)
  /\ HasCode(verifier)
  /\ Unregistered(type, version)
  /\ verifiers' = [verifiers EXCEPT ![<<type, version>>] = verifier]
  /\ UNCHANGED <<admins, managers, isVerifierTypeFrozen>>

FreezeVerifierType(sender, type) ==
  /\ sender \in admins
  /\ isVerifierTypeFrozen' = isVerifierTypeFrozen \cup {type}
  /\ UNCHANGED <<admins, managers, verifiers>>

(* getVerifier: reverts unless this holds. *)
Available(type, version) == verifiers[<<type, version>>] # NoVerifier

(* AccessControl: an admin grants and revokes both roles, and a member     *)
(* renounces its own.                                                      *)
GrantRole(sender, account) ==
  /\ sender \in admins
  /\ \/ admins' = admins \cup {account} /\ UNCHANGED managers
     \/ managers' = managers \cup {account} /\ UNCHANGED admins
  /\ UNCHANGED <<verifiers, isVerifierTypeFrozen>>

DropRole(sender, account) ==
  /\ \/ sender \in admins /\ admins' = admins \ {account} /\ UNCHANGED managers
     \/ sender \in admins /\ managers' = managers \ {account} /\ UNCHANGED admins
     \/ sender = account /\ admins' = admins \ {account} /\ UNCHANGED managers
     \/ sender = account /\ managers' = managers \ {account} /\ UNCHANGED admins
  /\ UNCHANGED <<verifiers, isVerifierTypeFrozen>>

Next ==
  \/ \E s \in Accounts, t \in VerifierTypes, v \in Versions,
        c \in Contracts \cup Accounts \cup {NoVerifier} : RegisterVerifier(s, t, v, c)
  \/ \E s \in Accounts, t \in VerifierTypes : FreezeVerifierType(s, t)
  \/ \E s, a \in Accounts : GrantRole(s, a) \/ DropRole(s, a)

Spec == Init /\ [][Next]_vars

-----------------------------------------------------------------------------
(* Properties *)

TypeOK ==
  /\ admins \in SUBSET Accounts
  /\ managers \in SUBSET Accounts
  /\ verifiers \in [VerifierTypes \X Versions -> Contracts \cup {NoVerifier}]
  /\ isVerifierTypeFrozen \in SUBSET VerifierTypes

(* "An election stores exact versions, so registering a newer verifier can *)
(* never change an active election": once a version resolves to a verifier *)
(* it resolves to that one for ever, whatever roles are granted, and what  *)
(* a frozen type lacks it never gets, so an election pinned to a missing   *)
(* version of it can never be proved, challenged or tallied.               *)
PinnedVersions ==
  [][\A t \in VerifierTypes, v \in Versions :
       (Available(t, v) \/ t \in isVerifierTypeFrozen)
         => verifiers'[<<t, v>>] = verifiers[<<t, v>>]]_vars
==============================================================================
