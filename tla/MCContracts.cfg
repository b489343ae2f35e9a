CONSTANTS
  Accounts = {timelock, multisig}
  AdminTimelock = timelock
  VerifierManagerMultisig = multisig
  VerifierTypes = {batch, fraud}
  Versions = {1, 2}
  Contracts = {c1, c2}
  NoVerifier = NoVerifier
  Identities = {"i1", "i2"}
  Keys = {"k1", "k2"}
  Eligible <- MCEligible
  SnarkField = 3
  Digests = {"d1", "d2"}
  Provable <- MCProvable
  Roots = {"r1", "r2"}
  InitialRoot = "r1"
  Member <- MCMember
  Nothing = "nothing"
  MaxBallots = 3
  MaxVersion = 3
SPECIFICATION ContractsSpec
INVARIANTS
  OneKeyPerIdentity
  OneProvedBallotPerCredential
  OneRoll
PROPERTIES
  PinnedVersions
  CommitmentsFinal
