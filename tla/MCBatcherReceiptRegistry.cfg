CONSTANTS
  north = north
  south = south
  p1 = p1
  verifier = verifier
  inputs = inputs
  Accounts = {alice}
  InitialBatcher = alice
  PackageRoots = {north, south}
  NullifierRoots = {n1, n2}
  NoRoot = NoRoot
  BatchVerifiers = {verifier}
  NoVerifier = NoVerifier
  PublicInputs = {inputs}
  NoInputs = NoInputs
  Accepts <- MCAccepts
  MaxTime = 3
  Signers = {s1, s2}
  InitialSigner = s1
  Packages = {p1}
  Receipts <- MCReceipts
  Contains <- MCContains
  NoSigner = NoSigner
SPECIFICATION FairSpec
INVARIANTS
  LogIsChain
  ClaimsJustified
PROPERTIES
  ClaimsArePermanent
  InclusionResolves
