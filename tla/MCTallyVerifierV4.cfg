CONSTANTS
  NoRoot = NoRoot
  NoTally = NoTally
  Batchers = {alice, bob}
  Challengers = {bob}
  Settlement = contract
  Manifests = {m1, m2, m3, m4}
  Roots = {r1, r2}
  FirstRoot = r1
  Forged = m4
  Batches <- MCRaceBatches
  ValidBatches <- MCOneWayBatches
  MaxBallots = 2
  Candidates = {A, B}
  VotingEndsAt = 1
  SettlementEndsAt = 2
  ChallengePeriod = 1
  BatcherBond = 2
  ChallengerBond = 1
  VerifierTypes = {"SVB_BATCH_VALIDITY_V4", "SVB_BATCH_FRAUD_V4", "SVB_TALLY_V4"}
  InitialBalance = 4
  MaxUint64 = 4
  MaxTime = 3
SPECIFICATION TallySpec
SYMMETRY RaceSymmetry
INVARIANTS
  TallyTypeOK
  BondsBacked
  AcceptedIsFinalized
  HonestBatcherWhole
  FinalizedChain
  NoManifestCountedTwice
  TallyBindsPrefix
  SettledTallyComplete
PROPERTIES
  FraudHasFullWindow
  ImplementsLedger
CHECK_DEADLOCK FALSE
