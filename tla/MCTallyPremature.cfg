CONSTANTS
  NoRoot = NoRoot
  NoTally = NoTally
  Batchers = {alice}
  Challengers = {bob}
  Settlement = contract
  Manifests = {m1, m2}
  Roots = {r1, r2}
  Batches <- MCBatches
  ValidBatches <- MCBatches
  FirstRoot = r1
  Forged = m2
  MaxBallots = 2
  Candidates = {A, B}
  VotingEndsAt = 1
  SettlementEndsAt = 3
  ChallengePeriod = 1
  BatcherBond = 1
  ChallengerBond = 1
  VerifierTypes = {"SVB_BATCH_VALIDITY_V4", "SVB_TALLY_V4"}
  InitialBalance = 2
  MaxUint64 = 3
  MaxTime = 5
SPECIFICATION TallySpec
INVARIANT TallyMatchesAccepted
CHECK_DEADLOCK FALSE
