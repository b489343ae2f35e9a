CONSTANTS
  NoRoot = NoRoot
  Batchers = {alice}
  Challengers = {bob}
  Settlement = contract
  Manifests = {m1, m2}
  Roots = {r1, r2}
  Batches <- MCBatches
  ValidBatches <- MCValidBatches
  MaxBallots = 2
  VotingEndsAt = 2
  SettlementEndsAt = 3
  ChallengePeriod = 1
  BatcherBond = 2
  ChallengerBond = 1
  VerifierTypes = {"SVB_BATCH_VALIDITY_V4", "SVB_BATCH_FRAUD_V4"}
  InitialBalance = 4
  MaxUint64 = 2
  MaxTime = 5
SPECIFICATION PromptSpec
PROPERTY ProposalsSettle
CHECK_DEADLOCK FALSE
