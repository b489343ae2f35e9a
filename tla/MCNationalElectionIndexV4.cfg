CONSTANTS
  d1 = d1
  d2 = d2
  d3 = d3
  Deployments = {d1, d2, d3}
  ConstituencyOf <- MCConstituencyOf
  Expected = 2
  NotPublished = NotPublished
  NoLeaf = NoLeaf
  MaxAccepted = 1
  MaxUint64 = 1
SPECIFICATION FairSpec
INVARIANTS
  IndexDeterministic
  OneLeafPerConstituency
  CountersAgree
  FinalIndexComplete
PROPERTY IndexCompletes
CHECK_DEADLOCK FALSE
