CONSTANTS
  m1 = m1
  m2 = m2
  m3 = m3
  m4 = m4
  j1 = j1
  j2 = j2
  j3 = j3
  Handlers = {h1, h2, h3}
  Workers = {w1, w2}
  Manifests = {m1, m2, m3, m4}
  JobIds = {j1, j2, j3}
  IdOf <- MCIdOf
  Answers <- MCAnswers
  Engine <- MCEngine
  Capacity = 1
  NoId = NoId
  NoAnswer = NoAnswer
SPECIFICATION FairSpec
INVARIANTS
  OneHolder
  ArtifactsProved
PROPERTIES
  OutcomesStable
  JobsFinish
CHECK_DEADLOCK FALSE
