CONSTANTS
  Trustees = {t1, t2, t3}
  Honest = {t1, t2}
  HonestBody = a
  OtherBody = b
  Bodies <- MCBodies
  ZeroHash = ZeroHash
  Signed <- MCSigned
  Threshold = 2
  NoTranscript = NoTranscript
  MaxEvidence = 2
SPECIFICATION Spec
INVARIANT EvidenceOnce
CHECK_DEADLOCK FALSE
