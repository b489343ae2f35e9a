CONSTANTS
  Order = 11
  BallotIds <- MCBallotIds
  Candidates = {"A", "B"}
  SnarkField = 8
  Elections = {"e1", "e2"}
  CandidateLists = {"list1", "list2"}
  Positions = {0, 1, 2, 3}
  Depth = 2
  ContentIds = {"cid", "none"}
  NoContentId = "none"
  NullifierOf <- MCNullifierOf
  Scenarios <- MCScenarios
SPECIFICATION Spec
INVARIANTS
  LogCountsOnce
  OneVotePerCredential
  ReceiptsSound
  LogCanBeTallied
  TallyHoldsTheVotes
  ResultsAreTrueCounts
  EnoughGoodSharesFinalize
CHECK_DEADLOCK FALSE
