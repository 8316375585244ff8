CONSTANTS
  Node <- MCNode
  Faulty = {3}
  Silent = {}
  OneHonest <- MCOneHonest
  Quorum <- MCQuorum
  Leader <- MCLeader
  StartViews <- MCAdjacent
  MaxView = 3
  MaxRelay = 0
  FaultyVote <- MCFaultyVote
  Prompt = TRUE
SPECIFICATION RunningSpec
INVARIANTS AskedByHonest FinalizedMeansEntered
PROPERTIES BackInAgreement
CHECK_DEADLOCK FALSE
