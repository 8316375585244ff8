CONSTANTS
  Node <- MCNode
  Faulty = {}
  Silent = {3}
  OneHonest <- MCOneHonest
  Quorum <- MCQuorum
  Leader <- MCLeader
  StartViews <- MCScattered
  MaxView = 4
  MaxRelay = 3
  FaultyVote = {}
  Prompt = FALSE
SPECIFICATION FairSpec
PROPERTY BackInAgreement
CHECK_DEADLOCK FALSE
