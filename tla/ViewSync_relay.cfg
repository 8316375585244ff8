CONSTANTS
  Node <- MCNode
  Faulty = {}
  Silent = {4}
  OneHonest <- MCOneHonest
  Quorum <- MCQuorum
  Leader <- MCLeader
  StartViews <- MCAdjacent
  MaxView = 2
  MaxRelay = 1
  FaultyVote = {}
  Prompt = FALSE
SPECIFICATION FairSpec
PROPERTIES RoundCompletes ViewsNeverFallBack
CHECK_DEADLOCK FALSE
