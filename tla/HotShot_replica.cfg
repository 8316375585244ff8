SPECIFICATION RestartSpec
CONSTANTS
  n1 = n1
  n2 = n2
  Node = {n1, n2}
  Faulty = {n2}
  NoLeaf = NoLeaf
  Done = Done
  Genesis = "G"
  Quorum <- MCQuorum
  Leaf <- MCLeaf
  View <- MCView
  Parent <- MCParent
  Anc <- MCAnc
  Views <- MCViews
  JumpViews = {2}
  DaViews = {1, 2, 3}
  Redelivery = TRUE
  QueueSize = 2
  Restarting = {n1}
  OtherViews = {1, 3}
INVARIANTS
  HighQcCoversLock
  DecidedLeafKnown
  UniqueCertificates
  StartsBehindVotes
  AnchorWasDecided
CHECK_DEADLOCK FALSE
