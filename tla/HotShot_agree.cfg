SPECIFICATION Spec
CONSTANTS
  Node = {n1, n2}
  Faulty = {}
  NoLeaf = NoLeaf
  Done = Done
  Genesis = "G"
  Quorum <- MCQuorum
  Leaf <- MCLeaf
  View <- MCView
  Parent <- MCParent
  Anc <- MCAnc
  Views <- MCViews
  JumpViews = {}
  DaViews = {1, 2, 3, 4}
  Redelivery = FALSE
  QueueSize = 2
SYMMETRY Symmetry
INVARIANT ForksNeedLockBreach
PROPERTIES
  ExtendsUnlessLockBreach
  AcceptedAtLock
CHECK_DEADLOCK FALSE
