SPECIFICATION Spec
CONSTANTS
  Node = {n1, n2}
  Faulty = {}
  NoLeaf = NoLeaf
  Done = Done
  Genesis = "G"
  Quorum <- MCQuorum
  Leaf <- MCLeaf
  View <- MCViewApart
  Parent <- MCParent
  Anc <- MCAnc
  Views <- MCViews
  JumpViews = {}
  DaViews = {1, 2, 4, 5}
  Redelivery = FALSE
  QueueSize = 2
SYMMETRY Symmetry
INVARIANT Agreement
CHECK_DEADLOCK FALSE
