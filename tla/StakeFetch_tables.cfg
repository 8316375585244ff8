SPECIFICATION FairSpec
CONSTANTS
  Backends = {"fs", "sql"}
  NumEvents = 3
  BlockOf <- MCBlockOf
  InitBlock = 1
  MaxBlock = 3
  ChunkSize = 2
  Epochs = {1, 2}
  RootBlock <- MCRootBlock
  MaxTorn = 1
  MaxCrashes = 1
INVARIANTS
  TableExact
  MarkerCovers
PROPERTIES
  MarkerNeverFallsBack
  FollowsL1
