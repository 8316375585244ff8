SPECIFICATION FairSpec
CONSTANTS
  Backends = {"fs", "sql"}
  MaxHeight = 3
  ViewOf <- MCViewOf
  DaViews = {2, 3}
  Retentions = {0, 2}
  StoreFails = {1, 2, 3}
  MaxEvents = 2
  MaxCrashes = 1
PROPERTIES
  TakenBeforeDeleted
  NewestLeafStays
  TakenInOrder
  FilePayloadsHandedOver
  EveryLeafTaken
