SPECIFICATION ProverSpec
CONSTANTS
  BlocksPerEpoch = 8
  EpochStart = 10
  Upgrade = 9
  Starts = {10}
  Prover = {p1, p2}
  NoProver = none
  Heights = {7, 10, 25, 33}
  Retentions = {1}
  MaxTime = 0
  MaxUpdates = 12
  MaxFailures = 1
INVARIANTS
  BundleProofFits
  NeverAheadOfBundle
PROPERTIES
  ContractCatchesUp
