SPECIFICATION Spec
CONSTANTS
  BlocksPerEpoch = 8
  EpochStart = 10
  Upgrade = 9
  Starts = {1, 10, 20}
  Prover = {p1, p2}
  NoProver = none
  Heights = {2, 3, 7, 9, 10, 11, 12, 16, 17, 19, 20, 25, 27}
  Retentions = {1, 2}
  MaxTime = 4
  MaxUpdates = 5
INVARIANTS
  VotingTableIsCurrent
  EveryRootFinalized
  CanAdvance
  CommitmentCovers
  EscapeHatchExact
CHECK_DEADLOCK FALSE
