SPECIFICATION RelaySpec
CONSTANTS
  EpochHeights = {7}
  MaxBlock = 29
  a = a
  b = b
  c = c
  f = f
  Node = {a, b, c, f}
  Faulty = {f}
  EpochStart = 16
  Upgrade = 15
  Heights = {3, 13, 14, 16, 18, 29}
  Stake <- MCStake
INVARIANTS
  PhasesAgree
  ServedIsDecided
  NothingNeededIsLost
PROPERTIES
  ServesAsProversExpect
CHECK_DEADLOCK FALSE
