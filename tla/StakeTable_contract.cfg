SPECIFICATION Spec
CONSTANTS
  Validator = {v1, v2}
  Delegator = {d1, d2}
  Key = {k1, k2, k3}
  Funds = 4
  Amounts = {1, 3}
  Escrows = {1, 2}
  MaxTime = 2
  MaxEvents = 5
  MaxActive = 1
  TargetStake = 2
  Authentic = {TRUE, FALSE}
SYMMETRY Symmetry
INVARIANTS
  TypeOK
  Solvent
  StakeAccounting
  ReplayAgrees
  KeysDistinct
  ActiveSetIsTop
CHECK_DEADLOCK FALSE
