CONSTANTS
  Replicas = {r1, r2}
  NoHolder = NoHolder
  Pods = {p1}
  NoPod = NoPod
  MaxAttempts = 1
  MaxRetries = 1
  MaxGen = 2
SPECIFICATION PinningSpec
CHECK_DEADLOCK FALSE
PROPERTY NoPinnedLease
