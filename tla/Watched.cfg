CONSTANTS
  Replicas = {r1, r2}
  NoHolder = NoHolder
  Pods = {p1}
  NoPod = NoPod
  MaxAttempts = 1
  MaxRetries = 1
  MaxGen = 3
  MaxSuspensions = 0
SPECIFICATION WatchedSpec
CHECK_DEADLOCK FALSE
PROPERTIES
  RecoveryEnds
