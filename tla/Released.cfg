CONSTANTS
  Replicas = {r1, r2}
  NoHolder = NoHolder
  Pods = {p1, p2}
  NoPod = NoPod
  MaxAttempts = 1
  MaxRetries = 1
  MaxGen = 3
  MaxSuspensions = 2
SPECIFICATION ReleasedSpec
CHECK_DEADLOCK FALSE
SYMMETRY Symmetry
INVARIANTS
  RowNamesNoReleasedPod
  IdleReleaseHasNoAdopter
