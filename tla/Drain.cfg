CONSTANTS
  DrainSessions = {1, 2}
  DrainPlans <- MCDrainPlans
  Requests = {1, 2, 3}
  Bodies = {"a", "b"}
  TTL = 1
  MaxTime = 2
SPECIFICATION MCSpec
INVARIANTS
  LockHasOneOwner
  
  QuiescedWhileHeld
  EffectOnce
  OneInFlight
  ReplayMatchesBody
PROPERTY
  DrainEnds
CHECK_DEADLOCK FALSE
