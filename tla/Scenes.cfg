CONSTANTS
  Replicas = {r1, r2}
  NoHolder = NoHolder
  Pods = {p1}
  NoPod = NoPod
  MaxAttempts = 2
  MaxRetries = 1
  MaxGen = 3
SPECIFICATION ScenesSpec
SYMMETRY Symmetry
INVARIANTS
  CoordTypeOK
  StampsUnique
  FenceNeverAhead
  PublishedAfterFence
  RowNamesNoReleasedPod
PROPERTIES
  TerminalIsFinal
  ImplementsFencingToken
