CONSTANTS
  Attempts = {1, 2}
  MaxChunks = 3
  Window = 1
  Limit = 4
  OtherBytes = 2
  RetainedCount = 1
  MaxGen = 2
  Plans <- MCPlans
SPECIFICATION ManifestLive
INVARIANTS
  OneActivePartial
  NoUnknownObject
  ReleasedOnce
  
  
PROPERTY
  BackstopReclaims
CHECK_DEADLOCK FALSE
