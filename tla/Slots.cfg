CONSTANTS
  Sessions = {1, 2}
  Handlers = {h1, h2, h3}
  Tokens = {t1, t2}
  MaxEntry = 2
  NoSession = NoSession
  NoHandler = NoHandler
  NoTok = NoTok
SPECIFICATION MCSlotSpec
SYMMETRY Symmetry
INVARIANTS
  SlotTypeOK
  TreeMatchesRegistry
  LiveIsRunning
  RunningIsOpened
  OneReportPerRun
  NoSessionOutlivesHold
  EmptyPodHasNoSurface
PROPERTIES
  SurfaceStaysWithEntry
  RollbackRemovesOwnEntry
  CleanAbsentIsClosed
