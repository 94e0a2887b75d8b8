SPECIFICATION Spec
CONSTANTS
  e1 = e1
  e2 = e2
  Entry = {e1, e2}
  k1 = k1
  Key = {k1}
  Caller = {"injector", "mapper"}
  Mode <- MCMode
  Flusher = {"f1", "f2"}
  FreshTailCount = 1
  SoftThreshold = 1
  ChunkSize = 2
  ContextLimit = 1
  MaxMessages = 4
  MaxSummaries = 3
  GhostCount = 2
  None = None
INVARIANTS NothingLost OldestFirst WrittenOnce ContextReaches
SYMMETRY Symmetry
CHECK_DEADLOCK FALSE
