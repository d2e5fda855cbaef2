SPECIFICATION FairSpec
CONSTANTS
  w = w
  n = n
  SubHals = {p1}
  Events = {w, n}
  WakeEvents = {w}
  EventQueueSize = 1
  WakeLockQueueSize = 1
  MaxPending = 1
  SizeModulus = 16
  WakelockTimeout = 1
  SubHalsQuiesce = TRUE
  Batches <- SplitBatches
  MaxRefCount = 1
  MaxOwed = 0
INVARIANTS
  HeldIffCounted
  WakePostsLocked
PROPERTIES
  LockIsShared
  WakelockReleased
  InitializeReturns
CHECK_DEADLOCK FALSE
