SPECIFICATION Spec
CONSTANTS
  w = w
  n = n
  SubHals = {p1}
  Events = {w, n}
  WakeEvents = {w}
  EventQueueSize = 1
  WakeLockQueueSize = 1
  MaxPending = 2
  SizeModulus = 16
  WakelockTimeout = 1
  SubHalsQuiesce = TRUE
  Batches <- WakeBatches
  MaxRefCount = 1
  MaxOwed = 0
INVARIANT DropIsExact
CHECK_DEADLOCK FALSE
