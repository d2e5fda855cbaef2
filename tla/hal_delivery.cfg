SPECIFICATION FairSpec
CONSTANTS
  w = w
  n = n
  SubHals = {p1, p2}
  Events = {w, n}
  WakeEvents = {}
  EventQueueSize = 1
  WakeLockQueueSize = 1
  MaxPending = 3
  SizeModulus = 16
  WakelockTimeout = 1
  SubHalsQuiesce = TRUE
  Batches <- PlainBatches
  MaxRefCount = 1
  MaxOwed = 0
INVARIANTS
  WriterOwnsFront
  PendingSizeExact
  FreshStart
PROPERTIES
  DeliversInOrder
  PendingDrained
CHECK_DEADLOCK FALSE
