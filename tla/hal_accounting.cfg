SPECIFICATION SpecAudit
CONSTANTS
  w = w
  n = n
  SubHals = {p1, p2}
  Events = {w, n}
  WakeEvents = {w}
  EventQueueSize = 1
  WakeLockQueueSize = 1
  MaxPending = 2
  SizeModulus = 16
  WakelockTimeout = 1
  SubHalsQuiesce = TRUE
  Batches <- PairBatches
  MaxRefCount = 0
  MaxOwed = 0
INVARIANTS
  WakeEventsCovered
  NoReferenceLeak
SYMMETRY SubHalSymmetry
CHECK_DEADLOCK FALSE
