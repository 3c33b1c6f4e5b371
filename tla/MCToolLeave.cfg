SPECIFICATION PartsSpec
CONSTANTS
  Batches <- MCBatches
  MaxParallel = 2
  Capacity = 2
  MaxPrompts = 0
  MaxQueued = 1
  MaxSessions = 0
  MaxFaults = 0
PROPERTIES
  LeavingEnds
CHECK_DEADLOCK FALSE
