SPECIFICATION PartsSpec
CONSTANTS
  Batches <- MCBatches
  MaxParallel = 2
  Capacity = 2
  MaxPrompts = 3
  MaxQueued = 2
  MaxSessions = 2
  MaxFaults = 1
INVARIANTS
  NothingRunsWithoutConsent
  ConflictingCallsKeepModelOrder
  EveryTurnIsRecorded
  NothingLearnedIsForgotten
PROPERTIES
  StartedStepsEnd
  QueuedPromptsAreTaken
CHECK_DEADLOCK FALSE
