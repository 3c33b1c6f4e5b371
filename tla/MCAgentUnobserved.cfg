SPECIFICATION Spec
CONSTANTS
  Files <- F
  Contents = {1, 2}
  Commands <- C
  Committed <- CommittedFiles
  PlanFor <- Plans
  Answers <- Background
  Optimize = TRUE
  MaxSteps = 3
  MaxBlocked = 2
  MaxStalled = 2
  MaxTurns = 1
  MaxEdits = 0
  MaxVerifications = 3
INVARIANT CompletionObservesVerification
