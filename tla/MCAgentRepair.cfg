SPECIFICATION Spec
CONSTANTS
  Files <- F
  Contents = {1, 2}
  Commands <- C
  Committed <- CommittedFiles
  PlanFor <- Plans
  Answers <- Repairs
  Optimize = TRUE
  MaxSteps = 4
  MaxBlocked = 2
  MaxStalled = 2
  MaxTurns = 1
  MaxEdits = 0
  MaxVerifications = 4
INVARIANT VerifiedWorkCompletes
