SPECIFICATION Spec
CONSTANTS
  Files <- F
  Contents = {1, 2}
  Commands <- C
  Committed <- CommittedFiles
  PlanFor <- Plans
  Answers <- Ordinary
  Optimize = TRUE
  MaxSteps = 2
  MaxBlocked = 2
  MaxStalled = 2
  MaxTurns = 2
  MaxEdits = 1
  MaxVerifications = 3
INVARIANT CompletionObservesVerification UserOwnedFilesSurvive
PROPERTY WritesReplaceGivenContent TurnsAreBounded
