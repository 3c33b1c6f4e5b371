SPECIFICATION ShellSpec
CONSTANTS
  MaxPrompts = 3
  MaxQueued = 2
  MaxSessions = 2
  MaxFaults = 0
INVARIANTS
  NoPromptIsLost
CHECK_DEADLOCK FALSE
