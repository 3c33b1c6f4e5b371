SPECIFICATION Spec
CONSTANTS
    MaxFileBytes = 15
    MaxLineBytes = 4
    MaxLines = 5
    MaxStoredTurns = 2
    MarkSize = 2
    TurnSizes <- SmallTurnSizes
    MaxTurns = 5
    MaxSequence = 9
CHECK_DEADLOCK FALSE
INVARIANT PartialWritesAreIgnored
