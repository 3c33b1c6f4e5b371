SPECIFICATION Spec
CONSTANTS
    Ids = {1, 2}
    Slots = {s1, s2}
    Stubborn = {2}
    Talkative = {1}
    MaxProcesses = 1
    Capacity = 2
    ReadLimit = 1
    MaxOutput = 3
    MaxCalls = 3
    Origins = {o1}
    Supports = TRUE
    MaxTasks = 4
    MaxVersion = 2
    MaxCrashes = 1
    MaxKey = 2
    MaxPrinted = 3
INVARIANTS
    NothingRunsUnowned
    CleanShutdownLeavesNothing
    AnswersMatchRequests
    StopTellsTheTruth
    PipesAreReadWhole
PROPERTIES
    ProcessCallsEnd
    BrowserWorkEnds
CHECK_DEADLOCK FALSE
