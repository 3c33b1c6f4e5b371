SPECIFICATION PartsSpec
CONSTANTS
    w1 = w1
    w2 = w2
    l1 = l1
    l2 = l2
    l3 = l3
    l4 = l4
    Workers <- TwoWorkers
    Keys <- ThreeKeys
    Requests <- PatchesAndWrites
    Locks <- FourLocks
    NoLock = NoLock
    c1 = c1
    c2 = c2
    c3 = c3
    Calls <- TwoCalls
    Paths = {1, 2}
    Ops <- MixedOps
    Links <- NoLinks
    Optional = {2}
    Outside = Outside
    OutsidePaths = {1, 2}
INVARIANTS AllOrNothing PatchesSurvive
PROPERTIES ReplacesWhatItRead EveryRequestIsServed ImplementsKeyLocks
CHECK_DEADLOCK FALSE
