SPECIFICATION PartsSpec
CONSTANTS
    w1 = w1
    w2 = w2
    l1 = l1
    l2 = l2
    l3 = l3
    l4 = l4
    Workers = {w1}
    Keys = {1}
    Requests = {{1}}
    Locks = {l1, l2}
    NoLock = NoLock
    c1 = c1
    c2 = c2
    c3 = c3
    Calls <- ThreeCalls
    Paths = {1, 2}
    Ops <- OneWrite
    Links <- OneLink
    Optional = {}
    Outside = Outside
    OutsidePaths = {}
INVARIANT SamePathIsSerialized
CHECK_DEADLOCK FALSE
