SPECIFICATION FairSpec
CONSTANTS
    init = init
    o1 = o1
    o2 = o2
    f1 = f1
    Init_ = init
    Ops = {o1, o2}
    Forgets = {f1}
    Signalled = {o1}
    MaxThreads = 2
    Loads <- UpdateLoads
INVARIANT NoRequestLost
CHECK_DEADLOCK FALSE
