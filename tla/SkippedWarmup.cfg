SPECIFICATION Spec
CONSTANTS
    Readers = {r1}
    Openers = {}
    PS = 2
    MaxSize = 4
    Vals = {1, 2}
    Workloads <- SkippedLoads
    ByteBits = 1
    IdBytes = 24
    U32Max = 8
    U64Max = 20
INVARIANT ServeSafe
CHECK_DEADLOCK FALSE
