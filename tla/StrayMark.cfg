SPECIFICATION Spec
CONSTANTS
    Readers = {r1}
    Openers = {o1}
    PS = 2
    MaxSize = 6
    Vals = {1}
    Workloads <- StrayLoads
    ByteBits = 1
    IdBytes = 24
    U32Max = 8
    U64Max = 20
INVARIANT HonestMarks
CHECK_DEADLOCK FALSE
