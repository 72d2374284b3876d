SPECIFICATION Spec
CONSTANTS
    Readers = {r1, r2}
    Openers = {}
    PS = 2
    MaxSize = 4
    Vals = {1, 2}
    Workloads <- ServeLoads
    ByteBits = 1
    IdBytes = 24
    U32Max = 8
    U64Max = 20
SYMMETRY Interchangeable
INVARIANT ServeSafe
INVARIANT HonestMarks
INVARIANT DeadLeavesNoMarks
PROPERTY StableUnderXfer
CHECK_DEADLOCK FALSE
