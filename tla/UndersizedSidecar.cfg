SPECIFICATION Spec
CONSTANTS
    Readers = {r1}
    Openers = {}
    PS = 2
    MaxSize = 4
    Vals = {1, 2}
    Workloads <- AppendLoads
    ByteBits = 1
    IdBytes = 1
    U32Max = 8
    U64Max = 20
INVARIANT UndersizedFieldIsEmpty
CHECK_DEADLOCK FALSE
