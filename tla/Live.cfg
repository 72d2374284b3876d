SPECIFICATION FairSpec
CONSTANTS
    Readers = {r1, r2}
    Openers = {}
    PS = 2
    MaxSize = 4
    Vals = {1}
    Workloads <- LiveLoads
    ByteBits = 1
    IdBytes = 24
    U32Max = 8
    U64Max = 20
PROPERTY ReadCompletes
CHECK_DEADLOCK FALSE
