SPECIFICATION Spec
CONSTANTS
    Readers = {r1, r2}
    Openers = {o1, o2}
    PS = 2
    MaxSize = 4
    Vals = {1, 2}
    Workloads <- DriftLoads
    ByteBits = 1
    IdBytes = 24
    U32Max = 8
    U64Max = 20
SYMMETRY Interchangeable
INVARIANT RecordsHonest
PROPERTY FieldMovesInTruncate
CHECK_DEADLOCK FALSE
