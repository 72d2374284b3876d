SPECIFICATION Spec
CONSTANTS
    Readers = {r1}
    Openers = {o1}
    PS = 2
    MaxSize = 4
    Vals = {1, 2}
    Workloads <- OpenLoads
    ByteBits = 1
    IdBytes = 24
    U32Max = 8
    U64Max = 20
INVARIANT SizeFollowsMount
CHECK_DEADLOCK FALSE
