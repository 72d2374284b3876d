SPECIFICATION FairSpec
CONSTANTS
    Users = {u1, u2}
    MaxEntries = 2
    MaxGets = 1
    MaxPurges = 2
INVARIANT MarksBacked
INVARIANT SidecarBacked
INVARIANT RefsExact
INVARIANT NoLeak
PROPERTY GetReturns
CHECK_DEADLOCK FALSE
