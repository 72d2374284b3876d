SPECIFICATION Spec
CONSTANTS
    Users = {u1, u2}
    MaxEntries = 2
    MaxGets = 1
    MaxPurges = 1
INVARIANT HeldIsAlive
CHECK_DEADLOCK FALSE
