SPECIFICATION Spec
CONSTANTS
    Handlers = {h1, h2}
    Paths <- TwoEach
    MaxIno = 5
    MaxFh = 3
    Loads <- TableLoads
SYMMETRY Interchangeable
INVARIANT LookupsBalanced
INVARIANT KeysAliased
INVARIANT HandlesSound
PROPERTY NumbersNeverReused
CHECK_DEADLOCK FALSE
