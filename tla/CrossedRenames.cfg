SPECIFICATION Spec
CONSTANTS
    Handlers = {h1, h2}
    Paths <- TwoEach
    MaxIno = 5
    MaxFh = 3
    Loads <- NestedLoads
SYMMETRY Interchangeable
INVARIANT HandlesFollowRenames
CHECK_DEADLOCK FALSE
