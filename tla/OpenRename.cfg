SPECIFICATION Spec
CONSTANTS
    Handlers = {h1, h2}
    Paths <- AllPaths
    MaxIno = 5
    MaxFh = 3
    Loads <- RaceLoads
SYMMETRY Interchangeable
INVARIANT HandlesFollow
CHECK_DEADLOCK FALSE
