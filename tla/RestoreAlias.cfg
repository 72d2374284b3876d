SPECIFICATION Spec
CONSTANTS
    Handlers = {h1, h2}
    Paths <- AllPaths
    MaxIno = 5
    MaxFh = 3
    Loads <- DisplacedLoads
SYMMETRY Interchangeable
INVARIANT KeysAliased
CHECK_DEADLOCK FALSE
