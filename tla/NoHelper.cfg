SPECIFICATION FairSpec
CONSTANTS
    Fds = {0, 1, 2, 3, 4, 5, 6, 7, 8, 9, 10}
    Loads <- NoHelperLoads
PROPERTY TornDown
CHECK_DEADLOCK FALSE
