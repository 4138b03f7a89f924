\* A variable is given another type.
CONSTANTS
    Order <- MCOrder
    Excluded = {}
    Vids = {1, 2, 3}
    Pids = {p1, p2}
    None = None
    MaxEdits = 1
    MaxFaults = 0
SPECIFICATION FairSpec
PROPERTIES SysvarsKeepRefreshing
CHECK_DEADLOCK FALSE
