\* Two variables or two programs, a few changes, one failing request.
CONSTANTS
    Order <- MCOrder
    Excluded = {}
    Vids = {1, 2, 3}
    Pids = {p1, p2}
    None = None
    MaxEdits = 2
    MaxFaults = 1
SPECIFICATION FairSpec
INVARIANTS SubscriptionsMatch
PROPERTIES SysvarsCatchUp ProgramsCatchUp
CHECK_DEADLOCK FALSE
