\* Two tasks share the session of a backend that keeps three.
CONSTANTS
    Calls = {t1, t2}
    Ids = {1, 2, 3, 4, 5, 6}
    None = None
    MaxSessions = 3
    MaxDepth = 1
    MaxFaults = 2
SPECIFICATION FairSpec
PROPERTIES CallsEnd RecoversInTurn
CHECK_DEADLOCK FALSE
