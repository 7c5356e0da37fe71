\* Two callers for two pages, one parked session for one key, two launches,
\* a shutdown at any time.
SPECIFICATION FairSpec
CONSTANTS
    Callers = {c1, c2}
    MaxPages = 2
    Keys = {k1}
    MaxSessions = 1
    MaxLaunches = 2
INVARIANTS TypeOK NoneLeftBehind HealthTells
PROPERTIES AcquireEnds
CHECK_DEADLOCK FALSE
