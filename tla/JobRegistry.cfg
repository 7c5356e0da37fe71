\* Three requests under a ceiling of two, on two threads.
SPECIFICATION FairSpec
CONSTANTS
    Requests = {r1, r2, r3}
    Ceiling = 2
    Threads = 2
    MaxAge = 2
INVARIANTS TypeOK
PROPERTIES ResultsLast CapacityReturns
\* The model stops when every request is through.
CHECK_DEADLOCK FALSE
