\* One thread: no handler can come between the count and the creation of another.
SPECIFICATION FairSpec
CONSTANTS
    Requests = {r1, r2, r3}
    Ceiling = 1
    Threads = 1
    MaxAge = 3
INVARIANTS HardCeiling
CHECK_DEADLOCK FALSE
