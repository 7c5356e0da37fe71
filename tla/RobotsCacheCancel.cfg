\* A read that was notified is dropped while it waits for the mutex of the table.
SPECIFICATION FairSpec
CONSTANTS
    p = p
    q = q
    v = v
    w = w
    Calls = {p, v, w}
    Keys <- Origins
    KeyOf <- AsksFor
    MaxEntries = 1
    Suspends = TRUE
    NoSlot = NoSlot
PROPERTIES EveryCallEnds
\* Every call ends and none begins again.
CHECK_DEADLOCK FALSE
