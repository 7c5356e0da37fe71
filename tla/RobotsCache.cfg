\* Four reads of three keys over two slots, any of which may be cancelled.
SPECIFICATION FairSpec
CONSTANTS
    p = p
    q = q
    v = v
    w = w
    Calls = {p, q, v, w}
    Keys <- Origins
    KeyOf <- AsksFor
    MaxEntries = 2
    Suspends = FALSE
    NoSlot = NoSlot
INVARIANTS TypeOK WithinMaxEntries OneFetchPerKey WaiterHasAWaker
PROPERTIES EveryCallEnds
\* Every call ends and none begins again.
CHECK_DEADLOCK FALSE
