\* Three calls over two keys, one of which the backend may never answer for.
SPECIFICATION FairSpec
CONSTANTS
    Calls = {c1, c2, c3}
    Keys = {k1, k2}
    HungKeys = {k2}
    NoLock = NoLock
INVARIANTS TypeOK AtMostOneClaim OneLockPerKey
PROPERTIES GrantsUnseenOnly LookupLeavesNoDeadEntry OnlyItsOwnKey RefinesAtomicClaim
\* Every call ends and none begins again.
CHECK_DEADLOCK FALSE
