\* The caches without a size limit (grids, global grids, histogram).
SPECIFICATION FairSpec
CONSTANTS
    k1 = k1
    k2 = k2
    k3 = k3
    r1 = r1
    r2 = r2
    r3 = r3
    r4 = r4
    NoCell = NoCell
    Ttl = 1
    CleanupPeriod = 1
    Key <- MCOneKey
    Request <- MCThreeCalls
    Cancellable <- MCCancellable
    Bounded = FALSE
    Size = 1
    MaxTime = 4
INVARIANTS
    TypeOK
    FailureNotRetained
    DuplicateOnlyAfterExpiry
PROPERTIES
    UnexpiredKept
    EveryCallAnswered
    ImplementsContract
CHECK_DEADLOCK FALSE
