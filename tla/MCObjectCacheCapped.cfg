\* The caches with a size limit (local grids, clusters).
SPECIFICATION Spec
SYMMETRY Symmetry
CONSTANTS
    k1 = k1
    k2 = k2
    k3 = k3
    r1 = r1
    r2 = r2
    r3 = r3
    r4 = r4
    NoCell = NoCell
    Ttl = 1
    CleanupPeriod = 0
    Key <- MCKeys
    Request <- MCFourCalls
    Cancellable = {}
    Bounded = TRUE
    Size = 2
    MaxTime = 2
INVARIANTS
    ListMatchesMap
    WithinSize
    AnswerFresh
PROPERTIES
    EvictsLeastRecentlyUsed
CHECK_DEADLOCK FALSE
