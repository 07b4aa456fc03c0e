\* The pool and the failure log through an outage.
SPECIFICATION FairSpec
CONSTANTS
    q1 = q1
    q2 = q2
    q3 = q3
    Query <- MCQuery
    Count <- MCCount
    MaxOutage = 2
    MaxLines = 2
INVARIANTS
    NothingLoggedWhenWell
    LostBounded
PROPERTIES
    LogFallsSilent
    EveryQueryEnds
