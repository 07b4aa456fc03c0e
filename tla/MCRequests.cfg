CONSTANTS
    c1 = c1
    c2 = c2
    Calls <- MCCalls
    Plans <- MCPlans
    Strikes <- MCStrikes
    Clusters <- MCClusters
    Cell <- MCCell
    Start <- MCStart
    AtFirst <- MCAtFirst
    ForbiddenIps <- MCForbidden
    Exchanges <- MCExchanges
    MAX_HEADER_BYTES = 3
    MAX_BODY_BYTES = 2
    MaxTicks = 2
    MaxFailures = 1

SPECIFICATION MCSpec
INVARIANTS
    CountsAddUp
    PictureOwn
    ClustersOwn
    HistogramFits
    OneTrace
    FramesApart
