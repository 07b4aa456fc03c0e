\* A run of bo-import that starts at the beginning of the logs.
SPECIFICATION MCSpec
CONSTANTS
    s1 = s1
    s2 = s2
    r1 = r1
    r2 = r2
    Live = Live
    Strike <- MCStrikes
    Run <- MCOneRun
    Granularity = 2
    Batch = 2
    Chunk = 1
    RetryCount = 2
    UpdateWindow = 1
    Hours = 2
    Strikes = 2
    Programs <- MCOneImport
    MaxTime = 3
    Char = {0, 1}
    MaxText = 7
    Feed <- MCFeed
    OldestYear = 1
    ImportRegion = 1
    DefaultDate = DefaultDate
    BadDate = BadDate
    FileSpan = 2
    HourSpan = 6
    DaySpan = 12
    UpdateSpan = 3
    DefaultSpan = 9
PROPERTIES
    BackfillFillsBack
CHECK_DEADLOCK FALSE
