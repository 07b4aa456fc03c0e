\* The usage log in the life of the service.
SPECIFICATION MCSpec
CONSTANTS
    c1 = c1
    c2 = c2
    e1 = e1
    e2 = e2
    e3 = e3
    Main = Main
    Connection <- MCConnection
    Holder <- MCHolder
    Entry <- MCEntry
    Capacity = 1
    MaxDay = 2
    Tear = {1, 5, 25, 29}
    Logged <- MCLogged
    GeoIp <- MCGeoIp
    Top = 2
    Given <- MCGiven
    Spelling <- MCSpelling
INVARIANTS
    TypeOK
    RowsInOwnDay
    SkippedAfterOwnFailure
    NothingLostAtExit
    ReportAgrees
    SettingsRespected
PROPERTIES
    AcceptedHandled
    ExitsWithoutClients
CHECK_DEADLOCK FALSE
