\* One warning per day.
SPECIFICATION MCSpec
CONSTANTS
    c1 = c1
    c2 = c2
    e1 = e1
    e2 = e2
    e3 = e3
    Main = Main
    Connection <- MCConnection
    Holder <- MCHolder
    Entry <- MCEntry
    Capacity = 2
    MaxDay = 2
    Tear = {1}
    Logged <- MCLogged
    GeoIp <- MCGeoIp
    Top = 2
    Given <- MCGivenLog
    Spelling <- MCSpelling
INVARIANTS
    OneWarningPerDay
CHECK_DEADLOCK FALSE
