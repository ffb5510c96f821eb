CONSTANTS
    Fields = {"throttle", "buttons"}
    FastReconnect = FALSE
    MaxReports = 4
    MaxSessions = 3
SPECIFICATION FairSpec
INVARIANTS
    ReportsAreNotMixed
    TornOnlyWhileGone
PROPERTIES
    StampIsHonest
    GoneIsCleared
