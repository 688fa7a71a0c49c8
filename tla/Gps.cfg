SPECIFICATION FairSpec
CONSTANTS
    GpsRxCap = 2
    MaxSessions = 3
    MaxFixes = 5
INVARIANTS
    TypeOK
    OneSession
    FixesInOrder
PROPERTIES
    Reconnects
    Stops
CHECK_DEADLOCK FALSE
