SPECIFICATION FairSpec
CONSTANTS
    tab = tab
    request = request
    Tabs <- MCTabs
    Requests <- MCRequests
    MapConfig <- MCMapConfig
    FrameFlags <- MCFrameFlags
    MaxConns = 2
    MaxStates = 2
INVARIANTS
    TypeOK
    InOrder
    RepliesHonest
    OneSocket
    StopStops
PROPERTIES
    Reconnects
    Served
CHECK_DEADLOCK FALSE
