SPECIFICATION Spec
CONSTANTS
    Scenario <- MCScenario
    DbcFile <- MCDbcFile
    MaxID = 100000000
    Millisecond = 1000
    Wrap = 1048576
INVARIANTS
    Precedence
    Runnable
    TopicsMeet
    EndToEnd
    RightGroup
    StickOnBus
    ButtonsOnBus
CHECK_DEADLOCK FALSE
