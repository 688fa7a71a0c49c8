SPECIFICATION FairSpec
CONSTANTS
    Topics <- MCTopics
    MaxMsgs = 4
INVARIANTS
    SetupAllOrNothing
    HandledInOrder
PROPERTIES
    ConsumerFinishes
CHECK_DEADLOCK FALSE
