SPECIFICATION FairSpec
CONSTANT
    Polls = 4
INVARIANTS
    AttemptsPaced
PROPERTIES
    SubscribeReturns
    PublishResumes
CHECK_DEADLOCK FALSE
