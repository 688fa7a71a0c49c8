SPECIFICATION FairSpec
CONSTANT
    Polls = 2
PROPERTIES
    CommandsResume
CHECK_DEADLOCK FALSE
