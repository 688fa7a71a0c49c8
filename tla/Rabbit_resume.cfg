SPECIFICATION FairSpec
CONSTANTS
    Topics <- MCTopics
    MaxMsgs = 1
PROPERTIES
    PublishResumes
CHECK_DEADLOCK FALSE
