SPECIFICATION FairSpec
CONSTANTS
    Bus = {b1}
    BrokerType = "mqtt"
    RxCap = 1
    TxCap = 1
PROPERTIES
    SigtermHonoured
CHECK_DEADLOCK FALSE
