SPECIFICATION FairSpec
CONSTANTS
    Bus = {b1}
    BrokerType = "rabbitmq"
    RxCap = 1
    TxCap = 1
INVARIANTS
    TypeOK
    NothingRunsAtDisconnect
PROPERTIES
    ShutdownCompletes
    NoSenderStuck
    SigtermHonoured
CHECK_DEADLOCK FALSE
