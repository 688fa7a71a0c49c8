SPECIFICATION FairSpec
CONSTANTS
    Bus = {"can0", "can1"}
    Signal = {"Speed", "Gear", "Typo"}
    Dbc <- MCDbc
    Payload <- MCPayload
    TxCap = 2
    MaxCmds = 4
INVARIANTS
    TypeOK
    WireFaithful
PROPERTIES
    Executed
    ImplementsCommandPath
CHECK_DEADLOCK FALSE
