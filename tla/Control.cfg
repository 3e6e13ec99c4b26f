SPECIFICATION FairSpec
CONSTANTS
    CfgMaxFails = 2
    FailCap = 3
    Id = 1
    ReconnectFails = 2
    HardRestartFails = 3
    Inputs <- AllStarts
    Configs <- AnyConfig
INVARIANT TypeOK
INVARIANT LoadPrecedence
PROPERTY RegistrationRetried
PROPERTY Recovers
PROPERTY Quarantined
