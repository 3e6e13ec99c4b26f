SPECIFICATION FairSpec
CONSTANTS
    c1 = c1
    c2 = c2
    Clients = {c1, c2}
    N = 1
    Strategies = {"least_conn"}
    CfgMaxFails = 2
    FailCap = 3
    MaxAttempts = 2
    CfgMaxInflight = 1
    KeyHalf = 2
    KeyOf <- KeysShared
    RRPeriod = 1
    EnvOps = {"admit", "probe", "rereg", "admin"}
INVARIANT TypeOK
INVARIANT InflightConserved
INVARIANT CapacityRespected
INVARIANT CircuitHasClock
PROPERTY CircuitHalfOpens
PROPERTY SelectLockFree
