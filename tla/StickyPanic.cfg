SPECIFICATION Spec
CONSTANTS
    c1 = c1
    c2 = c2
    Clients = {c1}
    N = 2
    Strategies = {"sticky"}
    CfgMaxFails = 1
    FailCap = 1
    MaxAttempts = 1
    CfgMaxInflight = 1
    KeyHalf = 2
    KeyOf <- KeysHigh
    RRPeriod = 2
    EnvOps = {"admit"}
INVARIANT NoIndexPanic
