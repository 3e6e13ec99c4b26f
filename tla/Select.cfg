SPECIFICATION HSpec
CONSTANTS
    c1 = c1
    c2 = c2
    Clients = {c1, c2}
    N = 2
    Strategies = {"round_robin", "least_conn", "sticky"}
    CfgMaxFails = 1
    FailCap = 1
    MaxAttempts = 1
    CfgMaxInflight = 1
    KeyHalf = 4
    KeyOf <- KeysShared
    RRPeriod = 2
    EnvOps = {"admit"}
INVARIANT NoSpuriousFailure
INVARIANT StickyHonoured
SYMMETRY ClientSymmetry
PROPERTY ImplementsSlots
