SPECIFICATION FairSpec
CONSTANTS
    IPs = {ip1, ip2}
    N = 2
    CfgMaxAttempts = 1
    Stagger = 3
    CfgRecheckMax = 1
INVARIANT TypeOK
INVARIANT NeverDropsWholePool
INVARIANT BudgetsHold
PROPERTY OnlyDuplicatesLeave
PROPERTY Settles
