SPECIFICATION PSpec
CONSTANTS
    Servers = {"http"}
    Arrivals <- OneHTTP
    MaxConnGlobal = 1
    Slots = 1
    AuthSettings = {FALSE}
    Targets <- QueryTargets
INVARIANT TargetPreserved
