SPECIFICATION HSpec
CONSTANTS
    Conns = {c1, c2, c3}
    IPs = {a}
    NoIP = NoIP
    NoState = NoState
    MaxGlobal = 2
    MaxPerIP = 1
    MaxRPS = 2
    TicksPerSec = 5
    Epoch = 5
    MaxTime = 13
INVARIANT TypeOK
INVARIANT GlobalConserved
INVARIANT PerIPConserved
INVARIANT LimitsRespected
INVARIANT RateWindow
PROPERTY ImplementsAdmission
PROPERTY PacedPeerPasses
SYMMETRY Symmetry
