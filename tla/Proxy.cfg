SPECIFICATION PFairSpec
CONSTANTS
    Servers = {"socks5", "http"}
    Arrivals <- OneEach
    MaxConnGlobal = 2
    Slots = 1
    AuthSettings = {TRUE, FALSE}
    Targets <- PlainTarget
INVARIANT PTypeOK
INVARIANT DrainReleasesAll
INVARIANT LeaseCoversSocket
INVARIANT AuthBeforeDial
INVARIANT OneAnswer
PROPERTY ServersReturn
PROPERTY StuckOnlyOnPeers
