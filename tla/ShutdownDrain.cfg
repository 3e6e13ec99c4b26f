SPECIFICATION PSpec
CONSTANTS
    Servers = {"socks5", "http"}
    Arrivals <- OneEach
    MaxConnGlobal = 2
    Slots = 1
    AuthSettings = {FALSE}
    Targets <- PlainTarget
PROPERTY DrainNotAbandoned
