SPECIFICATION FairSpec
CONSTANTS
    IOTimeout = 2
    MaxStreamDuration = 2
INVARIANT TypeOK
PROPERTY HalfCloseKeepsOther
PROPERTY TunnelEnds
PROPERTY CapEndsStream
