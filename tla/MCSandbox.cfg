CONSTANTS
    a = a
    b = b
    None = None
    Pieces <- MCPieces
    Streams <- MCStreams
    MaxLength = 8
    Limits <- MCLimits
    Samples <- MCSamples
    Products <- MCProducts
    Bounded <- MCBounded
    MaxFaults = 2
SPECIFICATION FairSpec
INVARIANTS
    CheckIsExact
    ResultIsSound
    VerdictNotLost
PROPERTIES
    LauncherEnds
CHECK_DEADLOCK FALSE
