\* Replay, snapshots and the page agree; the composition implements Feed.
CONSTANTS
    s1 = s1
    s2 = s2
    m1 = m1
    m2 = m2
    m3 = m3
    a1 = a1
    a2 = a2
    u1 = u1
    u2 = u2
    v1 = v1
    None = None
    Sources <- MCSources
    Ids <- MCIds
    Authors <- MCAuthors
    Uids <- MCUids
    States <- MCStates
    StartSources <- MCSources
    SourceSets <- NoSaves
    Inputs <- FeedInputs
    Viewers <- MCViewers
    Overlays <- MCViewers
    PlatformOf <- MCPlatformOf
    OverlayChoices <- AllPlatforms
    History = 1
    StateWindow = 1
    MaxMessages = 2
    RingLimit = 2
    SeenLimit = 5
    BarrierLimit = 1
    MaxLag = 0
    MaxTime = 1
    MaxSequence = 4
    MaxEpoch = 1
    MaxPipe = 1
    MaxDrops = 1
SPECIFICATION ViewSpec
INVARIANTS
    ReplayEqualsSnapshot
    ReplayKeepsOrder
PROPERTIES
    ImplementsFeed
CHECK_DEADLOCK FALSE
