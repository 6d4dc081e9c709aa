\* Progress: every viewer catches up and old text leaves.
CONSTANTS
    s1 = s1
    s2 = s2
    m1 = m1
    m2 = m2
    m3 = m3
    a1 = a1
    a2 = a2
    u1 = u1
    u2 = u2
    v1 = v1
    None = None
    Sources <- MCSources
    Ids <- MCIds
    Authors <- MCAuthors
    Uids <- MCUids
    States <- MCStates
    StartSources <- MCSources
    SourceSets <- NoSaves
    Inputs <- EditInputs
    Viewers <- MCViewers
    Overlays <- MCViewers
    PlatformOf <- MCPlatformOf
    OverlayChoices <- AllPlatforms
    History = 1
    StateWindow = 1
    MaxMessages = 1
    RingLimit = 2
    SeenLimit = 5
    BarrierLimit = 3
    MaxLag = 0
    MaxTime = 1
    MaxSequence = 3
    MaxEpoch = 1
    MaxPipe = 1
    MaxDrops = 1
SPECIFICATION FairViewSpec
PROPERTIES
    ViewersCatchUp
    ExpiredTextLeaves
CHECK_DEADLOCK FALSE
