\* Safety of the store alone.
CONSTANTS
    s1 = s1
    s2 = s2
    m1 = m1
    m2 = m2
    m3 = m3
    a1 = a1
    a2 = a2
    u1 = u1
    u2 = u2
    u3 = u3
    None = None
    Sources <- MCSources
    Ids <- MCIds
    Authors <- MCAuthors
    Uids <- MCUids
    States <- MCStates
    StartSources <- MCSources
    SourceSets <- MCSourceSets
    Inputs <- MCInputs
    History = 2
    StateWindow = 1
    MaxMessages = 2
    RingLimit = 3
    SeenLimit = 3
    BarrierLimit = 2
    MaxLag = 0
    MaxTime = 3
    MaxSequence = 6
    MaxEpoch = 1
SPECIFICATION Spec
INVARIANTS
    TypeOK
    RingContiguous
    NoDeletedMessage
    ReplayHoldsNoDeletedText
    WithinLimits
PROPERTIES
    ChangesMoveCursor
    BarriersPersist
CHECK_DEADLOCK FALSE
