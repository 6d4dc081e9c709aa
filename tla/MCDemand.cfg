CONSTANTS
    pa = pa
    pb = pb
    s1 = s1
    s2 = s2
    None = None
    Handles <- MCHandles
    Sources <- MCSources
    Viewers = {v1, v2}
    Kick <- MCKick
    StartProfiles <- MCStartProfiles
    Saves <- MCSaves
    MoveShared = FALSE
    Capacity = 2
    MaxPeriods = 1
    MaxDues = 1
    MaxMail = 3
    MaxCrashes = 1
SPECIFICATION FairSpec
INVARIANTS
    TypeOK
    CountsMatchLeases
    DemandIsCurrent
    TimersArmed
    ConnectedShowsNoStale
PROPERTIES
    WatchedRuns
    UnwatchedStops
