CONSTANTS
    pa = pa
    pb = pb
    s1 = s1
    s2 = s2
    None = None
    Handles <- MCHandles
    Sources <- MCSources
    Viewers = {v1, v2}
    Kick <- MCKick
    StartProfiles <- SharedStart
    Saves <- SharingSaves
    MoveShared = TRUE
    Capacity = 2
    MaxPeriods = 1
    MaxDues = 1
    MaxMail = 2
    MaxCrashes = 0
SPECIFICATION FairSpec
PROPERTIES
    WatchedRuns
