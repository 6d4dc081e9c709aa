CONSTANTS
    None = None
    Keys = {twitch}
    Callers = {c1, c2}
    Pids = {p1, p2}
    Rotating = {twitch}
    Forces = {FALSE}
    MaxLinks = 2
    MaxGrants = 3
    MaxFaults = 1
SPECIFICATION FairSpec
INVARIANTS
    TypeOK
    WaitersHaveWorker
    AcceptedOfItsBinding
    CacheIsCurrent
    HealthyStaysActive
PROPERTIES
    WaitersAnswered
CHECK_DEADLOCK FALSE
