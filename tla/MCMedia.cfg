CONSTANTS
    u1 = u1
    h1 = h1
    h2 = h2
    Pending = Pending
    None = None
    Jobs <- MCUploads
    Inputs <- MCUploads
    Outputs <- MCOutputs
    Order <- MCOrder
    MaxJobs = 1
    MaxObjects = 2
    MaxFaults = 2
SPECIFICATION FairSpec
INVARIANTS
    MediaTypeOK
    BytesAccounted
    AlertsPlayable
    RequestsSafe
    PublishedIsJournaled
    ReleasedStaysAbsent
PROPERTIES
    DueIsRemoved
