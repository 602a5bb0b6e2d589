SPECIFICATION FairSpec
CONSTANTS
    j1 = j1
    j2 = j2
    Jobs <- MCJobs
    Snapshots <- MCSnapshots
    MaxBufferSize = 2
    MaxBufferCap = 3
    MaxRetries = 2
    MaxRows = 3
    MaxLogged = 4
INVARIANT LatestIsNewest
PROPERTY EventuallyDurable
CHECK_DEADLOCK FALSE
