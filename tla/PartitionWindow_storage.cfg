SPECIFICATION WSpec
CONSTANTS
    c1 = c1
    c2 = c2
    p1 = p1
    p2 = p2
    f1 = f1
    g1 = g1
    f2 = f2
    Callers <- TwoCallers
    Handles <- TwoPartitions
    Files <- AllFiles
    FileOn <- OnPartition
    start_lba <- Starts
    size_in_lbas <- Lengths
    Usings <- SharedOrNot
    Nobody = Nobody
    LbaSize = 2
    PageSize = 4
    IntMod = 16
    Size = 16
    Requests <- MeetingRequests
    MaxFailures = 1
    MaxCalls = 3
INVARIANTS
    OnlyOwnBytes
    StackPlaced
    WindowKept
