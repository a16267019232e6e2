SPECIFICATION FairSpec
CONSTANTS
    c1 = c1
    h = h
    Callers <- OneCaller
    Handles <- OneHandle
    Nobody = Nobody
    LbaSize = 2
    PageSize = 4
    IntMod = 16
    Size = 36
    Requests <- AllRequests
    MaxFailures = 1
    MaxCalls = 2
INVARIANTS
    TypeOK
    ChunkFits
    ReadPlaced
    ShortOnlyOnFailure
PROPERTY
    CallReturns
