SPECIFICATION FairSpec
CONSTANTS
    BlockSize = 16
    Files <- ThreeFiles
    Requests <- Edges
    MaxCalls = 1
    MaxFailures = 2
    NoTable = NoTable
INVARIANTS
    TypeOK
    RightPlace
    CacheTransparent
    TablesIntact
    ShortOnlyAtHole
PROPERTY
    CallReturns
