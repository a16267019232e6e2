SPECIFICATION MSpec
CONSTANTS
    Groups <- AllGroups
    Cluster <- Shared
    SourceSets <- Sources
    CodesOf <- DriverCodes
    InitResults <- DriverInits
    NoDriver = NoDriver
    MaxResources = 3
    Archives <- SmallArchives
    Names <- FileNames
    Begins <- NamesBegin
    BufferSizes = {0, 3}
    Transfers <- FileTransfers
    SizeMod = 16
    MaxTransfers = 2
INVARIANTS
    TypeOK
    ExactTable
    RightDriver
    ArchiveExact
    BufferExact
