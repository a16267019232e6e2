SPECIFICATION FairSpec
CONSTANTS
    Processors = 2
    Active <- TwoSets
    PageIds = 2
    W16 = 16
    Replies = {0, 1, 4, 9, 14, 15}
    Headers = {"memory", "ports", "bridge"}
INVARIANTS
    TypeOK
    MemoryOwned
    DeviceMemoryLive
    SharesProper
    ListedOnce
PROPERTIES
    ResetOrder
    InitEnds
