SPECIFICATION FairSpec
CONSTANTS
    t1 = t1
    t2 = t2
    cpu1 = cpu1
    Threads <- TwoThreads
    CPUs <- OneCpu
    CpuOf <- AllOnOne
    QId = 1
    SubLen = 3
    CmpLen = 4
    IrqModes = {TRUE, FALSE}
    MaxCommands = 5
INVARIANTS
    TypeOK
    OwnCompletion
    FetchIntact
    OneConsumer
    SlotsReturned
    HeadDoorbellExact
PROPERTIES
    DoorbellInOrder
    ServesCommands
    PollReturns
