SPECIFICATION Spec
CONSTANTS
    t1 = t1
    t2 = t2
    cpu1 = cpu1
    Threads <- OneThread
    CPUs <- OneCpu
    CpuOf <- AllOnOne
    QId = 1
    SubLen = 3
    CmpLen = 3
    IrqModes = {TRUE}
    MaxCommands = 4
INVARIANT
    ExpectedPhase
