SPECIFICATION Spec
CONSTANTS
    Supers <- ManySupers
    Dirs <- TwoDirs
    Names <- ThreeNames
    MaxOpens = 2
    MaxFailures = 1
INVARIANTS
    TypeOK
    MemoryOwned
    DescriptorsExact
    LookupExact
    NoFaultWithMemory
