SPECIFICATION Spec
CONSTANTS
    BlockSize = 16
    Files <- ThreeFiles
    Requests <- Reads
    MaxCalls = 1
    MaxFailures = 0
    NoTable = NoTable
INVARIANT
    ReadOnlyUntouched
