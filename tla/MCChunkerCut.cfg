SPECIFICATION Spec
CONSTANTS
    MinChunk = 3
    AvgChunk = 4
    MaxChunk = 6
    WinSize = 2
    Bytes = {0, 1, 3}
    PolyBase = 5
    PolySize = 32
    FpSize = 8
    Unit = 2
    VarLen = 6
    FixLen = 8
    TraceLen = 3
    VarReads = {4, 8}
    FixReads = {4, 8}
    Jobs <- MCJobs
CHECK_DEADLOCK FALSE
INVARIANT EveryFile
