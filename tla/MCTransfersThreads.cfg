\* A writing and a reading thread on one board of dcp_a10_pac; no graphs.
SPECIFICATION MCSpec
CONSTANTS
    TotalSize = 61
    SharedSizes = {}
    PrivateSizes = {}
    Alignments = {}
    RetryAfterFailedGrowth = FALSE
    Graphs <- LoadedGraphs
    BurstBytes = 4
    WordBytes = 2
    MaxLoads = 0
    t1 = t1
    t2 = t2
    NoThread = NoThread
    Dword = 2
    Qword = 4
    Line = 8
    Chunk = 16
    Window = 16
    MemSize = 64
    Threads <- MCThreads
    Scenarios <- PacThreads
INVARIANT EveryTransferExact
