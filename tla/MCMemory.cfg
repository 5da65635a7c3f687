\* Graphs: up to four; loading stops when memory is full.
\* Transfers: five back ends at every alignment, with a failing access; two callers, with and
\* without a lock for both.
SPECIFICATION MCSpec
CONSTANTS
    TotalSize = 61
    SharedSizes = {}
    PrivateSizes = {}
    Alignments = {}
    RetryAfterFailedGrowth = FALSE
    Graphs <- LoadedGraphs
    BurstBytes = 4
    WordBytes = 2
    MaxLoads = 4
    t1 = t1
    t2 = t2
    NoThread = NoThread
    Dword = 2
    Qword = 4
    Line = 8
    Chunk = 16
    Window = 16
    MemSize = 64
    Threads <- MCThreads
    Scenarios <- MCScenarios
INVARIANTS
    BatchJobsInsideBuffer
    InferencesIsolated
    TransfersExact
PROPERTIES
    ImplementsRegions
    EveryTransferReturns
