\* Board: both systems, every build and package; three attempts, four calls.
\* DMA: every alignment and every length up to three tables and a bit; rings
\* of three words, opened twice.
SPECIFICATION MCSpec
CONSTANTS
    Scenarios <- MCScenarios
    MaxCalls = 4
    MaxAttempts = 3
    PageSize = 2
    TableSize = 2
    RingSize = 3
    LoopCounter = 2
    MaxWords = 3
    DmaScenarios <- MCDmaScenarios
CHECK_DEADLOCK FALSE
INVARIANTS
    SuccessMeansProgrammed
    NeverKilledMidProgramming
    DmaTouchesPinned
    IdleMeansTransferred
    RingsIntact
PROPERTIES
    KernelInterruptsServed
    TransferReturns
