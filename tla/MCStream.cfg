\* A ring of three jobs, every second buffer dropped by request; a streaming, a
\* failing and a debugging session.
SPECIFICATION FairSpec
CONSTANTS
    NumJobs = 3
    DropSourceBuffers = 1
    IsrModulus = 4
    SeqModulus = 4
    CountModulus = 3
    RequestCountWraps = FALSE
    DmaMayFail = TRUE
    HostCommands = {"ScheduleItem", "GetStatus", "Ping", "ManualArmDmaTransfer", "ManualScheduleDlaInference"}
    DebugAddress = 9
    DlaFifoDepth = 2
    RestartSizes = {2, 3}
    RestartWhileRunning = TRUE
    MaxRestarts = 1
INVARIANTS
    BufferNeverShared
    CaptureStallIsReported
    RestartRecovers
    InferencesInCaptureOrder
    DebugLeavesRingAlone
PROPERTY EveryRequestServed
