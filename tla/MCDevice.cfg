\* Lifecycle: the three MMDs with an interrupt thread, two opens that may fail
\* at any step, two jobs.  Handles: five MMDs, two clients of up to two boards,
\* three devices made, one write anywhere.
SPECIFICATION MCSpec
CONSTANTS
    Backends <- MCBackends
    MaxOpens = 2
    MaxJobs = 2
    Leftover = TRUE
    Platforms <- MCPlatforms
    Clients <- MCClients
    Boards <- MCBoards
    CsrSize = 1
    DdrSize = 2
    BeatBytes = 4
    Shapes <- MCShapes
    ClockRetries = 1
    MaxHandles = 3
    MaxWrites = 1
INVARIANTS
    CallsReachTheirBoard
PROPERTIES
    IsrRegistrationSafe
    CompletionsSeen
    CloseTerminates
