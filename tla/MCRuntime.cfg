\* Mailbox: two requests and two pings, in sessions where the firmware answers
\* in time and in sessions where it may stop, the host gives up after two polls
\* and may die.
\* Completion: two instances whose register has five values and wraps with the
\* third job, in the interrupt and the polling build; waits may time out or be
\* cancelled and the license may run out.
SPECIFICATION MCSpec
CONSTANTS
    NoRequest = NoRequest
    Requests = {r1, r2}
    SeqModulus = 3
    MagicNumber = 3
    WaitLimit = 2
    MaxPings = 2
    MaxCrashes = 1
    NumInstances = 2
    CountModulus = 5
    InitialCount = 2
    Builds = {FALSE, TRUE}
    MayTimeOut = TRUE
    MayCancel = TRUE
    LicensedJobs = 3
    MaxJobs = 4
    MaxOutstanding = 2
CHECK_DEADLOCK FALSE
INVARIANT WaitMeansDone
PROPERTIES
    ImplementsService
    EveryCallReturns
    EveryWaitReturns
