\* One instance whose register is at its last value when the device is opened,
\* in the interrupt build, no wait fails.
SPECIFICATION Spec
CONSTANTS
    NumInstances = 1
    CountModulus = 4
    InitialCount = 3
    Builds = {FALSE}
    MayTimeOut = FALSE
    MayCancel = FALSE
    LicensedJobs = 9
    MaxJobs = 4
    MaxOutstanding = 2
CHECK_DEADLOCK FALSE
INVARIANT WaitMeansDone
