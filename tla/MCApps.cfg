SPECIFICATION FairSpec
CONSTANTS
    Scenarios <- MCScenarios
    NumRequests = 2
    ImagePixels = 8
    Burst = 8
    ResultsKept = 1
    MaxSent = 3
    MaxRuns = 2
    MaxSignals = 2
    MaxFaults = 1
INVARIANTS PixelsInPlace ResultsFollowImages
PROPERTY StreamingEnds
CHECK_DEADLOCK FALSE
