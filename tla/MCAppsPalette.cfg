SPECIFICATION FairSpec
CONSTANTS
    Scenarios <- PaletteScenarios
    NumRequests = 2
    ImagePixels = 8
    Burst = 8
    ResultsKept = 1
    MaxSent = 3
    MaxRuns = 2
    MaxSignals = 2
    MaxFaults = 1
INVARIANT PixelsInPlace
CHECK_DEADLOCK FALSE
