SPECIFICATION FairSpec
CONSTANTS
    Scenarios <- MCScenarios
    MaxBurst = 2
    MaxHostMem = 4
    MaxReqs = 3
    Window = 4
    Capacity = 16
    MaxFaults = 2
    MaxRounds = 2
INVARIANTS LayoutMatchesBus WeightsInPlace InferenceReturnsItsOutputs DmaInsideHeldBuffers
PROPERTY EveryInferenceReturns
CHECK_DEADLOCK FALSE
