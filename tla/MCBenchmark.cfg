CONSTANTS
    Scenarios <- MCScenarios
    Chunks = 2
    PipeRoom = 1
SPECIFICATION Spec
CHECK_DEADLOCK FALSE
INVARIANTS
    OutputsInPlace
    ReportedAsRun
PROPERTIES
    BenchmarkEnds
