CONSTANTS
    Sources <- MCSources
    NumRequests = 3
    MaxFrames = 4
    Failures = TRUE
SPECIFICATION Spec
CHECK_DEADLOCK FALSE
INVARIANTS
    FramesRendered
    FramesFollowSource
PROPERTIES
    DemoEnds
