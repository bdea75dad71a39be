SPECIFICATION Spec
CONSTANTS
    Frames = {1, 2}
    MaxQueue = 2
    MaxRetries = 1
    MaxBreaks = 2
    MaxRaises = 1
    MaxCrashes = 0
CHECK_DEADLOCK FALSE
INVARIANTS
    ReplayKeepsFrames
