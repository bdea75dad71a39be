SPECIFICATION Spec
CONSTANTS
    t1 = t1
    t2 = t2
    Nodes = 3
    OnFailure <- ThreeKinds
    MaxRetries = 1
    Threads = {t1, t2}
    MaxRedelivered = 0
    MaxDuplicates = 0
    MaxRepeats = 1
    MaxPauses = 1
    MaxCancels = 0
    MaxRefused = 1
    Ages = FALSE
CHECK_DEADLOCK FALSE
PROPERTIES ImplementsPromise
