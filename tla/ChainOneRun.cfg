SPECIFICATION Spec
CONSTANTS
    t1 = t1
    t2 = t2
    Nodes = 3
    OnFailure <- ThreeKinds
    MaxRetries = 1
    Threads = {t1, t2}
    MaxRedelivered = 0
    MaxDuplicates = 0
    MaxRepeats = 1
    MaxPauses = 1
    MaxCancels = 2
    MaxRefused = 1
    Ages = TRUE
CHECK_DEADLOCK FALSE
INVARIANTS TypeOK ActiveRunsBounded ChainVerdict RetryBound
PROPERTIES VerdictStays
