SPECIFICATION FairSpec
CONSTANTS
    t1 = t1
    t2 = t2
    Nodes = 2
    OnFailure <- SkipAbort
    MaxRetries = 1
    Threads = {t1}
    MaxRedelivered = 1
    MaxDuplicates = 1
    MaxRepeats = 1
    MaxPauses = 1
    MaxCancels = 1
    MaxRefused = 0
    Ages = TRUE
CHECK_DEADLOCK FALSE
INVARIANTS ActiveRunsBounded
 
