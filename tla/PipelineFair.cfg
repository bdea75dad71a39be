\* One run of a pipeline with every kind of delay, one retry and one recovery.
SPECIFICATION FairSpec
CONSTANTS
    n1 = n1
    n2 = n2
    Absent = Absent
    NoNode = NoNode
    Nodes <- MCNodes
    Entry = n1
    Successors <- MCSuccessors
    Stops = {n2}
    PreDelay = {n2}
    PostDelay = {n1}
    MaxRetries = 1
    Tolerant = {n1}
    MaxRecoveries = 1
    StartStep = 1
    MaxIterations = 4
    Monitored = TRUE
    Expires = TRUE
    MaxHangs = 1
CHECK_DEADLOCK FALSE
INVARIANTS
    TypeOK
    WaitedForIsThere
    CancelBounded
    PauseBounded
    ReportsAgree
    CutNotCounted
PROPERTIES
    EndsUnlessResumeLost
