SPECIFICATION FairSpec
CONSTANTS
    d1 = d1
    d2 = d2
    a1 = a1
    a2 = a2
    Sessions = {s1}
    Devices = {d1, d2}
    Order <- TwoAccounts
    Conditions = {"all_completed", "consecutive_failures"}
    FailLimit = 1
    Chains = {c1, c2}
    MaxViews = 1
    Modes <- LoopOrOnce
CHECK_DEADLOCK FALSE
INVARIANTS
    TypeOK
    OverlapBounded
    AccountOnce
    CompletedIsIdle
PROPERTIES
    TicksFeedRunning
    
    
