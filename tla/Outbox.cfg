SPECIFICATION FairSpec
CONSTANTS
    Frames = {1, 2, 3, 4, 5}
    MaxQueue = 2
    MaxRetries = 1
    MaxBreaks = 2
    MaxRaises = 1
    MaxCrashes = 1
CHECK_DEADLOCK FALSE
INVARIANTS
    TypeOK
    
    DeliveredOnce
    NoneVanishes
PROPERTIES
    QueueDrains
