SPECIFICATION FairSpec
CONSTANTS
    Channels = {c1, c2}
    Threads = {t1}
    NoChannel = NoChannel
CHECK_DEADLOCK FALSE
INVARIANTS
    TypeOK
    NewestOwns
    NewTasksSurvive
PROPERTIES
    ComesBack
    GoneIsOffline
