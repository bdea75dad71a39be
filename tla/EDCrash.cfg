SPECIFICATION FairSpec
CONSTANTS
    e1 = e1
    e2 = e2
    e3 = e3
    e4 = e4
    w1 = w1
    w2 = w2
    d1 = d1
    NoDevice = NoDevice
    NoWorker = NoWorker
    Execs = {e1}
    Workers = {w1}
    Devices = {d1}
    DeviceOf <- SharedDevice
    HostOf <- HostIsW1
    ForcedAgent <- Unpinned
    CapableOf <- AllCapable
    Threads = {t1}
    MaxPerAgent = 1
    MaxTotal = 2
    MaxAttempts = 2
    MaxRecovery = 0
    MaxLost = 1
    MaxDown = 1
    MaxPauses = 0
    MaxCancels = 0
    MaxSyncs = 0
PROPERTIES UnackedResolved ResultSettles
