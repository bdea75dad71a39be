SPECIFICATION FairSpec
CONSTANTS
    e1 = e1
    e2 = e2
    e3 = e3
    e4 = e4
    w1 = w1
    w2 = w2
    d1 = d1
    NoDevice = NoDevice
    NoWorker = NoWorker
    Execs = {e1}
    Workers = {w1, w2}
    Devices = {d1}
    DeviceOf <- NoDevices
    HostOf <- HostIsW1
    ForcedAgent <- Unpinned
    CapableOf <- AllCapable
    Threads = {t1}
    MaxPerAgent = 1
    MaxTotal = 2
    MaxAttempts = 1
    MaxRecovery = 1
    MaxLost = 0
    MaxDown = 0
    MaxPauses = 0
    MaxCancels = 1
    MaxSyncs = 0
PROPERTIES SlotReturned 
