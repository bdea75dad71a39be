SPECIFICATION Spec
CONSTANTS
    e1 = e1
    e2 = e2
    e3 = e3
    e4 = e4
    w1 = w1
    w2 = w2
    d1 = d1
    NoDevice = NoDevice
    NoWorker = NoWorker
    Execs = {e1, e2, e3}
    Workers = {w1}
    Devices = {d1}
    DeviceOf <- SharedDevice
    HostOf <- HostIsW1
    ForcedAgent <- Unpinned
    CapableOf <- AllCapable
    Threads = {t1, t2}
    MaxPerAgent = 1
    MaxTotal = 3
    MaxAttempts = 1
    MaxRecovery = 0
    MaxLost = 0
    MaxDown = 0
    MaxPauses = 1
    MaxCancels = 1
    MaxSyncs = 0
SYMMETRY ExecSymmetry
INVARIANTS TypeOK  DeviceOverlapBounded
