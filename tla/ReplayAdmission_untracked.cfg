CONSTANTS
    Requests = {1, 2}
    Rounds = 1
    Workers = {w1}
    Crashable = {w1}
    Stop = Stop
    Idle = Idle
    Gone = Gone
    Workloads <- TwoLong
    LongThreshold = 4
    PoolSize = 3
    WindowMinArg = 1
    WindowInitArg = 2
    WindowInc = 1
    DecNum = 7
    DecDen = 10
    CpuCapArg = 3
    HighLoad = 2
    LowLoad = 1
    LongPct = 80
    TargetPct = 90
    BlockSize = 1
    NumGpuBlocks = 11
    FreeReadings = {0, 5}
    StatsMayFail = TRUE
    LongCap = 2
SPECIFICATION FairReplay
PROPERTY
    TailLongAlone
