CONSTANTS
    NumTasks = 4
    Tokens <- Estimates
    LongThreshold = 256
    PoolSize = 3
    WindowMinArg = 1
    WindowInitArg = 2
    WindowInc = 1
    DecNum = 7
    DecDen = 10
    CpuCapArg = 3
    NoKvLimit = 2
    LongMax = 1
    TailMax = 2
    TailPct = 80
    TargetPct = 90
    BlockSize = 16
    NumGpuBlocks = 100
    FreeReadings = {0, 12, 99}
SPECIFICATION FairSpec
INVARIANTS
    ReservationsSound
    InflightBounds
PROPERTY
    RunEnds
