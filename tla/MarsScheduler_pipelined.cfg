CONSTANTS
    Requests = {1, 2, 3, 4}
    PromptLen <- Prompts
    MaxTokens <- Outputs
    Structured = {3}
    BlockSize = 2
    NumGpuBlocks = 5
    MaxModelLen = 9
    MaxBatchTokens = 5
    MaxRunning = 2
    Window = 3
    Quanta <- Quanta3
    Thresholds <- Thresholds3
    AgingInterval = 2
    Elapsed = {1, 2}
    BatchQueueSize = 2
SPECIFICATION FairSpec
INVARIANTS
    QueuePartition
    AccountsExact
    SlotsCovered
    WindowBound
    WaitingSorted
    WorkerKnowsScheduled
PROPERTY
    EventuallyFinished
