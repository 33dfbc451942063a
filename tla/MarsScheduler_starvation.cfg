CONSTANTS
    Requests = {1, 2}
    PromptLen <- PromptsLong
    MaxTokens <- OutputsLong
    Structured = {}
    BlockSize = 1
    NumGpuBlocks = 10
    MaxModelLen = 9
    MaxBatchTokens = 4
    MaxRunning = 2
    Window = 2
    Quanta <- QuantaLong
    Thresholds <- ThresholdsLong
    AgingInterval = 2
    Elapsed = {1}
    BatchQueueSize = 1
SPECIFICATION FairSpec
PROPERTY EventuallyFinished
