CONSTANTS
    Requests = {1, 2, 3, 4}
    Content <- Texts
    BlockSize = 2
    NumBlocks = 8
    Prompt <- Prompts
    MaxNew <- Outputs
    MaxRunning = 3
    MaxBatch = 4
    ChunkSize = 3
    RouterWait = 0
    BusyBlocks = 7
    AddedOutputLen = 1
    MinOutput = 1
    InitialEma = 1
    Abortable = {1}
    IgnoreEos = {3}
    None = None
SPECIFICATION Spec
INVARIANTS
    HoldsSound
    NoPreemptionWhileDeferred
PROPERTIES
    KeepsFCFS
    EventuallyFinished
