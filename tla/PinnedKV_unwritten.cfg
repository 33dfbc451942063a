CONSTANTS
    Requests = {1, 2, 3, 4, 5}
    Content <- ContendedTalks
    BlockSize = 1
    NumBlocks = 15
    Job <- ContendedJobs
    Prompt <- ContendedPrompts
    IsLastStep <- ContendedLasts
    Before <- ContendedBefore
    MaxRunning = 3
    MaxBatch = 8
    LongPrefill = 0
    None = None
    MaxHold = 0
SPECIFICATION Spec
INVARIANT
    HitsComputed
