CONSTANTS
    Requests = {1, 2, 3, 4}
    Content <- Talks
    BlockSize = 1
    NumBlocks = 4
    Job <- JobOf
    Prompt <- Prompts
    IsLastStep <- LastSteps
    Before <- TurnsBefore
    MaxRunning = 3
    MaxBatch = 3
    LongPrefill = 2
    None = None
    MaxHold = 1
SPECIFICATION Spec
INVARIANTS
    PinsSound
    AlwaysAVictim
PROPERTY
    EventuallyFinished
