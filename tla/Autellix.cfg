CONSTANTS
    Requests = {1, 2, 3, 4, 5}
    Job <- Programs
    Previous <- Before
    LastSteps = {3, 5}
    Prompt <- Prompts
    Total <- Ends
    BlockSize = 2
    NumBlocks = 5
    MaxRunning = 3
    MaxBatch = 4
    Thresholds <- Service
    Quanta <- Slices
    Beta = 2
    FcfsAfter = 1
    Abortable = {2}
    Nobody = Nobody
SPECIFICATION AutellixSpec
INVARIANTS
    QueuesSound
    BudgetExact
    ServiceCarriesOver
PROPERTY
    EventuallyFinished
