CONSTANTS
    NumTasks = 3
    Workers = 2
    MaxActive = 0
    WindowInit = 1
    Increase = 2
    DecreaseNum = 1
    DecreaseDen = 2
    Turns = 2
SPECIFICATION FairSpec
INVARIANTS
    OneStory
    AgentsFitPool
PROPERTIES
    OldestKeepsRunning
    RunEnds
