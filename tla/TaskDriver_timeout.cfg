CONSTANTS
    NumTasks = 2
    MaxWorkers = 1
    MayFail = FALSE
    Descendants = {{}, {"piped"}}
SPECIFICATION Spec
PROPERTY
    TimeoutIsHard
