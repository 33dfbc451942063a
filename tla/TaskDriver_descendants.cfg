CONSTANTS
    NumTasks = 2
    MaxWorkers = 1
    MayFail = FALSE
    Descendants = {{}, {"silent"}}
SPECIFICATION Spec
PROPERTY
    DescendantsEnd
