CONSTANTS
    NumTasks = 3
    MaxWorkers = 2
    MayFail = TRUE
    Descendants = {{}, {"piped"}, {"silent"}, {"session"}, {"daemon"}, {"silent", "session"}}
SPECIFICATION Spec
INVARIANT
    RecordsSound
PROPERTY
    RunEnds
