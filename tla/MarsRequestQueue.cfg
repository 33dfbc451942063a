CONSTANTS
    Ids = {1, 2, 3}
    LevelOf <- Levels
    ReuseIds = FALSE
    MaxAdds = 3
    MaxPrepends = 4
SPECIFICATION Spec
INVARIANTS
    HeapSound
PROPERTY
    ImplementsQueue
