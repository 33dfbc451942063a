CONSTANTS
    Engines = {e0, e1}
    Rank0 = e0
    FrontEnds = {f1}
    Requests = {r1, r2}
    Steps = 1
    SyncEvery = 2
    Abortable = {r1}
    None = None
SPECIFICATION FairSpec
\* An aborted request may leave the engines waiting for each other.
CHECK_DEADLOCK FALSE
INVARIANTS
    EnginesAgree
PROPERTIES
    WavesMonotone
    EveryWaveEnds
