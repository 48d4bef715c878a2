SPECIFICATION Spec
CONSTANTS
    Configs <- ThreeConfigs
    QueueCap = 1
    Items = 2
    MaxFrames = 1
    MaxBreaks = 1
INVARIANTS
    QueuedBeforeCloseIsWritten
    StreamIntact
    WaitsAreAnswered
    PendingIsWatched
