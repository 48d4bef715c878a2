SPECIFICATION Spec
CONSTANTS
    Configs <- WebSocketOnly
    QueueCap = 1
    Items = 1
    MaxFrames = 2
    MaxBreaks = 1
INVARIANTS
    SendsAreBounded
