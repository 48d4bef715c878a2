CONSTANTS
    k1 = k1
    k2 = k2
    Conns = {c1}
    SubIds = {s1, s2}
    ReqIds = {q1}
    Keys = {k1}
    Params = {p1}
    KeysAt <- OneKey
    None = None
    MaxRuns = 6
    MaxFrames = 3
    MaxVersion = 1
    MaxSubscriptions = 1
    MaxConcurrentRequests = 2
    MaxServerConcurrentRequests = 2
    Frames = {"subscribe", "request", "cancel"}
    Background = FALSE
    MayFail = FALSE
    MayClose = FALSE

SPECIFICATION Spec
INVARIANTS
    NoTriggerLost
    DispatchSound
