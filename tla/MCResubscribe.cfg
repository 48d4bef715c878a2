CONSTANTS
    k1 = k1
    k2 = k2
    Conns = {c1}
    SubIds = {s1}
    ReqIds = {}
    Keys = {k1, k2}
    Params = {p1}
    KeysAt <- MovingKeys
    None = None
    MaxRuns = 6
    MaxFrames = 2
    MaxVersion = 1
    MaxSubscriptions = 1
    MaxConcurrentRequests = 0
    MaxServerConcurrentRequests = 0
    Frames = {"subscribe", "unsubscribe"}
    Background = TRUE
    MayFail = TRUE
    MayClose = TRUE

SPECIFICATION Spec
INVARIANTS
    NoTriggerLost
    DispatchSound
PROPERTIES
    OnlyClientCancels
    RefinesComponents
