SPECIFICATION FairSpec
CONSTANTS
    None = None
    Conns = {ws1, st1}
    Sockets = {ws1}
    Stoppers = {s1}
    MaxRequests = 1
    MayExpire = TRUE
INVARIANTS
    SweepMissesNobody
    TeardownSound
PROPERTIES
    ObserverInOrder
    StopTerminates
