SPECIFICATION Spec
CONSTANTS
  Calls = {k1}
  Refreshers = {r1}
  MaxRefresh = 2
  MaxConns = 2
  CountCap = 2
  OptionSet <- MCOptions
  ServerMax <- MCServerMax
CHECK_DEADLOCK FALSE
INVARIANTS
    ExactlyOneResult
    VerdictReachesItsCaller
    TableFollowsConn
    ShutdownIsComplete
PROPERTIES
    EndIsFinal
