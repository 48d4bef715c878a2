SPECIFICATION Spec
CONSTANTS
  Subs = {s1, s2}
  Patching = {s1}
  maxSubscribesInFlight = 1
  MaxConns = 2
  MaxVersion = 2
CHECK_DEADLOCK FALSE
INVARIANTS
    SlotsSound
    EachSubscribeSent
    ClosedIsForgotten
    MissedPatchRefetched
