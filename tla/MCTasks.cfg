SPECIFICATION Spec
CONSTANTS
    Top = top
    Kids = {k1, k2}
    Handler = h
    Workers = {w}
    Cancelers = {x}
    Remover = rm
    Flusher = fl
    Kinds = {"request", "shared", "detached", "scoped"}
    None = None
    MaxCalls <- MCMaxCalls
    MaxCancels = 1
CHECK_DEADLOCK FALSE
INVARIANTS
    EndReachesEverybody
    NothingLeftDue
PROPERTIES
    TerminalStays
