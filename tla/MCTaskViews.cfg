SPECIFICATION Spec
CONSTANTS
    Tasks = {t1}
    Goroutines = {g1, g2}
    Users = {u1}
    NoUser = NoUser
    u1 = u1
    Client = Client
    None = None
    MaxConns = 2
    Loads <- MCLoads
SYMMETRY Symmetry
CHECK_DEADLOCK FALSE
INVARIANTS
    ViewSettles
    RefusedOnlyToAnother
