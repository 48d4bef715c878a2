SPECIFICATION UserSpec
CONSTANTS
    Conns = {c1, c2}
    Users = {u1, u2}
    Nobody = Nobody
    Calls = {t1, t2, t3}
    Pushes = {p1}
    Evictions = {e1}
    Overlapping = {c2}
SYMMETRY Interchangeable
INVARIANTS
    IndexFollows
    PushReachesUser
