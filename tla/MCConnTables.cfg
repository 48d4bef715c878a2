CONSTANTS
    Conns = {c1}
    Ids = {i1, i2}
    Keys = {k1, k2}
    Params = {p1}
    Subs = {s1, s2, s3}
    NoSub = NoSub
    MaxSubscriptions = 1
    Runs = {r1, r2, r3, r4}
    None = None

SPECIFICATION TablesSpec
SYMMETRY Symmetry
INVARIANTS
    IndexesExact
    TableSound
    ClosedRunsEnd
PROPERTIES
    IndexesMoveTogether
