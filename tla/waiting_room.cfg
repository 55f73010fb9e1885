SPECIFICATION Spec
CONSTANTS
    v1 = v1  v2 = v2  v3 = v3
    alice = alice  bob = bob
    hall = hall
    d1 = d1  d2 = d2
    w1 = w1  w2 = w2
    Null = Null
    Visits = {v1, v2, v3}
    Users = {alice, bob}
    Rooms = {hall}
    Dispatchers = {d1}
    Workers = {w1}
    Rate = 1
    BatchSize = 1
    Enforce = FALSE
    MaxNumber = 3
    Faults = {"expire"}
SYMMETRY Symmetry
PROPERTIES NobodyCutsIn
\* Every user may have come and gone: then nothing is left to do.
CHECK_DEADLOCK FALSE
