SPECIFICATION WorkerFairSpec
CONSTANTS
    v1 = v1  v2 = v2  v3 = v3
    alice = alice  bob = bob
    hall = hall
    d1 = d1  d2 = d2
    w1 = w1  w2 = w2
    Null = Null
    Visits = {v1, v2}
    Users = {alice, bob}
    Rooms = {hall}
    Dispatchers = {d1}
    Workers = {w1}
    Rate = 1
    BatchSize = 2
    Enforce = TRUE
    MaxNumber = 1
    Faults = {"api", "redis", "reply", "crash"}
INVARIANTS TypeOK WaiterHasPlace BookersWereCalled
PROPERTIES CalledIsAdmitted
\* Every user may have come and gone: then nothing is left to do.
CHECK_DEADLOCK FALSE
