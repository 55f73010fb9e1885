SPECIFICATION Spec
CONSTANTS
    r1 = r1  r2 = r2  r3 = r3
    w1 = w1  w2 = w2
    alice = alice  bob = bob
    front = front  back = back
    k1 = k1  k2 = k2  k3 = k3
    Null = Null
    Requests = {r1, r2, r3}
    Workers = {w1, w2}
    Users = {alice, bob}
    Seats = {front, back}
    LockKeys = {k1, k2, k3}
    Inputs <- TwoKeys
    Price <- MCPrice
    StartPoints <- AmplePoints
    BatchSize = 2
    Faults = {"api", "read", "event", "payment", "payanswer", "timeout", "session", "answer", "markfail", "crash"}
SYMMETRY Symmetry
INVARIANTS TypeOK OneBookingPerSeat ConfirmedIsBookedAndPaid RefusalIsTrue DeliveredToOne
\* Every request may have been decided, or lost: then nothing is left to do.
CHECK_DEADLOCK FALSE
