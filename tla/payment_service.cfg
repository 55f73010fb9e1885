SPECIFICATION FairSpec
CONSTANTS
    alice = alice  bob = bob
    a = a  b = b
    c1 = c1  c2 = c2  c3 = c3  c4 = c4
    Null = Null
    Calls = {c1, c2, c3}
    Users = {alice, bob}
    Requests = {a, b}
    Amounts = {1, 3}
    StartPoints <- MCStartPoints
    Tasks <- MCTasks
    Faults = {"cut", "answer"}
INVARIANTS TypeOK PointsConserved OnePaymentPerRequest SeenIsCurrent
PROPERTIES LedgerImplemented EveryCallIsAnswered
\* Every call may have been answered: then nothing is left to do.
CHECK_DEADLOCK FALSE
