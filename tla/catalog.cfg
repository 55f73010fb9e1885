SPECIFICATION FairSpec
CONSTANTS
    p1 = p1  p2 = p2
    hall = hall
    Null = Null
    Perfs = {p1, p2}
    Venues = {hall}
    VenueOf <- OneHall
    Runs <- MCRuns
    LastDay = 3
    Horizon = 2
    Window = 2
    Faults = {"list", "detail", "venue", "row", "job"}
INVARIANTS TypeOK SyncRepairs
PROPERTIES IdsArePermanent TableImplemented JobEnds
\* The last day may have passed: then nothing is left to do.
CHECK_DEADLOCK FALSE
