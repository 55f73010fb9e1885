SPECIFICATION Spec
CONSTANTS
    p1 = p1  p2 = p2
    east = east  west = west
    Null = Null
    Perfs = {p1, p2}
    Venues = {east, west}
    Days = {1, 2}
    PAGE = 1
    Faults = {"read", "detail"}
    MaxId = 3
    MaxChanges = 4
INVARIANTS TypeOK QuietScroll SavedListIsRight SchedulesFollowTheText
SYMMETRY Symmetry
