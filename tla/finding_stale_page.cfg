SPECIFICATION Spec
CONSTANTS
    p1 = p1  p2 = p2
    east = east  west = west
    Null = Null
    Perfs = {p1, p2}
    Venues = {east, west}
    Days = {1, 2}
    PAGE = 1
    Faults = {}
    MaxId = 3
    MaxChanges = 2
INVARIANTS ItemsMatchFilter
SYMMETRY Symmetry
