SPECIFICATION Spec
CONSTANTS
    Procs = {p1, p2}
    Servers = {i1}
    Rooms = {1}
    Users = {u1, u2, u3}
    SeatCounts = {2}
    Departures = {5}
    Lead = 1
    Period = 1
    Day = 9
    MaxTime = 0
    MaxSaves = 1
    MaxLeft = 2
SYMMETRY Symmetry
INVARIANTS
    SeatsAddUp
    DeletionAnnouncedAfter
CHECK_DEADLOCK FALSE
