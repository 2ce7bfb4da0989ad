SPECIFICATION FairSpec
CONSTANTS
    Procs = {p1}
    Servers = {i1, i2}
    Rooms = {1}
    Users = {u1}
    SeatCounts = {1}
    Departures = {3, 5}
    Lead = 1
    Period = 2
    Day = 1
    MaxTime = 4
    MaxSaves = 1
    MaxLeft = 1
INVARIANTS
    ReadyOncePerInstance
    ReadyNotMissed
PROPERTIES
    OldRoomsArrive
CHECK_DEADLOCK FALSE
