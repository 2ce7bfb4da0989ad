SPECIFICATION Spec
CONSTANTS
    Procs = {p1, p2}
    NoProc = NoProc
    Lectures = {1, 2}
    Users = {u1, u2, u3}
    Terms = {t1}
    Capacities = {1, 2}
    CheckedIn = {u1, u2}
    MaxSaves = 1
SYMMETRY Symmetry
INVARIANTS
    CountAccurate
    NoOverbooking
    AssignedOncePerRun
    CircleTakesDrop
PROPERTIES
    LedgerSpec
