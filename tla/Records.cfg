\* One row of each service, two requests in flight, three in all, two retreats.
SPECIFICATION Spec
CONSTANTS
    Procs = {p1, p2}
    Notices = {n1}
    Terms = {t1}
    Tokens = {k1}
    Users = {1, 2}
    Retreats = {1, 2}
    Values = {a, b}
    MaxRequests = 3
SYMMETRY Symmetry
CHECK_DEADLOCK FALSE
INVARIANTS
    RecordsStand
    ConfigSelectsExisting
