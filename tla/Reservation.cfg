\* Two reservations, one administrator, two runs that may overlap, one fault.
SPECIFICATION FairSpec
CONSTANTS
    ann = ann
    bob = bob
    t1 = t1
    t2 = t2
    t3 = t3
    run1 = run1
    run2 = run2
    caller1 = caller1
    Ids = {1, 2}
    Runs = {run1, run2}
    Callers = {caller1}
    Users = {ann, bob}
    Tokens = {t1, t2, t3}
    BadTokens = {t3}
    Owner <- MCOwner
    Bookings <- MCBookings
    ChunkSize = 1
    MaxTime = 1
    MaxFaults = 1
INVARIANTS
    OnceUnlessOverlap
    CancelHolds
    NothingLost
    EveryReceiverTried
PROPERTIES
    PromiseSpec
    EveryoneServed
