\* An old account and one that registers, two addresses, three requests.
SPECIFICATION Spec
CONSTANTS
    p1 = p1
    p2 = p2
    Procs = {p1, p2}
    Ids = {1, 2}
    Logins = {ann, bob}
    Emails = {e1, e2}
    Texts = {a, b}
    Legacy = {1}
    MaxRequests = 3
SYMMETRY Symmetry
CHECK_DEADLOCK FALSE
INVARIANTS
    NoTwins
    VerifiedMatches
    EditsStand
