\* Two requests, two codes for one or two addresses, two logins of one user.
SPECIFICATION Spec
CONSTANTS
    p1 = p1
    p2 = p2
    e1 = e1
    e2 = e2
    Procs = {p1, p2}
    Emails = {e1, e2}
    Users = {1}
    MaxCodes = 2
    MaxLogins = 2
    CodeLife = 3
    ProofLife = 5
    RetryDelay <- MCRetryDelay
    MaxTime = 6
SYMMETRY Symmetry
CHECK_DEADLOCK FALSE
INVARIANTS
    RedeemedOnce
    NewestStands
    LastRetryInVain
PROPERTIES
    ProofSpec
