SPECIFICATION Spec
CONSTANTS
    Procs = {p1, p2, p3}
    NoProc = NoProc
    Users = {u1}
    Payments = {pending, paid}
    Pending = pending
    Forms = {f1, f2}
    NoForm = NoForm
    WinnerLimit = 1
SYMMETRY Symmetry
INVARIANTS
    CheckInConsistent
    SubmissionStands
PROPERTIES
    AdminDecides
