SPECIFICATION Spec
CONSTANTS
    Procs = {p1, p2}
    NoProc = NoProc
    Users = {u1, u2, u3}
    Payments = {pending}
    Pending = pending
    Forms = {f1}
    NoForm = NoForm
    WinnerLimit = 1
SYMMETRY Symmetry
INVARIANT WinnersBounded
PROPERTY ResultFinal
