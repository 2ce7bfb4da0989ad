------------------------------ MODULE MCAccount ------------------------------
(* Account, with values for TLC. *)
EXTENDS Account, TLC

CONSTANTS p1, p2

Symmetry == Permutations(Procs) \cup Permutations(Emails)

=============================================================================
