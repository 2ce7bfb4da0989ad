------------------------------- MODULE MCAuth -------------------------------
(* Auth, with values for TLC. *)
EXTENDS Auth, TLC

CONSTANTS p1, p2, e1, e2

Symmetry == Permutations({p1, p2}) \cup Permutations({e1, e2})

MCRetryDelay == 1 :> 1 @@ 2 :> 5

=============================================================================
