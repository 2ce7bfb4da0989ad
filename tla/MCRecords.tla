------------------------------ MODULE MCRecords ------------------------------
(* Records, with values for TLC. *)
EXTENDS Records, TLC

Symmetry == Permutations(Procs)

=============================================================================
