------------------------------ MODULE MCCarpool ------------------------------
EXTENDS Carpool, TLC

Symmetry == Permutations(Procs) \cup Permutations(Users)
=============================================================================
