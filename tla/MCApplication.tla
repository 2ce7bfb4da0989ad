---------------------------- MODULE MCApplication ----------------------------
EXTENDS Application, TLC

Symmetry == Permutations(Procs) \cup Permutations(Users) \cup Permutations(Forms)
=============================================================================
