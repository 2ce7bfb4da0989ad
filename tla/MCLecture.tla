------------------------------ MODULE MCLecture ------------------------------
EXTENDS Lecture, TLC

Symmetry == Permutations(Procs) \cup Permutations(CheckedIn)
=============================================================================
