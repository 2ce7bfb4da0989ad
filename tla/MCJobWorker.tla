----------------------------- MODULE MCJobWorker -----------------------------
(* JobWorker, with values for TLC. *)
EXTENDS JobWorker, TLC
=============================================================================
