------------------------------- MODULE Actors --------------------------------
(* Who takes part in an application, in Application and in Form.  Both model the use     *)
(* cases that write applications: Application has the row, its statuses and the lock of  *)
(* the row, Form has the answers and choices stored with it.                             *)

CONSTANTS
    Procs,   \* requests that may be in flight at once
    Users    \* applicants, by user id

=============================================================================
