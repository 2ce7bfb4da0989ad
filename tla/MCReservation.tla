--------------------------- MODULE MCReservation ---------------------------
(* Reservation, with values for TLC. *)
EXTENDS Reservation, TLC

CONSTANTS ann, bob, t1, t2, t3, run1, run2, caller1

MCOwner == t1 :> ann @@ t2 :> ann @@ t3 :> bob

MCBookings ==
    {[time |-> 1, titled |-> 1, target |-> {"everyone"}],
     [time |-> 0, titled |-> 1, target |-> {bob}],
     [time |-> 1, titled |-> 0, target |-> {}]}

=============================================================================
