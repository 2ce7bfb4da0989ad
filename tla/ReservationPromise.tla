------------------------- MODULE ReservationPromise -------------------------
(***************************************************************************)
(* What reserving a push notice promises: a reservation is picked up for   *)
(* sending only while it is booked, every run that picked it up owes it    *)
(* once to each of its receivers, and nobody receives what no run owes.    *)
(***************************************************************************)
EXTENDS Naturals

CONSTANTS
    Ids,           \* the reservations
    Runs,          \* the runs of the scheduler
    Tokens         \* the receivers

VARIABLES
    phase,     \* where each reservation stands: "none", "booked" or "out"
    audience,  \* the receivers it was booked for
    owed,      \* what each run still has to send: <<reservation, receiver>>
    receipts   \* how often each receiver got each reservation

vars == <<phase, audience, owed, receipts>>

Pairs(i) == {<<i, t>> : t \in audience[i]}

Init ==
    /\ phase = [i \in Ids |-> "none"]
    /\ audience = [i \in Ids |-> {}]
    /\ owed = [r \in Runs |-> {}]
    /\ receipts = [i \in Ids |-> [t \in Tokens |-> 0]]

Book(i, T) ==
    /\ phase[i] = "none"
    /\ phase' = [phase EXCEPT ![i] = "booked"]
    /\ audience' = [audience EXCEPT ![i] = T]
    /\ UNCHANGED <<owed, receipts>>

\* A run learns of a booked reservation.
Pick(r, i) ==
    /\ phase[i] = "booked"
    /\ owed' = [owed EXCEPT ![r] = @ \cup Pairs(i)]
    /\ UNCHANGED <<phase, audience, receipts>>

\* Reservations are canceled, or taken out of the book by the run sending them.
Remove(S) ==
    /\ S # {}
    /\ phase' = [i \in Ids |-> IF i \in S THEN "out" ELSE phase[i]]
    /\ \A i \in S : phase[i] # "none"
    /\ UNCHANGED <<audience, owed, receipts>>

\* One chunk of messages reaches its receivers.
Deliver(r, i, T) ==
    /\ \A t \in T : <<i, t>> \in owed[r]
    /\ owed' = [owed EXCEPT ![r] = @ \ ({i} \X T)]
    /\ receipts' = [receipts EXCEPT ![i] = [t \in Tokens |->
                        IF t \in T THEN receipts[i][t] + 1 ELSE receipts[i][t]]]
    /\ UNCHANGED <<phase, audience>>

\* A run does not send part of what it owes: a refusal, an error or a crash.
GiveUp(r, P) ==
    /\ owed' = [owed EXCEPT ![r] = @ \ P]
    /\ UNCHANGED <<phase, audience, receipts>>

Next ==
    \/ \E i \in Ids, T \in SUBSET Tokens : Book(i, T)
    \/ \E r \in Runs, i \in Ids : Pick(r, i)
    \/ \E S \in SUBSET Ids : Remove(S)
    \/ \E r \in Runs, i \in Ids, T \in SUBSET Tokens : Deliver(r, i, T)
    \/ \E r \in Runs : \E P \in SUBSET owed[r] : GiveUp(r, P)

Spec == Init /\ [][Next]_vars

=============================================================================
