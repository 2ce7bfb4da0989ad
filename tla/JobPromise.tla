----------------------------- MODULE JobPromise ------------------------------
(***************************************************************************)
(* What the queue workers promise the publisher of a job: it is not lost.  *)
(* Until it is recorded as sent it is waiting to be processed or lies in   *)
(* the dead-letter queue, from which a late attempt may still bring it     *)
(* back; it is recorded as sent only after it really was, and for good.    *)
(* Nothing is promised about how often it is sent.                         *)
(***************************************************************************)
EXTENDS Naturals

CONSTANT Jobs

VARIABLES phase, sends

promise == <<phase, sends>>

Init ==
    /\ phase = [j \in Jobs |-> "new"]
    /\ sends = [j \in Jobs |-> 0]

Move(j, from, to) ==
    /\ phase[j] \in from
    /\ phase' = [phase EXCEPT ![j] = to]
    /\ UNCHANGED sends

Accept(j) == Move(j, {"new"}, "waiting")

Send(j) ==
    /\ phase[j] # "new"
    /\ sends' = [sends EXCEPT ![j] = @ + 1]
    /\ UNCHANGED phase

Record(j) == sends[j] > 0 /\ Move(j, {"waiting", "dead"}, "sent")

GiveUp(j) == Move(j, {"waiting"}, "dead")

Revive(j) == Move(j, {"dead"}, "waiting")

Next == \E j \in Jobs : Accept(j) \/ Send(j) \/ Record(j) \/ GiveUp(j) \/ Revive(j)

Spec == Init /\ [][Next]_promise
=============================================================================
