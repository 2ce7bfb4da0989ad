----------------------------- MODULE EmailProof -----------------------------
(***************************************************************************)
(* What the verification of e-mail addresses promises the rest of the      *)
(* system: an address counts as proven only after a code was asked for it  *)
(* and given back, and the proof lasts for a while.                        *)
(***************************************************************************)

CONSTANT Emails

VARIABLES
    asked,   \* addresses a code was drawn for
    proven   \* addresses with a verification token that is still valid

vars == <<asked, proven>>

Init ==
    /\ asked = {}
    /\ proven = {}

Ask(e) ==
    /\ asked' = asked \cup {e}
    /\ UNCHANGED proven

Prove(e) ==
    /\ e \in asked
    /\ proven' = proven \cup {e}
    /\ UNCHANGED asked

Expire(S) ==
    /\ proven' = proven \ S
    /\ UNCHANGED asked

Next ==
    \/ \E e \in Emails : Ask(e) \/ Prove(e)
    \/ \E S \in SUBSET Emails : Expire(S)

Spec == Init /\ [][Next]_vars

=============================================================================
