---------------------------- MODULE LectureLedger ----------------------------
(***************************************************************************)
(* What the lecture tables promise their users: every booking, release,    *)
(* opening and closing of a lecture happens at one instant, wholly or not  *)
(* at all, and a booking never takes a lecture's displayed count past the  *)
(* capacity displayed with it.  An administrator's edit may rewrite the    *)
(* count and the capacity to anything.                                     *)
(***************************************************************************)
EXTENDS Integers, FiniteSets

CONSTANTS Lectures, Users, Terms

VARIABLES exists, row, roster

ledger == <<exists, row, roster>>

Blank == [count |-> 0, cap |-> 0, code |-> 0, term |-> CHOOSE t \in Terms : TRUE]

Init ==
    /\ exists = {}
    /\ row = [l \in Lectures |-> Blank]
    /\ roster = [l \in Lectures |-> {}]

\* A lecture opens empty, with a code no lecture of its term has.
Open(l) ==
    /\ l \notin exists
    /\ exists' = exists \cup {l}
    /\ \E r \in {row'[l]} :
          /\ r.count = 0
          /\ \A m \in exists : row[m].term = r.term => row[m].code # r.code
          /\ row' = [row EXCEPT ![l] = r]
    /\ UNCHANGED roster

Close(l) ==
    /\ l \in exists
    /\ exists' = exists \ {l}
    /\ row' = [row EXCEPT ![l] = Blank]
    /\ roster' = [roster EXCEPT ![l] = {}]

\* New enrollments f[l] for some lectures, all together.
Book(f) ==
    /\ \A l \in Lectures : f[l] # {} =>
          /\ l \in exists
          /\ f[l] \cap roster[l] = {}
          /\ row[l].count + Cardinality(f[l]) <= row[l].cap
    /\ roster' = [l \in Lectures |-> roster[l] \cup f[l]]
    /\ row' = [l \in Lectures |-> [row[l] EXCEPT !.count = @ + Cardinality(f[l])]]
    /\ UNCHANGED exists

Release(l, u) ==
    /\ u \in roster[l]
    /\ roster' = [roster EXCEPT ![l] = @ \ {u}]
    /\ row' = [row EXCEPT ![l].count = @ - 1]
    /\ UNCHANGED exists

\* An edit keeps the lecture's code and term.
Edit(l) ==
    /\ l \in exists
    /\ \E n \in {row'[l].count}, c \in {row'[l].cap} :
          row' = [row EXCEPT ![l].count = n, ![l].cap = c]
    /\ UNCHANGED <<exists, roster>>

Next ==
    \/ \E l \in Lectures : Open(l) \/ Close(l) \/ Edit(l)
    \/ \E f \in [Lectures -> SUBSET Users] : Book(f)
    \/ \E l \in Lectures, u \in Users : Release(l, u)

Spec == Init /\ [][Next]_ledger
=============================================================================
