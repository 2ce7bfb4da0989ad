---------------------------- MODULE LectureProofs ----------------------------
(* Theorems about Lecture and their proofs. *)
EXTENDS Lecture, FiniteSetTheorems, WellFoundedInduction, TLAPS

\* The placeholders idle requests and free ids carry have the right shape.
LEMMA Placeholders ==
    /\ NoRow \in Row
    /\ NoJob \in Job
    /\ Nobody \in [Lectures -> SUBSET Users]
<1>1. NoTerm \in Terms
  BY ConstantsAssumption DEF NoTerm
<1>2. NoRow \in Row
  BY <1>1 DEF NoRow, Row
<1> QED
  BY <1>2 DEF NoJob, Job, Nobody

LEMMA GotoType ==
    ASSUME TypeOK, NEW p \in Procs, NEW point \in PCs, NEW j \in Job, Goto(p, point, j)
    PROVE  /\ pc' \in [Procs -> PCs]
           /\ job' \in [Procs -> Job]
  BY DEF TypeOK, Goto

\* A request that ends leaves well-shaped bookkeeping.
LEMMA FinishType ==
    ASSUME TypeOK, NEW p \in Procs, Finish(p)
    PROVE  /\ pc' \in [Procs -> PCs]
           /\ job' \in [Procs -> Job]
           /\ staged' \in [Procs -> [Lectures -> SUBSET Users]]
           /\ lock' \in [Lectures -> Procs \cup {NoProc}]
           /\ \A l \in Lectures : lock[l] = NoProc => lock'[l] = NoProc
<1>1. "idle" \in PCs
  BY DEF PCs
<1>2. pc' \in [Procs -> PCs] /\ job' \in [Procs -> Job]
  BY <1>1, Placeholders, GotoType DEF Finish
<1>3. staged' \in [Procs -> [Lectures -> SUBSET Users]]
  BY Placeholders DEF Finish, TypeOK
<1>4. /\ lock' \in [Lectures -> Procs \cup {NoProc}]
      /\ \A l \in Lectures : lock[l] = NoProc => lock'[l] = NoProc
  BY DEF Finish, TypeOK
<1> QED
  BY <1>2, <1>3, <1>4

LEMMA LockType ==
    ASSUME TypeOK, NEW p \in Procs, NEW l \in Lectures, LockRow(p, l)
    PROVE  /\ lock' \in [Lectures -> Procs \cup {NoProc}]
           /\ \A m \in Lectures \ exists : lock'[m] = NoProc
  BY DEF TypeOK, LockRow

\* A booking keeps the shape of rows and rosters.
LEMMA BookType ==
    ASSUME TypeOK, NEW f \in [Lectures -> SUBSET Users], Book(f)
    PROVE  /\ roster' \in [Lectures -> SUBSET Users]
           /\ row' \in [Lectures -> Row]
<1>1. \A l \in Lectures : Cardinality(f[l]) \in Nat
  <2>1. \A l \in Lectures : f[l] \subseteq Users
    OBVIOUS
  <2>2. \A l \in Lectures : IsFiniteSet(f[l])
    BY <2>1, ConstantsAssumption, FS_Subset
  <2> QED
    BY <2>2, FS_CardinalityType
<1>2. roster' \in [Lectures -> SUBSET Users]
  BY DEF Book, TypeOK
<1>3. ASSUME NEW l \in Lectures
      PROVE  [row[l] EXCEPT !.count = @ + Cardinality(f[l])] \in Row
  BY <1>1 DEF TypeOK, Row
<1> QED
  BY <1>2, <1>3 DEF Book

LEMMA TypeInit == Init => TypeOK
  BY Placeholders, ConstantsAssumption DEF Init, TypeOK, PCs

LEMMA TypeStep == TypeOK /\ [Next]_vars => TypeOK'
<1> SUFFICES ASSUME TypeOK, [Next]_vars PROVE TypeOK'
  OBVIOUS
<1>0. \A p \in Procs : job[p] \in Job
  BY DEF TypeOK
<1>1. ASSUME NEW p \in Procs, NEW t \in Terms, NEW cap \in Capacities,
             CreateReadCode(p, t, cap)
      PROVE  TypeOK'
  <2>1. PICK code \in {1} \cup {c + 1 : c \in TermCodes(t)} :
           Goto(p, "create", [NoJob EXCEPT !.seen =
               [count |-> 0, cap |-> cap, code |-> code, term |-> t]])
    BY <1>1 DEF CreateReadCode
  <2>2. code \in Nat
    BY DEF TermCodes, InTerm, TypeOK, Row
  <2>3. [count |-> 0, cap |-> cap, code |-> code, term |-> t] \in Row
    BY <2>2, ConstantsAssumption DEF Row
  <2>4. [NoJob EXCEPT !.seen = [count |-> 0, cap |-> cap, code |-> code, term |-> t]] \in Job
    BY <2>3, Placeholders DEF Job
  <2> QED
    BY <1>1, <2>1, <2>4, GotoType DEF CreateReadCode, PCs, TypeOK
<1>2. ASSUME NEW p \in Procs, CreateInsert(p) PROVE TypeOK'
  BY <1>0, <1>2, FinishType DEF CreateInsert, Job, TypeOK
<1>3. ASSUME NEW p \in Procs, NEW l \in Lectures, UpdateFind(p, l) PROVE TypeOK'
  <2>1. PICK r \in Row : Goto(p, "reload", [NoJob EXCEPT !.lecture = l, !.seen = r])
    <3>1. \A cap \in Capacities : [row[l] EXCEPT !.cap = cap] \in Row
      BY ConstantsAssumption DEF Row, TypeOK
    <3> QED
      BY <1>3, <3>1 DEF UpdateFind, TypeOK
  <2>2. [NoJob EXCEPT !.lecture = l, !.seen = r] \in Job
    BY Placeholders DEF Job
  <2>3. pc' \in [Procs -> PCs] /\ job' \in [Procs -> Job]
    BY <2>1, <2>2, GotoType DEF PCs
  <2>4. saves' \in 0 .. MaxSaves
    <3>1. saves < MaxSaves /\ saves' = saves + 1
      BY <1>3 DEF UpdateFind
    <3> QED
      BY <3>1, ConstantsAssumption DEF TypeOK
  <2> QED
    BY <1>3, <2>3, <2>4 DEF UpdateFind, TypeOK
<1>4. ASSUME NEW p \in Procs, UpdateReload(p) PROVE TypeOK'
  <2>1. PICK d \in SUBSET Columns : Goto(p, "write", [job[p] EXCEPT !.dirty = d])
    BY <1>4 DEF UpdateReload
  <2>2. [job[p] EXCEPT !.dirty = d] \in Job
    BY <1>0 DEF Job
  <2> QED
    BY <1>4, <2>1, <2>2, GotoType DEF UpdateReload, PCs, TypeOK
<1>5. ASSUME NEW p \in Procs, UpdateWrite(p) PROVE TypeOK'
  <2> DEFINE l == job[p].lecture
             e == job[p].seen
             d == job[p].dirty
             r == [row[l] EXCEPT !.count = IF "count" \in d THEN e.count ELSE @,
                                 !.cap   = IF "cap"   \in d THEN e.cap   ELSE @]
  <2>1. e \in Row
    BY <1>0 DEF Job
  <2>2. l \in exists => r \in Row
    BY <2>1 DEF Row, TypeOK
  <2>3. row' \in [Lectures -> Row]
    BY <1>5, <2>2 DEF UpdateWrite, TypeOK
  <2>4. rewound' \subseteq Lectures /\ shrunk' \subseteq Lectures
    BY <1>5 DEF UpdateWrite, TypeOK
  <2>5. /\ Finish(p)
        /\ UNCHANGED <<exists, roster, born, saves>>
    BY <1>5 DEF UpdateWrite
  <2> QED
    BY <2>3, <2>4, <2>5, FinishType DEF TypeOK
<1>6. ASSUME NEW l \in Lectures, Delete(l) PROVE TypeOK'
  BY <1>6, Placeholders DEF Delete, TypeOK
<1>7. ASSUME NEW p \in Procs, NEW l \in Lectures, NEW u \in Users, EnrollLock(p, l, u)
      PROVE  TypeOK'
  <2>1. [NoJob EXCEPT !.lecture = l, !.users = {u}, !.seen = row[l]] \in Job
    BY Placeholders DEF Job, TypeOK
  <2> QED
    BY <1>7, <2>1, GotoType, LockType DEF EnrollLock, PCs, TypeOK
<1>8. ASSUME NEW p \in Procs, EnrollCommit(p) PROVE TypeOK'
  <2>1. Only(job[p].lecture, job[p].users) \in [Lectures -> SUBSET Users]
    BY <1>0 DEF Only, Job
  <2> QED
    BY <1>8, <2>1, FinishType, BookType DEF EnrollCommit, TypeOK
<1>9. ASSUME NEW p \in Procs, NEW l \in Lectures, NEW u \in Users, DropEnrollment(p, l, u)
      PROVE  TypeOK'
  <2>1. [NoJob EXCEPT !.lecture = l, !.users = {u}] \in Job
    BY Placeholders DEF Job
  <2> QED
    BY <1>9, <2>1, GotoType DEF DropEnrollment, PCs, TypeOK
<1>9a. ASSUME NEW p \in Procs, DropLecture(p) PROVE TypeOK'
  <2>1. job[p].lecture \in Lectures
    BY <1>9a DEF DropLecture, LockRow, TypeOK
  <2>2. /\ lock' \in [Lectures -> Procs \cup {NoProc}]
        /\ \A m \in Lectures \ exists : lock'[m] = NoProc
    BY <1>9a, <2>1, LockType DEF DropLecture
  <2>3. pc' \in [Procs -> PCs] /\ job' \in [Procs -> Job]
    BY <1>0, <1>9a, GotoType DEF DropLecture, PCs
  <2> QED
    BY <1>9a, <2>2, <2>3 DEF DropLecture, TypeOK
<1>9b. ASSUME NEW p \in Procs, DropUser(p) \/ BulkTerm(p) PROVE TypeOK'
  <2>1. pc' \in [Procs -> PCs] /\ job' \in [Procs -> Job]
    BY <1>0, <1>9b, GotoType DEF DropUser, BulkTerm, PCs
  <2> QED
    BY <1>9b, <2>1 DEF DropUser, BulkTerm, TypeOK
<1>10. ASSUME NEW p \in Procs, DropCommit(p) PROVE TypeOK'
  <2>1. \A l \in Lectures : [row[l] EXCEPT !.count = @ - 1] \in Row
    BY DEF Row, TypeOK
  <2>2. row' \in [Lectures -> Row] /\ roster' \in [Lectures -> SUBSET Users]
    BY <1>0, <1>10, <2>1 DEF DropCommit, Job, TypeOK
  <2> QED
    BY <1>10, <2>2, FinishType DEF DropCommit, TypeOK
<1>11. ASSUME NEW p \in Procs, NEW l \in Lectures, NEW S \in SUBSET Users, BulkLock(p, l, S)
       PROVE  TypeOK'
  <2>1. [NoJob EXCEPT !.lecture = l, !.users = S, !.seen = row[l]] \in Job
    BY Placeholders DEF Job, TypeOK
  <2> QED
    BY <1>11, <2>1, GotoType, LockType DEF BulkLock, PCs, TypeOK
<1>12. ASSUME NEW p \in Procs, BulkEligible(p) PROVE TypeOK'
  BY <1>0, <1>12, GotoType DEF BulkEligible, PCs, TypeOK
<1>13. ASSUME NEW p \in Procs, BulkCommit(p) PROVE TypeOK'
  <2>1. Only(job[p].lecture, job[p].users) \in [Lectures -> SUBSET Users]
    BY <1>0 DEF Only, Job
  <2> QED
    BY <1>13, <2>1, FinishType, BookType DEF BulkCommit, TypeOK
<1>14. ASSUME NEW p \in Procs, NEW t \in Terms, AutoPool(p, t) PROVE TypeOK'
  <2>1. [NoRow EXCEPT !.term = t] \in Row
    BY Placeholders DEF Row
  <2>2. Eligible(t) \subseteq Users
    BY ConstantsAssumption DEF Eligible
  <2>3. [NoJob EXCEPT !.users = Eligible(t), !.seen = [NoRow EXCEPT !.term = t]] \in Job
    BY <2>1, <2>2, Placeholders DEF Job
  <2> QED
    BY <1>14, <2>3, GotoType DEF AutoPool, PCs, TypeOK
<1>15. ASSUME NEW p \in Procs, AutoList(p) PROVE TypeOK'
  <2>1. PICK S \in SUBSET Lectures : Goto(p, "assign", [job[p] EXCEPT !.todo = S])
    BY <1>15 DEF AutoList, InTerm, TypeOK
  <2>2. [job[p] EXCEPT !.todo = S] \in Job
    BY <1>0 DEF Job
  <2> QED
    BY <1>15, <2>1, <2>2, GotoType DEF AutoList, PCs, TypeOK
<1>16. ASSUME NEW p \in Procs, AutoLock(p) PROVE TypeOK'
  <2>1. PICK l \in Lectures :
           \/ /\ LockRow(p, l)
              /\ Goto(p, "fill", [job[p] EXCEPT !.todo = @ \ {l}, !.lecture = l,
                                                !.seen = row[l]])
           \/ /\ Goto(p, "assign", [job[p] EXCEPT !.todo = @ \ {l}])
              /\ UNCHANGED lock
    BY <1>16 DEF AutoLock
  <2>2. /\ [job[p] EXCEPT !.todo = @ \ {l}, !.lecture = l, !.seen = row[l]] \in Job
        /\ [job[p] EXCEPT !.todo = @ \ {l}] \in Job
    BY <1>0 DEF Job, TypeOK
  <2>3. pc' \in [Procs -> PCs] /\ job' \in [Procs -> Job]
    BY <2>1, <2>2, GotoType DEF PCs
  <2>4. /\ lock' \in [Lectures -> Procs \cup {NoProc}]
        /\ \A m \in Lectures \ exists : lock'[m] = NoProc
    BY <2>1, LockType DEF TypeOK
  <2> QED
    BY <1>16, <2>3, <2>4 DEF AutoLock, TypeOK
<1>17. ASSUME NEW p \in Procs, AutoFill(p) PROVE TypeOK'
  <2>1. \A S \in SUBSET Users : [job[p] EXCEPT !.users = @ \ S] \in Job
    BY <1>0 DEF Job
  <2>2. pc' \in [Procs -> PCs] /\ job' \in [Procs -> Job]
    BY <1>0, <1>17, <2>1, GotoType DEF AutoFill, Spliced, PCs, Job
  <2>3. staged' \in [Procs -> [Lectures -> SUBSET Users]]
    <3>1. PICK S \in SUBSET Users :
             staged' = staged \/ staged' = [staged EXCEPT ![p][job[p].lecture] = S]
      BY <1>0, <1>17 DEF AutoFill, Inserted, Job
    <3>2. [staged[p] EXCEPT ![job[p].lecture] = S] \in [Lectures -> SUBSET Users]
      BY DEF TypeOK
    <3> QED
      BY <3>1, <3>2 DEF TypeOK
  <2> QED
    BY <1>17, <2>2, <2>3 DEF AutoFill, TypeOK
<1>18. ASSUME NEW p \in Procs, AutoCommit(p) PROVE TypeOK'
  BY <1>18, FinishType, BookType DEF AutoCommit, TypeOK
<1>19. ASSUME NEW p \in Procs, Abort(p) PROVE TypeOK'
  BY <1>19, FinishType DEF Abort, TypeOK
<1>20. CASE UNCHANGED vars
  BY <1>20 DEF vars, TypeOK
<1> QED
  BY <1>1, <1>2, <1>3, <1>4, <1>5, <1>6, <1>7, <1>8, <1>9, <1>9a, <1>9b,
     <1>10, <1>11, <1>12, <1>13, <1>14, <1>15, <1>16, <1>17, <1>18, <1>19, <1>20
  DEF Next, Request, Step

\* Every variable keeps its shape and no row disappears under a lock.
THEOREM TypeCorrect == Spec => []TypeOK
  BY TypeInit, TypeStep, PTL DEF Spec

-----------------------------------------------------------------------------
(* The inductive invariant.  CountAccurate and NoOverbooking are not        *)
(* inductive: that a commit adds what it counts and stays within capacity   *)
(* rests on what the row locks protect between the read and the commit.     *)

Locked == {"enroll", "dropuser", "drop", "term", "eligible", "bulk", "fill"}

\* Where a request holds the enrollment it is about to delete.
Drops == {"dropping", "dropuser", "drop"}

\* The lecture a request works on is locked by it, and what it read is current.
ReadUnderLock(p) ==
    pc[p] \in Locked =>
        /\ job[p].lecture \in exists
        /\ lock[job[p].lecture] = p
        /\ pc[p] \notin Drops => job[p].seen = row[job[p].lecture]

\* What each request knows of the users it is about to move.
MovesKnown(p) ==
    /\ pc[p] = "create" => job[p].seen.count = 0
    /\ pc[p] = "enroll" => \E u \in Users : job[p].users = {u}
    /\ pc[p] \in Drops =>
           /\ job[p].lecture \in Lectures
           /\ \E u \in roster[job[p].lecture] : job[p].users = {u}
    /\ pc[p] = "bulk" => Fits(job[p])

\* Enrollments inserted and not committed are new, fit and are under lock.
StagedUnderLock(p) ==
    \A l \in Lectures : staged[p][l] # {} =>
        /\ pc[p] \in {"assign", "fill"}
        /\ l \in exists
        /\ lock[l] = p
        /\ staged[p][l] \cap roster[l] = {}
        /\ row[l].count + Cardinality(staged[p][l]) <= row[l].cap
        /\ staged[p][l] \cap job[p].users = {}
        /\ pc[p] = "fill" => l # job[p].lecture

StagedApart(p) ==
    \A l, m \in Lectures : l # m => staged[p][l] \cap staged[p][m] = {}

RequestInv(p) ==
    ReadUnderLock(p) /\ MovesKnown(p) /\ StagedUnderLock(p) /\ StagedApart(p)

TablesInv ==
    /\ exists \subseteq born
    /\ \A l \in Lectures \ exists : roster[l] = {}
    /\ CountAccurate
    /\ NoOverbooking

\* An enrollment is being dropped by one request at most.
DropsApart ==
    \A p, q \in Procs, l \in Lectures, u \in Users :
        HoldsEnrollment(p, l, u) /\ HoldsEnrollment(q, l, u) => p = q

IInv == TypeOK /\ TablesInv /\ DropsApart /\ \A p \in Procs : RequestInv(p)

\* A step deletes no enrollment that a request other than p has locked.
HeldStay(p) ==
    \A q \in Procs \ {p}, l \in Lectures : \A u \in roster[l] :
        HoldsEnrollment(q, l, u) => u \in roster'[l]

-----------------------------------------------------------------------------
(* Facts about cardinalities of sets of users. *)

LEMMA UsersCount ==
    ASSUME NEW S \in SUBSET Users
    PROVE  IsFiniteSet(S) /\ Cardinality(S) \in Nat /\ (Cardinality(S) = 0 <=> S = {})
<1>1. IsFiniteSet(S)
  BY ConstantsAssumption, FS_Subset
<1> QED
  BY <1>1, FS_CardinalityType, FS_EmptySet

LEMMA UsersJoin ==
    ASSUME NEW S \in SUBSET Users, NEW T \in SUBSET Users, S \cap T = {}
    PROVE  Cardinality(S \cup T) = Cardinality(S) + Cardinality(T)
<1>1. IsFiniteSet(S) /\ IsFiniteSet(T)
  BY UsersCount
<1>2. Cardinality(S \cup T) =
        Cardinality(S) + Cardinality(T) - Cardinality(S \cap T)
  BY <1>1, FS_Union
<1>3. Cardinality(S \cap T) = 0
  BY FS_EmptySet
<1>4. Cardinality(S) \in Nat /\ Cardinality(T) \in Nat
  BY UsersCount
<1> QED
  BY <1>2, <1>3, <1>4

LEMMA UsersShrink ==
    ASSUME NEW S \in SUBSET Users, NEW T \in SUBSET Users, S \subseteq T
    PROVE  Cardinality(S) <= Cardinality(T)
  BY UsersCount, FS_Subset

LEMMA UsersRemove ==
    ASSUME NEW S \in SUBSET Users, NEW u \in S
    PROVE  Cardinality(S \ {u}) = Cardinality(S) - 1
  BY UsersCount, FS_RemoveElement

-----------------------------------------------------------------------------
(* How a step of one request leaves what the others know untouched. *)

\* What q knows stays true when q stays where it is and no row it holds changes.
LEMMA OthersKeep ==
    ASSUME NEW q \in Procs, TypeOK, RequestInv(q),
           pc'[q] = pc[q], job'[q] = job[q], staged'[q] = staged[q],
           \A l \in Lectures : lock[l] = q =>
               /\ lock'[l] = q
               /\ row'[l] = row[l]
               /\ roster'[l] = roster[l]
               /\ l \in exists => l \in exists',
           \A l \in Lectures : \A u \in roster[l] :
               HoldsEnrollment(q, l, u) => u \in roster'[l]
    PROVE  RequestInv(q)'
<1>1. exists \subseteq Lectures
  BY DEF TypeOK
<1>2. ReadUnderLock(q)'
  BY <1>1 DEF RequestInv, ReadUnderLock
<1>3. MovesKnown(q)'
  <2>1. ASSUME pc[q] \in Drops
        PROVE  /\ job[q].lecture \in Lectures
               /\ \E u \in roster'[job[q].lecture] : job[q].users = {u}
    <3>1. job[q].lecture \in Lectures
      BY <2>1 DEF RequestInv, MovesKnown
    <3>2. PICK u \in roster[job[q].lecture] : job[q].users = {u}
      BY <2>1 DEF RequestInv, MovesKnown
    <3>3. HoldsEnrollment(q, job[q].lecture, u)
      BY <2>1, <3>2 DEF HoldsEnrollment, Drops
    <3> QED
      BY <3>1, <3>2, <3>3
  <2> QED
    BY <2>1 DEF RequestInv, MovesKnown, Fits
<1>4. StagedUnderLock(q)'
  BY DEF RequestInv, StagedUnderLock
<1>5. StagedApart(q)'
  BY DEF RequestInv, StagedApart
<1> QED
  BY <1>2, <1>3, <1>4, <1>5 DEF RequestInv

\* A request that ended knows nothing and holds nothing.
LEMMA EndedKnowsNothing ==
    ASSUME NEW p \in Procs, TypeOK, Finish(p)
    PROVE  RequestInv(p)'
<1>1. pc'[p] = "idle" /\ staged'[p] = Nobody
  BY DEF Finish, Goto, TypeOK
<1> QED
  BY <1>1 DEF RequestInv, ReadUnderLock, MovesKnown, StagedUnderLock, StagedApart,
              Locked, Drops, Nobody

\* Drops stay apart when p turns to no enrollment another request holds.
LEMMA ApartKept ==
    ASSUME NEW p \in Procs, IInv, TypeOK',
           \A q \in Procs \ {p} : pc'[q] = pc[q] /\ job'[q] = job[q],
           \A q \in Procs \ {p}, l \in Lectures, u \in Users :
               HoldsEnrollment(p, l, u)' => ~HoldsEnrollment(q, l, u)
    PROVE  DropsApart'
<1> SUFFICES ASSUME NEW q \in Procs, NEW r \in Procs, NEW l \in Lectures, NEW u \in Users,
                    HoldsEnrollment(q, l, u)', HoldsEnrollment(r, l, u)'
             PROVE  q = r
  BY DEF DropsApart
<1>1. \A v \in Procs \ {p} : HoldsEnrollment(v, l, u)' <=> HoldsEnrollment(v, l, u)
  BY DEF HoldsEnrollment
<1>2. CASE q # p /\ r # p
  BY <1>1, <1>2 DEF IInv, DropsApart
<1>3. CASE q = p /\ r # p
  BY <1>1, <1>3
<1>4. CASE q # p /\ r = p
  BY <1>1, <1>4
<1> QED
  BY <1>2, <1>3, <1>4

\* A request that ends disturbs no other, if the rows it changed were its own.
LEMMA EndKeepsRequests ==
    ASSUME NEW p \in Procs, IInv, TypeOK', Finish(p), HeldStay(p),
           \A l \in Lectures : lock[l] \in Procs /\ lock[l] # p =>
               /\ row'[l] = row[l]
               /\ roster'[l] = roster[l]
               /\ l \in exists => l \in exists'
    PROVE  DropsApart' /\ \A q \in Procs : RequestInv(q)'
<1>1. \A q \in Procs \ {p} : pc'[q] = pc[q] /\ job'[q] = job[q] /\ staged'[q] = staged[q]
  BY DEF Finish, Goto, IInv, TypeOK
<1>2. ASSUME NEW q \in Procs, q # p PROVE RequestInv(q)'
  <2>1. \A l \in Lectures : lock[l] = q => lock'[l] = q
    BY <1>2 DEF Finish
  <2>2. \A l \in Lectures : \A u \in roster[l] :
            HoldsEnrollment(q, l, u) => u \in roster'[l]
    BY <1>2 DEF HeldStay
  <2> QED
    BY <1>1, <1>2, <2>1, <2>2, OthersKeep DEF IInv
<1>3. pc'[p] = "idle"
  BY DEF Finish, Goto, IInv, TypeOK
<1>4. \A l \in Lectures, u \in Users : ~HoldsEnrollment(p, l, u)'
  BY <1>3 DEF HoldsEnrollment
<1>5. DropsApart'
  BY <1>1, <1>4, ApartKept
<1> QED
  BY <1>2, <1>5, EndedKnowsNothing DEF IInv

\* A request that goes on without touching a table disturbs no other.
LEMMA GoingOnKeepsOthers ==
    ASSUME NEW p \in Procs, NEW q \in Procs, q # p, IInv,
           NEW point, NEW j, Goto(p, point, j),
           staged'[q] = staged[q],
           UNCHANGED <<exists, row, roster>>,
           \A l \in Lectures : lock[l] = q => lock'[l] = q
    PROVE  RequestInv(q)'
<1>1. pc'[q] = pc[q] /\ job'[q] = job[q]
  BY DEF Goto, IInv, TypeOK
<1>2. \A l \in Lectures : \A u \in roster[l] :
          HoldsEnrollment(q, l, u) => u \in roster'[l]
  OBVIOUS
<1> QED
  BY <1>1, <1>2, OthersKeep DEF IInv

\* New enrollments that fit, of lectures p has locked, are counted exactly.
LEMMA BookingCounts ==
    ASSUME NEW p \in Procs, IInv, NEW f \in [Lectures -> SUBSET Users], Book(f),
           \A l \in Lectures : f[l] # {} =>
               /\ l \in exists
               /\ lock[l] = p
               /\ f[l] \cap roster[l] = {}
               /\ row[l].count + Cardinality(f[l]) <= row[l].cap,
           UNCHANGED <<exists, born, rewound, shrunk>>
    PROVE  /\ TablesInv'
           /\ \A l \in Lectures : lock[l] # p => row'[l] = row[l] /\ roster'[l] = roster[l]
           /\ \A l \in Lectures : ~(roster'[l] \subseteq roster[l]) => row'[l].count <= row'[l].cap
<1> USE DEF IInv, TypeOK
<1>1. ASSUME NEW l \in Lectures
      PROVE  /\ roster'[l] = roster[l] \cup f[l]
             /\ row'[l].count = row[l].count + Cardinality(f[l])
             /\ row'[l].cap = row[l].cap
             /\ row[l].count \in Int /\ row[l].cap \in Int
             /\ Cardinality(f[l]) \in Nat /\ Cardinality(roster[l]) \in Nat
  BY UsersCount DEF Book, Row
<1>2. ASSUME NEW l \in Lectures, f[l] = {}
      PROVE  row'[l] = row[l] /\ roster'[l] = roster[l]
  <2>1. Cardinality(f[l]) = 0
    BY <1>2, FS_EmptySet
  <2>2. row[l] \in Row
    OBVIOUS
  <2>3. row'[l] = [row[l] EXCEPT !.count = @ + 0]
    BY <2>1 DEF Book
  <2>4. \A r \in Row : [r EXCEPT !.count = @ + 0] = r
    BY DEF Row
  <2>5. row'[l] = row[l]
    BY <2>2, <2>3, <2>4
  <2>6. roster'[l] = roster[l]
    BY <1>1, <1>2
  <2> QED
    BY <2>5, <2>6
<1>3. ASSUME NEW l \in Lectures, f[l] # {}
      PROVE  Cardinality(roster'[l]) = Cardinality(roster[l]) + Cardinality(f[l])
  <2>1. roster[l] \in SUBSET Users /\ f[l] \in SUBSET Users /\ roster[l] \cap f[l] = {}
    BY <1>3
  <2>2. Cardinality(roster[l] \cup f[l]) = Cardinality(roster[l]) + Cardinality(f[l])
    BY <2>1, UsersJoin
  <2>3. roster'[l] = roster[l] \cup f[l]
    BY <1>1
  <2> QED
    BY <2>2, <2>3
<1>4. CountAccurate'
  BY <1>1, <1>2, <1>3 DEF TablesInv, CountAccurate
<1>5. NoOverbooking'
  <2> SUFFICES ASSUME NEW l \in exists \ (rewound \cup shrunk), roster'[l] # {}
               PROVE  Cardinality(roster'[l]) <= row'[l].cap
    BY DEF NoOverbooking
  <2>1. CASE f[l] = {}
    BY <1>2, <2>1 DEF TablesInv, NoOverbooking
  <2>2. CASE f[l] # {}
    BY <1>1, <1>3, <2>2 DEF TablesInv, CountAccurate
  <2> QED
    BY <2>1, <2>2
<1>6. \A l \in Lectures \ exists : roster'[l] = {}
  BY <1>2 DEF TablesInv
<1>7. TablesInv'
  BY <1>4, <1>5, <1>6 DEF TablesInv
<1>8. \A l \in Lectures : ~(roster'[l] \subseteq roster[l]) => row'[l].count <= row'[l].cap
  BY <1>1, <1>2
<1> QED
  BY <1>2, <1>7, <1>8

\* The commit of p books f: the whole invariant is kept.
LEMMA CommitBooking ==
    ASSUME NEW p \in Procs, IInv, TypeOK', NEW f \in [Lectures -> SUBSET Users],
           Book(f), Finish(p),
           \A l \in Lectures : f[l] # {} =>
               /\ l \in exists
               /\ lock[l] = p
               /\ f[l] \cap roster[l] = {}
               /\ row[l].count + Cardinality(f[l]) <= row[l].cap,
           UNCHANGED <<exists, born, rewound, shrunk>>
    PROVE  IInv'
<1>1. TablesInv'
  BY BookingCounts
<1>2. \A l \in Lectures : lock[l] \in Procs /\ lock[l] # p =>
          /\ row'[l] = row[l]
          /\ roster'[l] = roster[l]
          /\ l \in exists => l \in exists'
  BY BookingCounts
<1>3. HeldStay(p)
  BY DEF HeldStay, Book
<1>4. DropsApart' /\ \A q \in Procs : RequestInv(q)'
  BY <1>2, <1>3, EndKeepsRequests
<1> QED
  BY <1>1, <1>4 DEF IInv

\* What the three committing requests are about to book fits and is new.
LEMMA EnrollFits ==
    ASSUME NEW p \in Procs, IInv, EnrollCommit(p)
    PROVE  LET f == Only(job[p].lecture, job[p].users)
           IN  /\ f \in [Lectures -> SUBSET Users]
               /\ \A l \in Lectures : f[l] # {} =>
                     /\ l \in exists
                     /\ lock[l] = p
                     /\ f[l] \cap roster[l] = {}
                     /\ row[l].count + Cardinality(f[l]) <= row[l].cap
<1> DEFINE l == job[p].lecture
<1>1. /\ l \in Lectures /\ l \in exists
      /\ lock[l] = p
      /\ job[p].seen = row[l]
  BY DEF IInv, RequestInv, ReadUnderLock, Drops, Locked, EnrollCommit, TypeOK
<1>2. PICK u \in Users : job[p].users = {u}
  BY DEF IInv, RequestInv, MovesKnown, EnrollCommit
<1>3. Cardinality(job[p].users) = 1
  BY <1>2, FS_Singleton
<1>4. row[l].count \in Int /\ row[l].cap \in Int
  BY <1>1 DEF IInv, TypeOK, Row
<1>5. row[l].count + Cardinality(job[p].users) <= row[l].cap
  BY <1>1, <1>3, <1>4 DEF EnrollCommit
<1> QED
  BY <1>1, <1>2, <1>5 DEF Only, EnrollCommit

LEMMA BulkFits ==
    ASSUME NEW p \in Procs, IInv, BulkCommit(p)
    PROVE  LET f == Only(job[p].lecture, job[p].users)
           IN  /\ f \in [Lectures -> SUBSET Users]
               /\ \A l \in Lectures : f[l] # {} =>
                     /\ l \in exists
                     /\ lock[l] = p
                     /\ f[l] \cap roster[l] = {}
                     /\ row[l].count + Cardinality(f[l]) <= row[l].cap
<1> DEFINE l == job[p].lecture
<1>1. /\ l \in Lectures /\ l \in exists
      /\ lock[l] = p
      /\ job[p].seen = row[l]
  BY DEF IInv, RequestInv, ReadUnderLock, Drops, Locked, BulkCommit, TypeOK
<1>2. job[p].users \in SUBSET Users
  BY DEF IInv, TypeOK, Job
<1>3. Cardinality(job[p].users) <= row[l].cap - row[l].count
  BY <1>1 DEF IInv, RequestInv, MovesKnown, BulkCommit, Fits
<1>4. row[l].count \in Int /\ row[l].cap \in Int
  BY <1>1 DEF IInv, TypeOK, Row
<1>5. row[l].count + Cardinality(job[p].users) <= row[l].cap
  BY <1>2, <1>3, <1>4, UsersCount
<1> QED
  BY <1>1, <1>2, <1>5 DEF Only, BulkCommit

LEMMA AutoFits ==
    ASSUME NEW p \in Procs, IInv, AutoCommit(p)
    PROVE  /\ staged[p] \in [Lectures -> SUBSET Users]
           /\ \A l \in Lectures : staged[p][l] # {} =>
                 /\ l \in exists
                 /\ lock[l] = p
                 /\ staged[p][l] \cap roster[l] = {}
                 /\ row[l].count + Cardinality(staged[p][l]) <= row[l].cap
  BY DEF IInv, TypeOK, RequestInv, StagedUnderLock

-----------------------------------------------------------------------------
(* The invariant is kept by every step. *)

LEMMA InvInit == Init => IInv
<1> SUFFICES ASSUME Init PROVE IInv
  OBVIOUS
<1>1. TypeOK
  BY TypeInit
<1>2. TablesInv
  BY DEF Init, TablesInv, CountAccurate, NoOverbooking, Nobody
<1>3. \A p \in Procs : RequestInv(p)
  BY DEF Init, RequestInv, ReadUnderLock, MovesKnown, StagedUnderLock, StagedApart,
         Locked, Drops, Nobody
<1>4. DropsApart
  BY DEF Init, DropsApart, HoldsEnrollment
<1> QED
  BY <1>1, <1>2, <1>3, <1>4 DEF IInv

\* A step that changes no table only has to establish what its request knows.
LEMMA TablesUntouched ==
    ASSUME NEW p \in Procs, IInv, TypeOK', NEW point, NEW j, Goto(p, point, j),
           \A q \in Procs \ {p} : staged'[q] = staged[q],
           UNCHANGED <<exists, row, roster, born, rewound, shrunk>>,
           \A l \in Lectures, q \in Procs : lock[l] = q => lock'[l] = q,
           RequestInv(p)',
           point \notin Drops \/ (pc[p] \in Drops /\ j = job[p])
    PROVE  IInv'
<1>1. \A q \in Procs \ {p} : RequestInv(q)'
  BY GoingOnKeepsOthers
<1>2. TablesInv'
  BY DEF IInv, TablesInv, CountAccurate, NoOverbooking
<1>3. /\ \A q \in Procs \ {p} : pc'[q] = pc[q] /\ job'[q] = job[q]
      /\ pc'[p] = point /\ job'[p] = j
  BY DEF Goto, IInv, TypeOK
<1>4. \A l \in Lectures, u \in Users : HoldsEnrollment(p, l, u)' => HoldsEnrollment(p, l, u)
  BY <1>3 DEF HoldsEnrollment, Drops
<1>5. DropsApart'
  BY <1>3, <1>4, ApartKept DEF IInv, DropsApart
<1> QED
  BY <1>1, <1>2, <1>5 DEF IInv

\* Locking a free row takes no lock away.
LEMMA LockingKeepsLocks ==
    ASSUME NEW p \in Procs, NEW l \in Lectures, LockRow(p, l), TypeOK
    PROVE  /\ l \in exists /\ lock[l] = NoProc /\ lock'[l] = p
           /\ \A m \in Lectures, q \in Procs : lock[m] = q => lock'[m] = q
  BY ConstantsAssumption DEF LockRow, TypeOK

\* A request outside autoAssignLectures has staged nothing.
LEMMA NothingStaged ==
    ASSUME NEW p \in Procs, IInv, pc[p] \notin {"assign", "fill"}
    PROVE  \A l \in Lectures : staged[p][l] = {}
  BY DEF IInv, RequestInv, StagedUnderLock

LEMMA InvStep == IInv /\ [Next]_vars => IInv'
<1> SUFFICES ASSUME IInv, [Next]_vars PROVE IInv'
  OBVIOUS
<1> USE DEF IInv
<1>0. TypeOK'
  BY TypeStep
<1>a. \A p \in Procs : RequestInv(p)
  OBVIOUS
<1>1. ASSUME NEW p \in Procs, NEW t \in Terms, NEW cap \in Capacities,
             CreateReadCode(p, t, cap)
      PROVE  IInv'
  <2>1. PICK code : Goto(p, "create", [NoJob EXCEPT !.seen =
                 [count |-> 0, cap |-> cap, code |-> code, term |-> t]])
    BY <1>1 DEF CreateReadCode
  <2>2. RequestInv(p)'
    <3>1. pc'[p] = "create" /\ job'[p].seen.count = 0
      BY <2>1 DEF Goto, TypeOK, NoJob
    <3>2. \A l \in Lectures : staged'[p][l] = {}
      BY <1>1, NothingStaged DEF CreateReadCode
    <3> QED
      BY <3>1, <3>2 DEF RequestInv, ReadUnderLock, MovesKnown, StagedUnderLock,
                       StagedApart, Locked, Drops
  <2> QED
    BY <1>0, <1>1, <2>1, <2>2, TablesUntouched DEF Drops, CreateReadCode
<1>2. ASSUME NEW p \in Procs, CreateInsert(p) PROVE IInv'
  <2>1. PICK l \in Lectures : /\ \A m \in born : m < l
                              /\ born' = born \cup {l}
                              /\ exists' = exists \cup {l}
                              /\ row' = [row EXCEPT ![l] = job[p].seen]
    BY <1>2 DEF CreateInsert
  <2>2. l \notin born
    BY <2>1, ConstantsAssumption
  <2>3. l \notin exists /\ roster[l] = {} /\ lock[l] = NoProc
    BY <2>2 DEF TablesInv, TypeOK
  <2>4. job[p].seen.count = 0
    BY <1>2, <1>a DEF RequestInv, MovesKnown, CreateInsert
  <2>5. UNCHANGED <<roster, rewound, shrunk>> /\ Finish(p)
    BY <1>2 DEF CreateInsert
  <2>6. TablesInv'
    <3>1. row'[l].count = 0 /\ Cardinality(roster'[l]) = 0
      BY <2>1, <2>3, <2>4, <2>5, FS_EmptySet DEF TypeOK
    <3>2. \A m \in exists : m # l /\ row'[m] = row[m] /\ roster'[m] = roster[m]
      BY <2>1, <2>3, <2>5 DEF TypeOK
    <3> QED
      BY <2>1, <2>3, <2>5, <3>1, <3>2
      DEF TablesInv, CountAccurate, NoOverbooking
  <2>7. \A m \in Lectures : lock[m] \in Procs /\ lock[m] # p =>
            row'[m] = row[m] /\ roster'[m] = roster[m] /\ (m \in exists => m \in exists')
    BY <2>1, <2>3, <2>5, ConstantsAssumption DEF TypeOK
  <2>8. HeldStay(p)
    BY <2>5 DEF HeldStay
  <2> QED
    BY <1>0, <2>5, <2>6, <2>7, <2>8, EndKeepsRequests
<1>3. ASSUME NEW p \in Procs, NEW l \in Lectures, UpdateFind(p, l) PROVE IInv'
  <2>1. PICK j : Goto(p, "reload", j)
    BY <1>3 DEF UpdateFind
  <2>2. RequestInv(p)'
    <3>1. pc[p] = "idle" /\ UNCHANGED staged
      BY <1>3 DEF UpdateFind
    <3>2. pc'[p] = "reload"
      BY <2>1 DEF Goto, TypeOK
    <3> QED
      BY <3>1, <3>2, NothingStaged
      DEF RequestInv, ReadUnderLock, MovesKnown, StagedUnderLock, StagedApart, Locked, Drops
  <2> QED
    BY <1>0, <1>3, <2>1, <2>2, TablesUntouched DEF Drops, UpdateFind
<1>4. ASSUME NEW p \in Procs, UpdateReload(p) PROVE IInv'
  <2>1. PICK j : Goto(p, "write", j)
    BY <1>4 DEF UpdateReload
  <2>2. RequestInv(p)'
    BY <1>4, <2>1, NothingStaged
    DEF Goto, TypeOK, UpdateReload, RequestInv, ReadUnderLock, MovesKnown,
        StagedUnderLock, StagedApart, Locked, Drops
  <2> QED
    BY <1>0, <1>4, <2>1, <2>2, TablesUntouched DEF Drops, UpdateReload
<1>5. ASSUME NEW p \in Procs, UpdateWrite(p) PROVE IInv'
  <2> DEFINE l == job[p].lecture
             e == job[p].seen
             d == job[p].dirty
             r == [row[l] EXCEPT !.count = IF "count" \in d THEN e.count ELSE @,
                                 !.cap   = IF "cap"   \in d THEN e.cap   ELSE @]
  <2>1. /\ lock[l] = NoProc
        /\ Finish(p)
        /\ UNCHANGED <<exists, roster, born>>
        /\ \/ /\ l \in exists
              /\ row' = [row EXCEPT ![l] = r]
              /\ rewound' = IF "count" \in d THEN rewound \cup {l} ELSE rewound
              /\ shrunk' = IF "cap" \in d /\ r.cap < r.count
                           THEN shrunk \cup {l} ELSE shrunk
           \/ UNCHANGED <<row, rewound, shrunk>>
    BY <1>5 DEF UpdateWrite
  <2>2. TablesInv'
    <3>1. CASE UNCHANGED <<row, rewound, shrunk>>
      BY <2>1, <3>1 DEF TablesInv, CountAccurate, NoOverbooking
    <3>2. CASE /\ l \in exists
               /\ row' = [row EXCEPT ![l] = r]
               /\ rewound' = IF "count" \in d THEN rewound \cup {l} ELSE rewound
               /\ shrunk' = IF "cap" \in d /\ r.cap < r.count
                            THEN shrunk \cup {l} ELSE shrunk
      <4>1. l \in Lectures /\ row[l] \in Row /\ e \in Row
        BY <3>2 DEF TypeOK, Job
      <4>2. row'[l] = r /\ \A m \in Lectures \ {l} : row'[m] = row[m]
        BY <3>2 DEF TypeOK
      <4>3. rewound \subseteq rewound' /\ shrunk \subseteq shrunk'
        BY <3>2
      <4>4. l \notin rewound' => r.count = row[l].count
        BY <3>2, <4>1 DEF Row
      <4>5. l \notin rewound' \cup shrunk' => r.cap = row[l].cap \/ r.count <= r.cap
        BY <3>2, <4>1 DEF Row
      <4>6. CountAccurate'
        BY <2>1, <4>2, <4>3, <4>4 DEF TypeOK, TablesInv, CountAccurate
      <4>7. NoOverbooking'
        <5> SUFFICES ASSUME NEW m \in exists \ (rewound' \cup shrunk'), roster[m] # {}
                     PROVE  Cardinality(roster[m]) <= row'[m].cap
          BY <2>1 DEF NoOverbooking
        <5>1. CASE m # l
          BY <4>2, <4>3, <5>1 DEF TablesInv, NoOverbooking, TypeOK
        <5>2. CASE m = l
          <6>1. l \in exists \ (rewound \cup shrunk)
            BY <4>3, <5>2
          <6>2. Cardinality(roster[l]) = row[l].count /\ Cardinality(roster[l]) <= row[l].cap
            BY <5>2, <6>1 DEF TablesInv, NoOverbooking, CountAccurate
          <6>3. r.cap = row[l].cap \/ row[l].count <= r.cap
            BY <4>4, <4>5, <5>2
          <6>4. row'[m].cap = r.cap
            BY <4>2, <5>2
          <6> HIDE DEF r
          <6> QED
            BY <5>2, <6>2, <6>3, <6>4
        <5> QED
          BY <5>1, <5>2
      <4> QED
        BY <2>1, <4>6, <4>7 DEF TablesInv
    <3> QED
      BY <2>1, <3>1, <3>2
  <2>3. \A m \in Lectures : lock[m] \in Procs /\ lock[m] # p =>
            row'[m] = row[m] /\ roster'[m] = roster[m] /\ (m \in exists => m \in exists')
    BY <2>1, ConstantsAssumption DEF TypeOK
  <2>4. HeldStay(p)
    BY <2>1 DEF HeldStay
  <2> QED
    BY <1>0, <2>1, <2>2, <2>3, <2>4, EndKeepsRequests
<1>6. ASSUME NEW l \in Lectures, Delete(l) PROVE IInv'
  <2>1. \A m \in Lectures \ {l} : row'[m] = row[m] /\ roster'[m] = roster[m]
    BY <1>6 DEF Delete, TypeOK
  <2>2. roster'[l] = {}
    BY <1>6 DEF Delete, TypeOK
  <2>3. TablesInv'
    BY <1>6, <2>1, <2>2 DEF Delete, TablesInv, CountAccurate, NoOverbooking, TypeOK
  <2>4. ASSUME NEW q \in Procs PROVE RequestInv(q)'
    <3>1. \A m \in Lectures : \A u \in roster[m] :
              HoldsEnrollment(q, m, u) => u \in roster'[m]
      BY <1>6, <2>1 DEF Delete
    <3> QED
      BY <1>6, <2>1, <3>1, OthersKeep, ConstantsAssumption DEF Delete, TypeOK
  <2>5. DropsApart'
    BY <1>6 DEF Delete, DropsApart, HoldsEnrollment
  <2> QED
    BY <1>0, <2>3, <2>4, <2>5
<1>7. ASSUME NEW p \in Procs, NEW l \in Lectures, NEW u \in Users, EnrollLock(p, l, u)
      PROVE  IInv'
  <2> DEFINE j == [NoJob EXCEPT !.lecture = l, !.users = {u}, !.seen = row[l]]
  <2>1. Goto(p, "enroll", j) /\ LockRow(p, l) /\ UNCHANGED <<exists, row, roster, staged>>
    BY <1>7 DEF EnrollLock
  <2>2. pc'[p] = "enroll" /\ job'[p] = j
    BY <2>1 DEF Goto, TypeOK
  <2>3. j.lecture = l /\ j.users = {u} /\ j.seen = row[l]
    BY DEF NoJob
  <2>4. RequestInv(p)'
    BY <1>7, <2>1, <2>2, <2>3, NothingStaged, LockingKeepsLocks
    DEF EnrollLock, RequestInv, ReadUnderLock, MovesKnown, StagedUnderLock,
        StagedApart, Locked, Drops
  <2> QED
    BY <1>0, <1>7, <2>1, <2>4, TablesUntouched, LockingKeepsLocks DEF Drops, EnrollLock
<1>8. ASSUME NEW p \in Procs, EnrollCommit(p) PROVE IInv'
  BY <1>0, <1>8, EnrollFits, CommitBooking DEF EnrollCommit
<1>9. ASSUME NEW p \in Procs, NEW l \in Lectures, NEW u \in Users, DropEnrollment(p, l, u)
      PROVE  IInv'
  <2> DEFINE j == [NoJob EXCEPT !.lecture = l, !.users = {u}]
  <2>1. Goto(p, "dropping", j) /\ u \in roster[l] /\ pc[p] = "idle"
        /\ UNCHANGED <<exists, row, roster, lock, born, staged, rewound, shrunk>>
    BY <1>9 DEF DropEnrollment
  <2>2. /\ pc'[p] = "dropping" /\ job'[p] = j
        /\ \A q \in Procs \ {p} : pc'[q] = pc[q] /\ job'[q] = job[q]
    BY <2>1 DEF Goto, TypeOK
  <2>3. j.lecture = l /\ j.users = {u}
    BY DEF NoJob
  <2>4. RequestInv(p)'
    BY <2>1, <2>2, <2>3, NothingStaged
    DEF RequestInv, ReadUnderLock, MovesKnown, StagedUnderLock, StagedApart, Locked, Drops
  <2>5. DropsApart'
    <3>1. \A m \in Lectures, v \in Users : HoldsEnrollment(p, m, v)' => m = l /\ v = u
      BY <2>2, <2>3 DEF HoldsEnrollment
    <3>2. \A q \in Procs : ~HoldsEnrollment(q, l, u)
      BY <1>9 DEF DropEnrollment
    <3> QED
      BY <1>0, <2>2, <3>1, <3>2, ApartKept
  <2>6. \A q \in Procs \ {p} : RequestInv(q)'
    BY <2>1, GoingOnKeepsOthers
  <2>7. TablesInv'
    BY <2>1 DEF TablesInv, CountAccurate, NoOverbooking
  <2> QED
    BY <1>0, <2>4, <2>5, <2>6, <2>7
<1>9a. ASSUME NEW p \in Procs, DropLecture(p) PROVE IInv'
  <2> DEFINE l == job[p].lecture
  <2>1. Goto(p, "dropuser", job[p]) /\ LockRow(p, l) /\ pc[p] = "dropping" /\ l \in Lectures
        /\ UNCHANGED <<exists, row, roster, born, staged, rewound, shrunk>>
    BY <1>9a, <1>a DEF DropLecture, RequestInv, MovesKnown, Drops
  <2>2. pc'[p] = "dropuser" /\ job'[p] = job[p]
    BY <2>1 DEF Goto, TypeOK
  <2>3. /\ l \in exists /\ lock'[l] = p
        /\ \A m \in Lectures, q \in Procs : lock[m] = q => lock'[m] = q
    BY <2>1, LockingKeepsLocks
  <2>4. \A m \in Lectures : staged'[p][m] = {}
    BY <2>1, NothingStaged
  <2>5. MovesKnown(p)'
    BY <1>a, <2>1, <2>2 DEF RequestInv, MovesKnown, Drops
  <2>6. RequestInv(p)'
    BY <2>1, <2>2, <2>3, <2>4, <2>5
    DEF RequestInv, ReadUnderLock, StagedUnderLock, StagedApart, Locked, Drops
  <2> QED
    BY <1>0, <2>1, <2>3, <2>6, TablesUntouched DEF Drops
<1>9b. ASSUME NEW p \in Procs, DropUser(p) PROVE IInv'
  <2>1. Goto(p, "drop", job[p]) /\ pc[p] = "dropuser"
        /\ UNCHANGED <<exists, row, roster, lock, born, staged, rewound, shrunk>>
    BY <1>9b DEF DropUser
  <2>2. pc'[p] = "drop" /\ job'[p] = job[p]
    BY <2>1 DEF Goto, TypeOK
  <2>3. \A m \in Lectures : staged'[p][m] = {}
    BY <2>1, NothingStaged
  <2>4. MovesKnown(p)' /\ ReadUnderLock(p)'
    BY <1>a, <2>1, <2>2 DEF RequestInv, MovesKnown, ReadUnderLock, Locked, Drops
  <2>5. RequestInv(p)'
    BY <2>2, <2>3, <2>4 DEF RequestInv, StagedUnderLock, StagedApart
  <2> QED
    BY <1>0, <2>1, <2>5, TablesUntouched DEF Drops
<1>10. ASSUME NEW p \in Procs, DropCommit(p) PROVE IInv'
  <2> DEFINE l == job[p].lecture
  <2>1. l \in Lectures /\ l \in exists /\ lock[l] = p
    BY <1>10, <1>a DEF RequestInv, ReadUnderLock, Locked, DropCommit, TypeOK
  <2>2. PICK u \in roster[l] : job[p].users = {u}
    BY <1>10, <1>a DEF RequestInv, MovesKnown, DropCommit, Drops
  <2>3. /\ row' = [row EXCEPT ![l].count = @ - 1]
        /\ roster' = [roster EXCEPT ![l] = @ \ {u}]
        /\ Finish(p)
        /\ UNCHANGED <<exists, born, rewound, shrunk>>
    BY <1>10, <2>2 DEF DropCommit
  <2>4. /\ row'[l].count = row[l].count - 1 /\ row'[l].cap = row[l].cap
        /\ roster'[l] = roster[l] \ {u}
        /\ row[l].count \in Int /\ row[l].cap \in Int
        /\ roster[l] \in SUBSET Users
    BY <2>1, <2>3 DEF TypeOK, Row
  <2>5. \A m \in Lectures \ {l} : row'[m] = row[m] /\ roster'[m] = roster[m]
    BY <2>3 DEF TypeOK
  <2>6. Cardinality(roster'[l]) = Cardinality(roster[l]) - 1 /\ Cardinality(roster[l]) \in Nat
    BY <2>4, UsersRemove, UsersCount
  <2>7. TablesInv'
    <3>1. CountAccurate'
      <4>1. l \notin rewound => row'[l].count = Cardinality(roster'[l])
        BY <2>1, <2>4, <2>6 DEF TablesInv, CountAccurate
      <4> QED
        BY <2>3, <2>5, <4>1 DEF TablesInv, CountAccurate, TypeOK
    <3>2. NoOverbooking'
      <4>1. l \notin rewound \cup shrunk => Cardinality(roster'[l]) <= row'[l].cap
        BY <2>1, <2>2, <2>4, <2>6 DEF TablesInv, NoOverbooking
      <4> QED
        BY <2>3, <2>5, <4>1 DEF TablesInv, NoOverbooking, TypeOK
    <3> QED
      BY <2>1, <2>3, <2>5, <3>1, <3>2 DEF TablesInv, TypeOK
  <2>8. \A m \in Lectures : lock[m] \in Procs /\ lock[m] # p =>
            row'[m] = row[m] /\ roster'[m] = roster[m] /\ (m \in exists => m \in exists')
    BY <2>1, <2>3, <2>5
  <2>9. HeldStay(p)
    <3>1. \A q \in Procs \ {p} : ~HoldsEnrollment(q, l, u)
      <4>1. HoldsEnrollment(p, l, u) /\ u \in Users
        BY <1>10, <2>1, <2>2 DEF DropCommit, HoldsEnrollment, TypeOK
      <4> QED
        BY <2>1, <4>1 DEF DropsApart
    <3> QED
      BY <2>1, <2>4, <2>5, <3>1 DEF HeldStay
  <2> QED
    BY <1>0, <2>3, <2>7, <2>8, <2>9, EndKeepsRequests
<1>11. ASSUME NEW p \in Procs, NEW l \in Lectures, NEW S \in SUBSET Users, BulkLock(p, l, S)
       PROVE  IInv'
  <2> DEFINE j == [NoJob EXCEPT !.lecture = l, !.users = S, !.seen = row[l]]
  <2>1. Goto(p, "term", j) /\ LockRow(p, l) /\ UNCHANGED <<exists, row, roster, staged>>
    BY <1>11 DEF BulkLock
  <2>2. pc'[p] = "term" /\ job'[p] = j
    BY <2>1 DEF Goto, TypeOK
  <2>3. j.lecture = l /\ j.seen = row[l]
    BY DEF NoJob
  <2>4. RequestInv(p)'
    BY <1>11, <2>1, <2>2, <2>3, NothingStaged, LockingKeepsLocks
    DEF BulkLock, RequestInv, ReadUnderLock, MovesKnown, StagedUnderLock,
        StagedApart, Locked, Drops
  <2> QED
    BY <1>0, <1>11, <2>1, <2>4, TablesUntouched, LockingKeepsLocks DEF Drops, BulkLock
<1>11a. ASSUME NEW p \in Procs, BulkTerm(p) PROVE IInv'
  <2>1. Goto(p, "eligible", job[p]) /\ pc[p] = "term"
        /\ UNCHANGED <<exists, row, roster, lock, born, staged, rewound, shrunk>>
    BY <1>11a DEF BulkTerm
  <2>2. pc'[p] = "eligible" /\ job'[p] = job[p]
    BY <2>1 DEF Goto, TypeOK
  <2>3. RequestInv(p)'
    BY <1>a, <2>1, <2>2, NothingStaged
    DEF RequestInv, ReadUnderLock, MovesKnown, StagedUnderLock, StagedApart, Locked, Drops
  <2> QED
    BY <1>0, <2>1, <2>3, TablesUntouched DEF Drops
<1>12. ASSUME NEW p \in Procs, BulkEligible(p) PROVE IInv'
  <2>1. Goto(p, "bulk", job[p]) /\ Fits(job[p]) /\ pc[p] = "eligible"
        /\ UNCHANGED <<exists, row, roster, lock, staged>>
    BY <1>12 DEF BulkEligible
  <2>2. pc'[p] = "bulk" /\ job'[p] = job[p]
    BY <2>1 DEF Goto, TypeOK
  <2>3. RequestInv(p)'
    BY <1>a, <2>1, <2>2, NothingStaged
    DEF RequestInv, ReadUnderLock, MovesKnown, StagedUnderLock, StagedApart, Locked, Drops, Fits
  <2> QED
    BY <1>0, <1>12, <2>1, <2>3, TablesUntouched DEF Drops, BulkEligible
<1>13. ASSUME NEW p \in Procs, BulkCommit(p) PROVE IInv'
  BY <1>0, <1>13, BulkFits, CommitBooking DEF BulkCommit
<1>14. ASSUME NEW p \in Procs, NEW t \in Terms, AutoPool(p, t) PROVE IInv'
  <2>1. PICK j : Goto(p, "list", j)
    BY <1>14 DEF AutoPool
  <2>2. RequestInv(p)'
    BY <1>14, <2>1, NothingStaged
    DEF Goto, TypeOK, AutoPool, RequestInv, ReadUnderLock, MovesKnown,
        StagedUnderLock, StagedApart, Locked, Drops
  <2> QED
    BY <1>0, <1>14, <2>1, <2>2, TablesUntouched DEF Drops, AutoPool
<1>15. ASSUME NEW p \in Procs, AutoList(p) PROVE IInv'
  <2>1. PICK j : Goto(p, "assign", j)
    BY <1>15 DEF AutoList
  <2>2. RequestInv(p)'
    BY <1>15, <2>1, NothingStaged
    DEF Goto, TypeOK, AutoList, RequestInv, ReadUnderLock, MovesKnown,
        StagedUnderLock, StagedApart, Locked, Drops
  <2> QED
    BY <1>0, <1>15, <2>1, <2>2, TablesUntouched DEF Drops, AutoList
<1>16. ASSUME NEW p \in Procs, AutoLock(p) PROVE IInv'
  <2>1. pc[p] = "assign" /\ UNCHANGED <<exists, row, roster, staged>> /\ job[p] \in Job
    BY <1>16 DEF AutoLock, TypeOK
  <2>2. PICK l \in Lectures :
          \/ /\ LockRow(p, l)
             /\ Goto(p, "fill", [job[p] EXCEPT !.todo = @ \ {l}, !.lecture = l,
                                               !.seen = row[l]])
          \/ /\ Goto(p, "assign", [job[p] EXCEPT !.todo = @ \ {l}])
             /\ UNCHANGED lock
    BY <1>16 DEF AutoLock
  <2>3. CASE /\ LockRow(p, l)
             /\ Goto(p, "fill", [job[p] EXCEPT !.todo = @ \ {l}, !.lecture = l,
                                               !.seen = row[l]])
    <3>1. pc'[p] = "fill" /\ job'[p].lecture = l /\ job'[p].seen = row[l]
          /\ job'[p].users = job[p].users
      BY <2>1, <2>3 DEF Goto, TypeOK, Job
    <3>2. staged[p][l] = {}
      BY <1>a, <2>3, ConstantsAssumption, LockingKeepsLocks DEF RequestInv, StagedUnderLock
    <3>3. RequestInv(p)'
      BY <1>a, <2>1, <2>3, <3>1, <3>2, LockingKeepsLocks
      DEF RequestInv, ReadUnderLock, MovesKnown, StagedUnderLock, StagedApart, Locked, Drops
    <3> QED
      BY <1>0, <1>16, <2>1, <2>3, <3>3, TablesUntouched, LockingKeepsLocks DEF Drops, AutoLock
  <2>4. CASE /\ Goto(p, "assign", [job[p] EXCEPT !.todo = @ \ {l}])
             /\ UNCHANGED lock
    <3>1. pc'[p] = "assign" /\ job'[p].users = job[p].users
      BY <2>1, <2>4 DEF Goto, TypeOK, Job
    <3>2. RequestInv(p)'
      BY <1>a, <2>1, <2>4, <3>1
      DEF RequestInv, ReadUnderLock, MovesKnown, StagedUnderLock, StagedApart, Locked, Drops
    <3> QED
      BY <1>0, <1>16, <2>1, <2>4, <3>2, TablesUntouched DEF Drops, AutoLock
  <2> QED
    BY <2>2, <2>3, <2>4
<1>17. ASSUME NEW p \in Procs, AutoFill(p) PROVE IInv'
  <2> DEFINE j == job[p]
             l == j.lecture
  <2>1. /\ pc[p] = "fill" /\ UNCHANGED <<exists, row, roster, lock>> /\ j \in Job
        /\ l \in Lectures /\ l \in exists /\ lock[l] = p /\ j.seen = row[l]
    BY <1>17, <1>a DEF AutoFill, TypeOK, RequestInv, ReadUnderLock, Locked, Drops
  <2>2. CASE Goto(p, "assign", j) /\ UNCHANGED staged
    <3>1. pc'[p] = "assign" /\ job'[p] = j
      BY <2>2 DEF Goto, TypeOK
    <3>2. RequestInv(p)'
      BY <1>a, <2>1, <2>2, <3>1
      DEF RequestInv, ReadUnderLock, MovesKnown, StagedUnderLock, StagedApart, Locked, Drops
    <3> QED
      BY <1>0, <1>17, <2>1, <2>2, <3>2, TablesUntouched DEF Drops, AutoFill
  <2>3. ASSUME NEW selected \in SUBSET j.users,
               Cardinality(selected) <= j.seen.cap - j.seen.count,
               Goto(p, "assign", [j EXCEPT !.users = @ \ selected]),
               staged' = [staged EXCEPT ![p][l] = selected \ roster[l]]
        PROVE  IInv'
    <3>1. /\ pc'[p] = "assign" /\ job'[p].users = j.users \ selected
          /\ staged'[p][l] = selected \ roster[l]
          /\ \A m \in Lectures \ {l} : staged'[p][m] = staged[p][m]
          /\ \A q \in Procs \ {p} : staged'[q] = staged[q]
      BY <2>1, <2>3 DEF Goto, TypeOK, Job
    <3>2. Cardinality(selected \ roster[l]) <= Cardinality(selected)
          /\ Cardinality(selected \ roster[l]) \in Nat /\ Cardinality(selected) \in Nat
      <4>1. selected \in SUBSET Users /\ selected \ roster[l] \in SUBSET Users
        BY <2>1 DEF Job
      <4> QED
        BY <4>1, UsersShrink, UsersCount
    <3>3. row[l].count + Cardinality(selected \ roster[l]) <= row[l].cap
      BY <2>1, <2>3, <3>2 DEF TypeOK, Row
    <3>4. \A m \in Lectures \ {l} : staged[p][m] \cap j.users = {}
      BY <1>a DEF RequestInv, StagedUnderLock
    <3>5. StagedUnderLock(p)'
      <4> SUFFICES ASSUME NEW m \in Lectures, staged'[p][m] # {}
                   PROVE  /\ m \in exists /\ lock[m] = p
                          /\ staged'[p][m] \cap roster[m] = {}
                          /\ row[m].count + Cardinality(staged'[p][m]) <= row[m].cap
                          /\ staged'[p][m] \cap job'[p].users = {}
        BY <2>1, <3>1 DEF StagedUnderLock
      <4>1. CASE m = l
        BY <2>1, <3>1, <3>3, <4>1
      <4>2. CASE m # l
        <5>1. staged'[p][m] = staged[p][m] /\ StagedUnderLock(p)
          BY <1>a, <3>1, <4>2 DEF RequestInv
        <5> QED
          BY <3>1, <5>1 DEF StagedUnderLock
      <4> QED
        BY <4>1, <4>2
    <3>6. StagedApart(p)'
      BY <1>a, <3>1, <3>4 DEF RequestInv, StagedApart
    <3>7. RequestInv(p)'
      BY <3>1, <3>5, <3>6 DEF RequestInv, ReadUnderLock, MovesKnown, Locked, Drops
    <3> QED
      BY <1>0, <1>17, <2>1, <2>3, <3>1, <3>7, TablesUntouched DEF Drops, AutoFill
  <2> QED
    BY <1>17, <2>2, <2>3 DEF AutoFill, Spliced, Inserted
<1>18. ASSUME NEW p \in Procs, AutoCommit(p) PROVE IInv'
  BY <1>0, <1>18, AutoFits, CommitBooking DEF AutoCommit
<1>19. ASSUME NEW p \in Procs, Abort(p) PROVE IInv'
  <2>1. TablesInv'
    BY <1>19 DEF Abort, TablesInv, CountAccurate, NoOverbooking
  <2>2. HeldStay(p)
    BY <1>19 DEF Abort, HeldStay
  <2> QED
    BY <1>0, <1>19, <2>1, <2>2, EndKeepsRequests DEF Abort
<1>20. CASE UNCHANGED vars
  BY <1>0, <1>20
  DEF vars, TablesInv, CountAccurate, NoOverbooking, RequestInv, ReadUnderLock,
      MovesKnown, StagedUnderLock, StagedApart, Fits, DropsApart, HoldsEnrollment
<1> QED
  BY <1>1, <1>2, <1>3, <1>4, <1>5, <1>6, <1>7, <1>8, <1>9, <1>9a, <1>9b,
     <1>10, <1>11, <1>11a, <1>12, <1>13, <1>14, <1>15, <1>16, <1>17, <1>18, <1>19, <1>20
  DEF Next, Request, Step

THEOREM Invariant == Spec => []IInv
  BY InvInit, InvStep, PTL DEF Spec

\* currentCount equals the number of enrollments wherever no save rewound it.
THEOREM SeatsCounted == Spec => []CountAccurate
<1>1. IInv => CountAccurate
  BY DEF IInv, TablesInv
<1> QED
  BY <1>1, Invariant, PTL

\* Enrollments never exceed maxCapacity wherever no save interfered.
THEOREM SeatsLimited == Spec => []NoOverbooking
<1>1. IInv => NoOverbooking
  BY DEF IInv, TablesInv
<1> QED
  BY <1>1, Invariant, PTL

\* An automatic assignment gives nobody two lectures.
THEOREM AssignsOnce == Spec => []AssignedOncePerRun
<1>1. IInv => AssignedOncePerRun
  BY DEF IInv, RequestInv, StagedApart, AssignedOncePerRun
<1> QED
  BY <1>1, Invariant, PTL

-----------------------------------------------------------------------------
(* Every step is a step of the ledger or leaves it alone. *)

\* The ledger counts enrollments as the model does.
LEMMA LedgerCounts == \A S : Ledger!Cardinality(S) = Cardinality(S)
  BY Zenon DEF Ledger!Cardinality, Cardinality, Ledger!IsFiniteSet, IsFiniteSet

LEMMA LedgerStep == IInv /\ [Next]_vars => [Ledger!Next]_(Ledger!ledger)
<1> SUFFICES ASSUME IInv, [Next]_vars PROVE [Ledger!Next]_(Ledger!ledger)
  OBVIOUS
<1> USE DEF IInv
<1>a. \A p \in Procs : RequestInv(p)
  OBVIOUS
<1>b. ASSUME UNCHANGED <<exists, row, roster>> PROVE [Ledger!Next]_(Ledger!ledger)
  BY <1>b DEF Ledger!ledger
<1>c. ASSUME NEW f \in [Lectures -> SUBSET Users], Book(f),
             \A l \in Lectures : f[l] # {} =>
                 /\ l \in exists
                 /\ lock[l] \in Procs
                 /\ f[l] \cap roster[l] = {}
                 /\ row[l].count + Cardinality(f[l]) <= row[l].cap,
             UNCHANGED exists
      PROVE  Ledger!Next
  <2>1. Ledger!Book(f)
    <3>1. \A l \in Lectures : f[l] # {} =>
             /\ l \in exists
             /\ f[l] \cap roster[l] = {}
             /\ row[l].count + Cardinality(f[l]) <= row[l].cap
      BY <1>c
    <3>2. /\ roster' = [l \in Lectures |-> roster[l] \cup f[l]]
          /\ row' = [l \in Lectures |-> [row[l] EXCEPT !.count = @ + Cardinality(f[l])]]
          /\ UNCHANGED exists
      BY <1>c DEF Book
    <3> QED
      BY <3>1, <3>2, LedgerCounts DEF Ledger!Book
  <2> QED
    BY <2>1 DEF Ledger!Next
<1>1. ASSUME NEW p \in Procs, CreateInsert(p) PROVE Ledger!Next
  <2>1. PICK l \in Lectures : /\ \A m \in born : m < l
                              /\ exists' = exists \cup {l}
                              /\ row' = [row EXCEPT ![l] = job[p].seen]
    BY <1>1 DEF CreateInsert
  <2>2. l \notin exists
    BY <2>1, ConstantsAssumption DEF TablesInv
  <2>3. row'[l] = job[p].seen
    BY <2>1 DEF TypeOK
  <2>4. \A m \in exists : row[m].term = job[p].seen.term => row[m].code # job[p].seen.code
    BY <1>1 DEF CreateInsert, TermCodes, InTerm
  <2>5. job[p].seen.count = 0 /\ UNCHANGED roster
    BY <1>1, <1>a DEF CreateInsert, RequestInv, MovesKnown
  <2>6. Ledger!Open(l)
    BY <2>1, <2>2, <2>3, <2>4, <2>5 DEF Ledger!Open
  <2> QED
    BY <2>6 DEF Ledger!Next
<1>2. ASSUME NEW p \in Procs, UpdateWrite(p) PROVE [Ledger!Next]_(Ledger!ledger)
  <2> DEFINE l == job[p].lecture
             r == [row[l] EXCEPT
                     !.count = IF "count" \in job[p].dirty THEN job[p].seen.count ELSE @,
                     !.cap   = IF "cap" \in job[p].dirty THEN job[p].seen.cap ELSE @]
  <2>1. /\ UNCHANGED <<exists, roster>>
        /\ UNCHANGED row \/ (l \in exists /\ row' = [row EXCEPT ![l] = r])
    BY <1>2 DEF UpdateWrite
  <2>2. CASE l \in exists /\ row' = [row EXCEPT ![l] = r]
    <3>1. l \in Lectures /\ row'[l] = r /\ row[l] \in Row
      BY <2>2 DEF TypeOK
    <3>2. r = [row[l] EXCEPT !.count = r.count, !.cap = r.cap]
      BY <3>1 DEF Row
    <3>3. row' = [row EXCEPT ![l].count = row'[l].count, ![l].cap = row'[l].cap]
      BY <2>2, <3>1, <3>2 DEF TypeOK
    <3>4. Ledger!Edit(l)
      BY <2>1, <2>2, <3>3 DEF Ledger!Edit
    <3> QED
      BY <3>1, <3>4 DEF Ledger!Next
  <2> QED
    BY <1>b, <2>1, <2>2
<1>3. ASSUME NEW l \in Lectures, Delete(l) PROVE Ledger!Next
  BY <1>3 DEF Delete, NoRow, NoTerm, Ledger!Next, Ledger!Close, Ledger!Blank
<1>4. ASSUME NEW p \in Procs, EnrollCommit(p) PROVE Ledger!Next
  BY <1>4, <1>c, EnrollFits DEF EnrollCommit
<1>5. ASSUME NEW p \in Procs, BulkCommit(p) PROVE Ledger!Next
  BY <1>5, <1>c, BulkFits DEF BulkCommit
<1>6. ASSUME NEW p \in Procs, AutoCommit(p) PROVE Ledger!Next
  BY <1>6, <1>c, AutoFits DEF AutoCommit
<1>7. ASSUME NEW p \in Procs, DropCommit(p) PROVE Ledger!Next
  <2>1. PICK u \in roster[job[p].lecture] : job[p].users = {u}
    BY <1>7, <1>a DEF RequestInv, MovesKnown, DropCommit, Drops
  <2>2. job[p].lecture \in Lectures
    BY <1>7, <1>a DEF RequestInv, ReadUnderLock, Locked, DropCommit, TypeOK
  <2>3. Ledger!Release(job[p].lecture, u)
    BY <1>7, <2>1 DEF DropCommit, Ledger!Release
  <2>4. u \in Users
    BY <2>2 DEF TypeOK
  <2> QED
    BY <2>2, <2>3, <2>4 DEF Ledger!Next
<1>8. ASSUME NEW p \in Procs, Request(p) PROVE UNCHANGED <<exists, row, roster>>
  BY <1>8 DEF Request, CreateReadCode, UpdateFind, EnrollLock, DropEnrollment, BulkLock, AutoPool
<1>9. ASSUME NEW p \in Procs,
             UpdateReload(p) \/ DropLecture(p) \/ DropUser(p) \/ BulkTerm(p)
               \/ BulkEligible(p) \/ AutoList(p) \/ AutoLock(p) \/ AutoFill(p) \/ Abort(p)
      PROVE  UNCHANGED <<exists, row, roster>>
  BY <1>9 DEF UpdateReload, DropLecture, DropUser, BulkTerm, BulkEligible, AutoList, AutoLock, AutoFill, Abort
<1>10. CASE UNCHANGED vars
  BY <1>b, <1>10 DEF vars
<1> QED
  BY <1>b, <1>1, <1>2, <1>3, <1>4, <1>5, <1>6, <1>7, <1>8, <1>9, <1>10 DEF Next, Step

\* Concurrent requests with row locks implement the ledger of atomic bookings.
THEOREM LectureImplementsLedger == Spec => LedgerSpec
<1>1. Init => Ledger!Init
  BY DEF Init, Nobody, NoRow, NoTerm, Ledger!Init, Ledger!Blank
<1> QED
  BY <1>1, LedgerStep, Invariant, PTL DEF Spec, LedgerSpec, Ledger!Spec

\* In the ledger, and so in Lecture, a roster grows only within capacity.
THEOREM BookingsFit == Spec => BookingWithinCapacity
<1>1. IInv /\ [Next]_vars =>
        [\A l \in Lectures :
            ~(roster'[l] \subseteq roster[l]) => row'[l].count <= row'[l].cap]_vars
  <2> SUFFICES ASSUME IInv, Next,
                      NEW l \in Lectures, ~(roster'[l] \subseteq roster[l])
               PROVE  row'[l].count <= row'[l].cap
    OBVIOUS
  <2>1. PICK p \in Procs : EnrollCommit(p) \/ BulkCommit(p) \/ AutoCommit(p)
    <3>1. ASSUME UNCHANGED roster PROVE FALSE
      BY <3>1
    <3>2. \A p \in Procs : ~DropCommit(p)
      BY DEF DropCommit, IInv, TypeOK
    <3>3. ~Delete(l) /\ \A m \in Lectures : ~Delete(m)
      BY DEF Delete, IInv, TypeOK
    <3> QED
      BY <3>1, <3>2, <3>3
      DEF Next, Step, Request, CreateReadCode, UpdateFind, EnrollLock, DropEnrollment,
          DropLecture, DropUser, BulkLock, BulkTerm, AutoPool, CreateInsert, UpdateReload,
          UpdateWrite, BulkEligible, AutoList,
          AutoLock, AutoFill, Abort
  <2>2. CASE EnrollCommit(p)
    BY <2>2, EnrollFits, BookingCounts DEF EnrollCommit
  <2>3. CASE BulkCommit(p)
    BY <2>3, BulkFits, BookingCounts DEF BulkCommit
  <2>4. CASE AutoCommit(p)
    BY <2>4, AutoFits, BookingCounts DEF AutoCommit
  <2> QED
    BY <2>1, <2>2, <2>3, <2>4
<1> QED
  BY <1>1, Invariant, PTL DEF Spec, BookingWithinCapacity

-----------------------------------------------------------------------------
(* Why only drops can deadlock: whoever waits for a user, an enrollment or a *)
(* term without a drop around waits for a request that waits for nobody, and *)
(* an assignment that waits for a lecture waits for one behind all those it  *)
(* holds, so that along a chain of waiting requests the lectures only grow.  *)

\* Outside a booking p holds no row; in the loop it holds none of those to come.
LocksOrdered(p) ==
    /\ pc[p] \in {"idle", "create", "reload", "write", "list", "dropping"} =>
           \A l \in Lectures : lock[l] # p
    /\ pc[p] \in {"assign", "fill"} =>
           \A l \in Lectures : lock[l] = p => \A m \in job[p].todo : l < m

OrderInv ==
    /\ TypeOK
    /\ IsFiniteSet(exists)
    /\ \A p \in Procs : LocksOrdered(p)

\* A request that stays where it is keeps its order if it gets no further lock.
LEMMA OrderKept ==
    ASSUME NEW q \in Procs, LocksOrdered(q), pc'[q] = pc[q], job'[q] = job[q],
           \A l \in Lectures : lock'[l] = q => lock[l] = q
    PROVE  LocksOrdered(q)'
  BY DEF LocksOrdered

\* The end of a request releases its rows and no other's.
LEMMA OrderAfterFinish ==
    ASSUME NEW p \in Procs, OrderInv, Finish(p)
    PROVE  \A q \in Procs : LocksOrdered(q)'
<1>1. /\ pc'[p] = "idle"
      /\ \A l \in Lectures : lock'[l] # p
  BY ConstantsAssumption DEF Finish, Goto, OrderInv, TypeOK
<1>2. LocksOrdered(p)'
  BY <1>1 DEF LocksOrdered
<1>3. ASSUME NEW q \in Procs, q # p PROVE LocksOrdered(q)'
  <2>1. pc'[q] = pc[q] /\ job'[q] = job[q]
    BY <1>3 DEF Finish, Goto, OrderInv, TypeOK
  <2>2. \A l \in Lectures : lock'[l] = q => lock[l] = q
    BY ConstantsAssumption DEF Finish
  <2> QED
    BY <2>1, <2>2, OrderKept DEF OrderInv
<1> QED
  BY <1>2, <1>3

\* A request that goes on disturbs the order of no other.
LEMMA OrderOfOthers ==
    ASSUME NEW p \in Procs, OrderInv, NEW point, NEW j, Goto(p, point, j),
           \A l \in Lectures : lock'[l] # p => lock'[l] = lock[l],
           LocksOrdered(p)'
    PROVE  \A q \in Procs : LocksOrdered(q)'
<1> SUFFICES ASSUME NEW q \in Procs, q # p PROVE LocksOrdered(q)'
  OBVIOUS
<1>1. pc'[q] = pc[q] /\ job'[q] = job[q]
  BY DEF Goto, OrderInv, TypeOK
<1>2. \A l \in Lectures : lock'[l] = q => lock[l] = q
  OBVIOUS
<1> QED
  BY <1>1, <1>2, OrderKept DEF OrderInv

LEMMA OrderInit == Init => OrderInv
<1> SUFFICES ASSUME Init PROVE OrderInv
  OBVIOUS
<1>1. \A p \in Procs : LocksOrdered(p)
  BY ConstantsAssumption DEF Init, LocksOrdered
<1>2. IsFiniteSet(exists)
  BY FS_EmptySet DEF Init
<1> QED
  BY <1>1, <1>2, TypeInit DEF OrderInv

\* Rows come and go one at a time.
LEMMA FinitelyMany ==
    ASSUME OrderInv, [Next]_vars
    PROVE  IsFiniteSet(exists')
<1>1. IsFiniteSet(exists)
  BY DEF OrderInv
<1>2. ASSUME NEW p \in Procs, CreateInsert(p) PROVE IsFiniteSet(exists')
  <2>1. PICK l \in Lectures : exists' = exists \cup {l}
    BY <1>2 DEF CreateInsert
  <2> QED
    BY <1>1, <2>1, FS_AddElement
<1>3. ASSUME NEW l \in Lectures, Delete(l) PROVE IsFiniteSet(exists')
  BY <1>1, <1>3, FS_RemoveElement DEF Delete
<1>4. ASSUME NEW p \in Procs, ~CreateInsert(p), Request(p) \/ Step(p) \/ Abort(p)
      PROVE  UNCHANGED exists
  BY <1>4
  DEF Request, Step, Abort, CreateReadCode, UpdateFind, UpdateReload, UpdateWrite,
      EnrollLock, EnrollCommit, DropEnrollment, DropLecture, DropUser, DropCommit,
      BulkLock, BulkTerm, BulkEligible,
      BulkCommit, AutoPool, AutoList, AutoLock, AutoFill, AutoCommit
<1>5. CASE UNCHANGED vars
  BY <1>1, <1>5 DEF vars
<1> QED
  BY <1>1, <1>2, <1>3, <1>4, <1>5 DEF Next

LEMMA OrderStep == OrderInv /\ [Next]_vars => OrderInv'
<1> SUFFICES ASSUME OrderInv, [Next]_vars PROVE OrderInv'
  OBVIOUS
<1>a. TypeOK /\ TypeOK' /\ IsFiniteSet(exists')
  BY TypeStep, FinitelyMany DEF OrderInv
<1>b. \A p \in Procs : LocksOrdered(p)
  BY DEF OrderInv
<1> SUFFICES \A q \in Procs : LocksOrdered(q)'
  BY <1>a DEF OrderInv
<1>1. ASSUME NEW p \in Procs,
             CreateInsert(p) \/ UpdateWrite(p) \/ EnrollCommit(p) \/ DropCommit(p)
               \/ BulkCommit(p) \/ AutoCommit(p) \/ Abort(p)
      PROVE  \A q \in Procs : LocksOrdered(q)'
  BY <1>1, OrderAfterFinish
  DEF CreateInsert, UpdateWrite, EnrollCommit, DropCommit, BulkCommit, AutoCommit, Abort
<1>2. ASSUME NEW p \in Procs,
             NEW point \in {"create", "reload", "write", "list", "dropping"}, NEW j,
             pc[p] \in {"idle", "reload"}, Goto(p, point, j), UNCHANGED lock
      PROVE  \A q \in Procs : LocksOrdered(q)'
  <2>1. pc'[p] = point
    BY <1>2, <1>a DEF Goto, TypeOK
  <2>2. LocksOrdered(p)'
    BY <1>2, <1>b, <2>1 DEF LocksOrdered
  <2> QED
    BY <1>2, <2>2, OrderOfOthers
<1>3. ASSUME NEW p \in Procs,
             \/ \E t \in Terms, cap \in Capacities : CreateReadCode(p, t, cap)
             \/ \E l \in Lectures : UpdateFind(p, l)
             \/ UpdateReload(p)
             \/ \E t \in Terms : AutoPool(p, t)
             \/ \E l \in Lectures, u \in Users : DropEnrollment(p, l, u)
      PROVE  \A q \in Procs : LocksOrdered(q)'
  <2>1. ASSUME NEW t \in Terms, NEW cap \in Capacities, CreateReadCode(p, t, cap)
        PROVE  \A q \in Procs : LocksOrdered(q)'
    <3>1. PICK j : Goto(p, "create", j) /\ pc[p] = "idle" /\ UNCHANGED lock
      BY <2>1 DEF CreateReadCode
    <3> QED
      BY <1>2, <3>1
  <2>2. ASSUME NEW l \in Lectures, UpdateFind(p, l)
        PROVE  \A q \in Procs : LocksOrdered(q)'
    <3>1. PICK j : Goto(p, "reload", j) /\ pc[p] = "idle" /\ UNCHANGED lock
      BY <2>2 DEF UpdateFind
    <3> QED
      BY <1>2, <3>1
  <2>3. ASSUME UpdateReload(p) PROVE \A q \in Procs : LocksOrdered(q)'
    <3>1. PICK j : Goto(p, "write", j) /\ pc[p] = "reload" /\ UNCHANGED lock
      BY <2>3 DEF UpdateReload
    <3> QED
      BY <1>2, <3>1
  <2>4. ASSUME NEW t \in Terms, AutoPool(p, t) PROVE \A q \in Procs : LocksOrdered(q)'
    <3>1. PICK j : Goto(p, "list", j) /\ pc[p] = "idle" /\ UNCHANGED lock
      BY <2>4 DEF AutoPool
    <3> QED
      BY <1>2, <3>1
  <2>5. ASSUME NEW l \in Lectures, NEW u \in Users, DropEnrollment(p, l, u)
        PROVE  \A q \in Procs : LocksOrdered(q)'
    <3>1. PICK j : Goto(p, "dropping", j) /\ pc[p] = "idle" /\ UNCHANGED lock
      BY <2>5 DEF DropEnrollment
    <3> QED
      BY <1>2, <3>1
  <2> QED
    BY <1>3, <2>1, <2>2, <2>3, <2>4, <2>5
<1>4. ASSUME NEW p \in Procs, NEW l \in Lectures, NEW point \in {"enroll", "dropuser", "term"},
             NEW j, LockRow(p, l), Goto(p, point, j)
      PROVE  \A q \in Procs : LocksOrdered(q)'
  <2>1. pc'[p] = point
    BY <1>4, <1>a DEF Goto, TypeOK
  <2>2. LocksOrdered(p)'
    BY <2>1 DEF LocksOrdered
  <2>3. \A m \in Lectures : lock'[m] # p => lock'[m] = lock[m]
    BY <1>4, <1>a DEF LockRow, TypeOK
  <2> QED
    BY <1>4, <2>2, <2>3, OrderOfOthers
<1>5. ASSUME NEW p \in Procs, NEW l \in Lectures,
             \/ \E u \in Users : EnrollLock(p, l, u)
             \/ \E S \in SUBSET Users : BulkLock(p, l, S)
      PROVE  \A q \in Procs : LocksOrdered(q)'
  BY <1>5, <1>4 DEF EnrollLock, BulkLock
<1>5a. ASSUME NEW p \in Procs, DropLecture(p) PROVE \A q \in Procs : LocksOrdered(q)'
  <2>1. job[p].lecture \in Lectures
    BY <1>5a, <1>a DEF DropLecture, LockRow, TypeOK
  <2> QED
    BY <1>4, <1>5a, <2>1 DEF DropLecture
<1>6. ASSUME NEW p \in Procs, DropUser(p) \/ BulkTerm(p) \/ BulkEligible(p)
      PROVE  \A q \in Procs : LocksOrdered(q)'
  <2>1. PICK point \in {"drop", "eligible", "bulk"} : Goto(p, point, job[p]) /\ UNCHANGED lock
    BY <1>6 DEF DropUser, BulkTerm, BulkEligible
  <2>2. pc'[p] = point
    BY <2>1, <1>a DEF Goto, TypeOK
  <2>3. LocksOrdered(p)'
    BY <2>2 DEF LocksOrdered
  <2> QED
    BY <2>1, <2>3, OrderOfOthers
<1>7. ASSUME NEW p \in Procs, AutoList(p) PROVE \A q \in Procs : LocksOrdered(q)'
  <2>1. PICK j : Goto(p, "assign", j) /\ UNCHANGED lock /\ pc[p] = "list"
    BY <1>7 DEF AutoList
  <2>2. pc'[p] = "assign"
    BY <2>1, <1>a DEF Goto, TypeOK
  <2>3. \A l \in Lectures : lock'[l] # p
    BY <1>b, <2>1 DEF LocksOrdered
  <2>4. LocksOrdered(p)'
    BY <2>2, <2>3 DEF LocksOrdered
  <2> QED
    BY <2>1, <2>4, OrderOfOthers
<1>8. ASSUME NEW p \in Procs, AutoLock(p) PROVE \A q \in Procs : LocksOrdered(q)'
  <2>1. PICK l \in Lectures :
            /\ NextInLoop(job[p], l)
            /\ \/ /\ LockRow(p, l)
                  /\ Goto(p, "fill", [job[p] EXCEPT !.todo = @ \ {l}, !.lecture = l,
                                                    !.seen = row[l]])
               \/ /\ l \notin exists
                  /\ Goto(p, "assign", [job[p] EXCEPT !.todo = @ \ {l}])
                  /\ UNCHANGED lock
    BY <1>8 DEF AutoLock
  <2>2. /\ pc'[p] \in {"assign", "fill"}
        /\ job'[p].todo = job[p].todo \ {l}
    <3>1. job[p] \in Job /\ job \in [Procs -> Job] /\ pc \in [Procs -> PCs]
      BY <1>a DEF TypeOK
    <3>2. CASE Goto(p, "fill", [job[p] EXCEPT !.todo = @ \ {l}, !.lecture = l,
                                             !.seen = row[l]])
      BY <3>1, <3>2 DEF Goto, Job
    <3>3. CASE Goto(p, "assign", [job[p] EXCEPT !.todo = @ \ {l}])
      BY <3>1, <3>3 DEF Goto, Job
    <3> QED
      BY <2>1, <3>2, <3>3
  <2>3. \A m \in Lectures : lock'[m] # p => lock'[m] = lock[m]
    BY <2>1, <1>a DEF LockRow, TypeOK
  <2>4. \A m \in Lectures : lock'[m] = p => lock[m] = p \/ m = l
    BY <2>1, <1>a DEF LockRow, TypeOK
  <2>5. job[p].todo \subseteq Lectures /\ \A m \in job[p].todo : l <= m
    BY <2>1, <1>a DEF NextInLoop, TypeOK, Job
  <2>6. \A m \in job'[p].todo : l < m
    <3>1. l \in Nat /\ job[p].todo \subseteq Nat
      BY <2>5, ConstantsAssumption
    <3>2. \A m \in job'[p].todo : m \in Nat /\ l <= m /\ m # l
      BY <2>2, <2>5, <3>1
    <3> QED
      BY <3>1, <3>2
  <2>7. \A m \in Lectures : lock[m] = p => \A n \in job[p].todo : m < n
    BY <1>8, <1>b DEF AutoLock, LocksOrdered
  <2>8. LocksOrdered(p)'
    BY <2>2, <2>4, <2>6, <2>7 DEF LocksOrdered
  <2> QED
    BY <2>1, <2>3, <2>8, OrderOfOthers
<1>9. ASSUME NEW p \in Procs, AutoFill(p) PROVE \A q \in Procs : LocksOrdered(q)'
  <2>1. PICK j : /\ Goto(p, "assign", j)
                 /\ j.todo = job[p].todo
                 /\ UNCHANGED lock
                 /\ pc[p] = "fill"
    <3>1. job[p] \in Job
      BY <1>a DEF TypeOK
    <3> QED
      BY <1>9, <3>1 DEF AutoFill, Job
  <2>2. pc'[p] = "assign" /\ job'[p].todo = job[p].todo
    BY <2>1, <1>a DEF Goto, TypeOK
  <2>3. LocksOrdered(p)'
    BY <1>b, <2>1, <2>2 DEF LocksOrdered
  <2> QED
    BY <2>1, <2>3, OrderOfOthers
<1>10. ASSUME NEW l \in Lectures, Delete(l) PROVE \A q \in Procs : LocksOrdered(q)'
  BY <1>10, <1>b DEF Delete, LocksOrdered
<1>11. CASE UNCHANGED vars
  BY <1>11, <1>b DEF vars, LocksOrdered
<1> QED
  BY <1>1, <1>3, <1>5, <1>5a, <1>6, <1>7, <1>8, <1>9, <1>10, <1>11 DEF Next, Request, Step

\* A finite set of lectures that is not empty has a greatest one.
LEMMA Greatest ==
    ASSUME NEW W \in SUBSET Lectures, IsFiniteSet(W), W # {}
    PROVE  \E l \in W : \A m \in W : m <= l
<1> DEFINE Above(l) == {m \in W : l < m}
           T == {Above(l) : l \in W}
<1>1. \A l \in W : l \in Nat
  BY ConstantsAssumption
<1>2. T \subseteq FiniteSubsetsOf(W)
  <2>1. \A l \in W : Above(l) \subseteq W /\ IsFiniteSet(Above(l))
    BY FS_Subset
  <2> QED
    BY <2>1 DEF FiniteSubsetsOf
<1>3. T # {}
  OBVIOUS
<1>4. IsWellFoundedOn(StrictSubsetOrdering(W), FiniteSubsetsOf(W))
  BY FS_StrictSubsetOrderingWellFounded
<1>5. PICK S \in T : \A U \in T : <<U, S>> \notin StrictSubsetOrdering(W)
  <2> HIDE DEF T
  <2> QED
    BY <1>2, <1>3, <1>4, WFMin
<1>6. PICK l \in W : S = Above(l)
  OBVIOUS
<1>7. ASSUME NEW m \in W, ~(m <= l) PROVE FALSE
  <2>1. m \in Above(l)
    BY <1>1, <1>7
  <2>2. Above(m) \subseteq Above(l) /\ Above(m) # Above(l)
    BY <1>1, <2>1
  <2>3. <<Above(m), S>> \in StrictSubsetOrdering(W)
    BY <1>6, <2>2 DEF StrictSubsetOrdering
  <2> QED
    BY <1>5, <2>3
<1> QED
  BY <1>7

\* In a circle without a drop that waits, only assignments are left.
LEMMA OnlyAssignmentsCircle ==
    ASSUME NEW D \in SUBSET Procs, Circle(D),
           \A p \in D : pc[p] \notin {"dropping", "dropuser"}
    PROVE  \A p \in D : /\ pc[p] = "assign"
                        /\ \E q \in D, l \in Lectures : NextInLoop(job[p], l) /\ lock[l] = q
<1>1. ASSUME NEW p \in D
      PROVE  pc[p] \in {"assign", "dropping", "dropuser", "enroll", "bulk", "fill", "term"}
  BY DEF Circle, WaitsFor
<1>2. \A p \in D, q \in D : ~BlocksInsert(q, job[p].lecture, job[p].users)
  <2> SUFFICES ASSUME NEW p \in D, NEW q \in D, BlocksInsert(q, job[p].lecture, job[p].users)
               PROVE  FALSE
    OBVIOUS
  <2>1. pc[q] \in {"dropping", "dropuser", "drop"}
    BY DEF BlocksInsert, HoldsUser, HoldsEnrollment
  <2> QED
    BY <1>1, <2>1
<1>3. \A p \in D : pc[p] \notin {"enroll", "bulk", "fill"}
  BY <1>2 DEF Circle, WaitsFor
<1>4. \A q \in D : \A t : ~HoldsTerm(q, t)
  BY <1>1, <1>3 DEF HoldsTerm
<1>5. \A p \in D : pc[p] # "term"
  BY <1>4 DEF Circle, WaitsFor
<1>6. \A p \in D : pc[p] = "assign"
  BY <1>1, <1>3, <1>5
<1> QED
  BY <1>6 DEF Circle, WaitsFor

\* Whoever waits in vain for a member of D is himself waited for at a later
\* lecture, and there is a last one.
LEMMA NoOtherCircle ==
    ASSUME OrderInv
    PROVE  CircleTakesDrop
<1> SUFFICES ASSUME NEW D \in SUBSET Procs, Circle(D),
                    \A p \in D : pc[p] \notin {"dropping", "dropuser"}
             PROVE  FALSE
  BY DEF CircleTakesDrop
<1> DEFINE Waits(p, l, q) == pc[p] = "assign" /\ NextInLoop(job[p], l) /\ lock[l] = q
           W == {l \in exists : \E p \in D, q \in D : Waits(p, l, q)}
<1>1. TypeOK /\ IsFiniteSet(exists) /\ \A p \in Procs : LocksOrdered(p)
  BY DEF OrderInv
<1>2. W \in SUBSET Lectures /\ IsFiniteSet(W)
  BY <1>1, FS_Subset DEF TypeOK
<1>3. ASSUME NEW p \in D PROVE \E l \in W, q \in D : Waits(p, l, q)
  <2>1. PICK q \in D, l \in Lectures :
            pc[p] = "assign" /\ NextInLoop(job[p], l) /\ lock[l] = q
    BY <1>3, OnlyAssignmentsCircle
  <2>2. l \in exists
    BY <1>1, <2>1, ConstantsAssumption DEF TypeOK
  <2> QED
    BY <1>3, <2>1, <2>2
<1>4. W # {}
  BY <1>3 DEF Circle
<1>5. PICK l \in W : \A m \in W : m <= l
  BY <1>2, <1>4, Greatest
<1>6. PICK q \in D : lock[l] = q
  OBVIOUS
<1>7. PICK m \in W, r \in D : Waits(q, m, r)
  BY <1>3
<1>8. l < m
  BY <1>1, <1>2, <1>6, <1>7 DEF LocksOrdered, NextInLoop
<1>9. l \in Nat /\ m \in Nat
  BY <1>2, ConstantsAssumption
<1> QED
  BY <1>5, <1>7, <1>8, <1>9

\* However many requests there are, no group of them waits in a circle for the
\* rows of lectures, users, enrollments and terms unless a drop is among them.
THEOREM CirclesTakeADrop == Spec => []CircleTakesDrop
  BY OrderInit, OrderStep, NoOtherCircle, PTL DEF Spec

=============================================================================
