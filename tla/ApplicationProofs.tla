-------------------------- MODULE ApplicationProofs --------------------------
(* Theorems about Application and about Form and their proofs: the two share their      *)
(* actors and nothing else.                                                              *)
EXTENDS Application, Form, FiniteSetTheorems, WellFoundedInduction, TLAPS

-----------------------------------------------------------------------------
(* Application. *)

LEMMA Placeholders == NoRow \in Row /\ NewRow \in Row /\ NoJob \in Job
<1>1. NoRow \in Row /\ NewRow \in Row
  BY ConstantsAssumption DEF NoRow, NewRow, Row, Statuses, Results
<1>2. (CHOOSE u \in Users : TRUE) \in Users
  BY ConstantsAssumption
<1> QED
  BY <1>1, <1>2 DEF NoJob, Job

LEMMA GotoType ==
    ASSUME Shape, NEW p \in Procs, NEW point \in PCs, NEW j \in Job, Goto(p, point, j)
    PROVE  /\ pc' \in [Procs -> PCs]
           /\ job' \in [Procs -> Job]
  BY DEF Shape, Goto

LEMMA FinishType ==
    ASSUME Shape, NEW p \in Procs, Finish(p)
    PROVE  /\ pc' \in [Procs -> PCs]
           /\ job' \in [Procs -> Job]
           /\ lock' \in [Users -> Procs \cup {NoProc}]
<1>1. "idle" \in PCs
  BY DEF PCs
<1>2. pc' \in [Procs -> PCs] /\ job' \in [Procs -> Job]
  BY <1>1, Placeholders, GotoType DEF Finish
<1> QED
  BY <1>2 DEF Finish, Shape

LEMMA LockType ==
    ASSUME Shape, NEW p \in Procs, NEW u \in Users, LockRow(p, u)
    PROVE  lock' \in [Users -> Procs \cup {NoProc}]
  BY DEF Shape, LockRow

\* The entities the use cases save are rows, and so is what a save leaves.
LEMMA SavedType ==
    ASSUME NEW u \in Users, NEW e \in Row, NEW base \in Row, row[u] \in Row
    PROVE  Saved(u, e, base) \in Row
  BY DEF Saved, Row

LEMMA EntityType ==
    ASSUME NEW e \in Row
    PROVE  Submitted(e) \in Row /\ Canceled(e) \in Row /\ Edited(e) \subseteq Row
<1>1. Submitted(e) \in Row /\ Canceled(e) \in Row
  BY DEF Submitted, Canceled, Row, Statuses
<1>2. \A in \in BOOLEAN : ChangeCheckInStatus(e, in) \in Row
  BY DEF ChangeCheckInStatus, Row, Statuses
<1>3. ASSUME NEW f \in Row, NEW pay \in Payments PROVE [f EXCEPT !.payment = pay] \in Row
  BY DEF Row
<1> QED
  BY <1>1, <1>2, <1>3 DEF Edited

-----------------------------------------------------------------------------
(* The inductive invariant.  CheckInConsistent is not inductive: that an    *)
(* upsert leaves the two columns consistent rests on the consistency of its *)
(* old snapshot and on its row not having changed since it was locked.      *)

Sound(r) ==
    /\ r.status = "none" => r = NoRow
    /\ r.checkedInAt = "set" <=> r.status = "CHECKED_IN"

\* What a request holds is what it read, and is a state it may act on.
JobInv(p) ==
    /\ Holds(p) => row[job[p].user].status # "none"
    /\ pc[p] \in {"submit", "save", "cancel", "admin"} => Sound(job[p].base)
    /\ pc[p] \in {"cancel", "admin"} => job[p].base = job[p].seen
    /\ pc[p] = "save" => job[p].seen.status # "CHECKED_IN"
    /\ Holds(p) /\ pc[p] \in {"save", "cancel", "admin"} => job[p].seen = row[job[p].user]
    /\ pc[p] = "cancel" => job[p].seen.status = "SUBMITTED"
    /\ pc[p] \in {"play", "draw"} =>
          /\ row[job[p].user].status = "CHECKED_IN"
          /\ row[job[p].user].event = "none"

\* The plays under way that may still win.
Drawing == {p \in Procs : pc[p] = "draw" /\ "WIN" \in job[p].chances}

DrawInv ==
    Cardinality(Winners) + Cardinality(Drawing) <= WinnerLimit - 1 + Cardinality(Procs)

RowsInv == \A u \in Users : Sound(row[u])

JobsInv == \A p \in Procs : JobInv(p)

IInv == TypeOK /\ RowsInv /\ JobsInv /\ DrawInv /\ SubmissionStands

-----------------------------------------------------------------------------
(* Type correctness. *)

LEMMA ShapeStep == Shape /\ [Next]_vars => Shape'
<1> SUFFICES ASSUME Shape, [Next]_vars PROVE Shape'
  OBVIOUS
<1>1. \A p \in Procs : job[p] \in Job
  BY DEF Shape
<1>2. \A u \in Users : row[u] \in Row
  BY DEF Shape
<1>3. ASSUME NEW p \in Procs, NEW u \in Users, NEW f \in Forms, UpsertRead(p, u, f)
      PROVE  Shape'
  <2>1. [NoJob EXCEPT !.user = u, !.base = row[u], !.form = f] \in Job
    BY <1>2, Placeholders DEF Job
  <2> QED
    BY <1>3, <2>1, GotoType DEF UpsertRead, PCs, Shape
<1>4. ASSUME NEW p \in Procs, UpsertLock(p) PROVE Shape'
  <2>1. [job[p] EXCEPT !.seen = row[job[p].user]] \in Job
    BY <1>1, <1>2 DEF Job
  <2>2. job[p].user \in Users
    BY <1>1 DEF Job
  <2>3. lock' \in [Users -> Procs \cup {NoProc}]
    BY <1>4, <2>2, LockType DEF UpsertLock, Shape
  <2> QED
    BY <1>4, <2>1, <2>3, GotoType DEF UpsertLock, PCs, Shape
<1>5. ASSUME NEW p \in Procs, UpsertCommit(p) PROVE Shape'
  <2>1. job[p].user \in Users /\ job[p].seen \in Row /\ job[p].base \in Row
    BY <1>1 DEF Job
  <2>2. Saved(job[p].user, Submitted(job[p].seen), job[p].base) \in Row
    BY <1>2, <2>1, EntityType, SavedType
  <2>3. row' \in [Users -> Row]
    BY <1>5, <2>2, Placeholders DEF UpsertCommit, Shape
  <2>4. /\ form' \in [Users -> Forms \cup {NoForm}]
        /\ told' \in [Users -> Forms \cup {NoForm}]
        /\ stale' \subseteq Users
    BY <1>1, <1>5, <2>1 DEF UpsertCommit, Shape, Job
  <2>5. Finish(p)
    BY <1>5 DEF UpsertCommit
  <2> QED
    BY <2>3, <2>4, <2>5, FinishType DEF Shape
<1>6. ASSUME NEW p \in Procs, NEW u \in Users,
             CancelLock(p, u) \/ PlayLock(p, u) \/ AdminLock(p, u)
      PROVE  Shape'
  <2>1. /\ [NoJob EXCEPT !.user = u, !.base = row[u], !.seen = row[u]] \in Job
        /\ [NoJob EXCEPT !.user = u] \in Job
    BY <1>2, Placeholders DEF Job
  <2>2. pc' \in [Procs -> PCs] /\ job' \in [Procs -> Job]
    BY <1>6, <2>1, GotoType DEF CancelLock, PlayLock, AdminLock, PCs
  <2>3. lock' \in [Users -> Procs \cup {NoProc}]
    BY <1>6, LockType DEF CancelLock, PlayLock, AdminLock
  <2> QED
    BY <1>6, <2>2, <2>3 DEF CancelLock, PlayLock, AdminLock, Shape
<1>7. ASSUME NEW p \in Procs, CancelCommit(p) PROVE Shape'
  <2>1. job[p].user \in Users /\ job[p].seen \in Row /\ job[p].base \in Row
    BY <1>1 DEF Job
  <2>2. Saved(job[p].user, Canceled(job[p].seen), job[p].base) \in Row
    BY <1>2, <2>1, EntityType, SavedType
  <2>3. row' \in [Users -> Row]
    BY <1>7, <2>2 DEF CancelCommit, Shape
  <2> QED
    BY <1>7, <2>3, FinishType DEF CancelCommit, Shape
<1>8. ASSUME NEW p \in Procs, PlayCount(p) PROVE Shape'
  <2>1. \A S \in SUBSET {"WIN", "LOSE"} : [job[p] EXCEPT !.chances = S] \in Job
    BY <1>1 DEF Job
  <2> QED
    BY <1>8, <2>1, GotoType DEF PlayCount, PCs, Shape
<1>9. ASSUME NEW p \in Procs, PlayCommit(p) PROVE Shape'
  <2>1. PICK result \in {"WIN", "LOSE"} : row' = [row EXCEPT ![job[p].user].event = result]
    BY <1>1, <1>9 DEF PlayCommit, Job
  <2>2. [row[job[p].user] EXCEPT !.event = result] \in Row
    BY <1>1, <1>2 DEF Row, Results, Job
  <2>3. row' \in [Users -> Row]
    BY <2>1, <2>2 DEF Shape
  <2> QED
    BY <1>9, <2>3, FinishType DEF PlayCommit, Shape
<1>10. ASSUME NEW p \in Procs, NEW u \in Users, CheckInRead(p, u) PROVE Shape'
  <2>1. [NoJob EXCEPT !.user = u] \in Job
    BY Placeholders DEF Job
  <2> QED
    BY <1>10, <2>1, GotoType DEF CheckInRead, PCs, Shape
<1>11. ASSUME NEW p \in Procs, CheckInWrite(p) PROVE Shape'
  <2>1. ASSUME NEW r \in Row
        PROVE  [r EXCEPT !.checkedInAt = "set", !.status = "CHECKED_IN"] \in Row
    BY DEF Row, Statuses
  <2>2. row' \in [Users -> Row]
    BY <1>1, <1>2, <1>11, <2>1 DEF CheckInWrite, Shape, Job
  <2> QED
    BY <1>11, <2>2, FinishType DEF CheckInWrite, Shape
<1>12. ASSUME NEW p \in Procs, AdminCommit(p) PROVE Shape'
  <2>1. job[p].user \in Users /\ job[p].seen \in Row /\ job[p].base \in Row
    BY <1>1 DEF Job
  <2>2. \A e \in Edited(job[p].seen) : Saved(job[p].user, e, job[p].base) \in Row
    BY <1>2, <2>1, EntityType, SavedType
  <2>3. row' \in [Users -> Row]
    BY <1>12, <2>2 DEF AdminCommit, Shape
  <2>4. /\ form' \in [Users -> Forms \cup {NoForm}]
        /\ told' \in [Users -> Forms \cup {NoForm}]
    BY <1>12 DEF AdminCommit, Shape
  <2> QED
    BY <1>12, <2>3, <2>4, FinishType DEF AdminCommit, Shape
<1>13. ASSUME NEW p \in Procs, Abort(p) PROVE Shape'
  BY <1>13, FinishType DEF Abort, Shape
<1>14. CASE UNCHANGED vars
  BY <1>14 DEF vars, Shape
<1> QED
  BY <1>3, <1>4, <1>5, <1>6, <1>7, <1>8, <1>9, <1>10, <1>11, <1>12, <1>13, <1>14
  DEF Next, Request, AdminRequest, Step

-----------------------------------------------------------------------------
(* What a step of p leaves alone. *)

\* A step of p moves p only, takes or gives back p's own locks only, and writes
\* no row another request holds, except a row that does not exist yet.
Mine(p) ==
    /\ \A q \in Procs \ {p} : pc'[q] = pc[q] /\ job'[q] = job[q]
    /\ \A u \in Users : lock[u] \notin {NoProc, p} => lock'[u] = lock[u]
    /\ \A u \in Users :
          row[u].status # "none" /\ lock[u] \notin {NoProc, p} => row'[u] = row[u]

LEMMA GotoMine ==
    ASSUME Shape, NEW p \in Procs, NEW point, NEW j, Goto(p, point, j)
    PROVE  /\ \A q \in Procs \ {p} : pc'[q] = pc[q] /\ job'[q] = job[q]
           /\ pc'[p] = point
           /\ job'[p] = j
  BY DEF Goto, Shape

LEMMA FinishMine ==
    ASSUME Shape, NEW p \in Procs, Finish(p)
    PROVE  /\ \A q \in Procs \ {p} : pc'[q] = pc[q] /\ job'[q] = job[q]
           /\ pc'[p] = "idle"
           /\ \A u \in Users : lock[u] \notin {NoProc, p} => lock'[u] = lock[u]
  BY GotoMine DEF Finish, Shape

LEMMA LockMine ==
    ASSUME Shape, NEW p \in Procs, NEW u \in Users, LockRow(p, u)
    PROVE  /\ \A v \in Users : lock[v] \notin {NoProc, p} => lock'[v] = lock[v]
           /\ row[u].status # "none"
           /\ lock'[u] = p
  BY DEF LockRow, Shape

LEMMA StepMine ==
    ASSUME TypeOK, NEW p \in Procs, Request(p) \/ Step(p) \/ Abort(p)
    PROVE  Mine(p)
<1>1. Shape /\ \A q \in Procs : job[q].user \in Users
  BY DEF TypeOK, Shape, Job
<1>2. ASSUME NEW u \in Users, NEW f \in Forms, UpsertRead(p, u, f) PROVE Mine(p)
  BY <1>1, <1>2, GotoMine DEF UpsertRead, Mine
<1>3. ASSUME UpsertLock(p) PROVE Mine(p)
  BY <1>1, <1>3, GotoMine, LockMine DEF UpsertLock, Mine
<1>4. ASSUME UpsertCommit(p) PROVE Mine(p)
  <2>1. \/ row[job[p].user].status = "none"
        \/ lock[job[p].user] = p
    BY <1>4 DEF UpsertCommit, TypeOK, Holds
  <2>2. \A u \in Users \ {job[p].user} : row'[u] = row[u]
    BY <1>1, <1>4 DEF UpsertCommit, Shape
  <2>3. Finish(p)
    BY <1>4 DEF UpsertCommit
  <2> QED
    BY <1>1, <2>1, <2>2, <2>3, FinishMine DEF Mine
<1>5. ASSUME NEW u \in Users, CancelLock(p, u) \/ PlayLock(p, u) \/ AdminLock(p, u)
      PROVE  Mine(p)
  BY <1>1, <1>5, GotoMine, LockMine DEF CancelLock, PlayLock, AdminLock, Mine
<1>6. ASSUME CancelCommit(p) \/ PlayCommit(p) \/ AdminCommit(p) PROVE Mine(p)
  <2>1. lock[job[p].user] = p
    BY <1>6 DEF CancelCommit, PlayCommit, AdminCommit, TypeOK, Holds, Locked
  <2>2. \A u \in Users \ {job[p].user} : row'[u] = row[u]
    BY <1>1, <1>6 DEF CancelCommit, PlayCommit, AdminCommit, Shape
  <2>3. Finish(p)
    BY <1>6 DEF CancelCommit, PlayCommit, AdminCommit
  <2> QED
    BY <1>1, <2>1, <2>2, <2>3, FinishMine DEF Mine
<1>7. ASSUME PlayCount(p) PROVE Mine(p)
  BY <1>1, <1>7, GotoMine DEF PlayCount, Mine
<1>8. ASSUME NEW u \in Users, CheckInRead(p, u) PROVE Mine(p)
  BY <1>1, <1>8, GotoMine DEF CheckInRead, Mine
<1>9. ASSUME CheckInWrite(p) PROVE Mine(p)
  <2>1. lock[job[p].user] = NoProc
    BY <1>9 DEF CheckInWrite
  <2>2. \A u \in Users \ {job[p].user} : row'[u] = row[u]
    BY <1>1, <1>9 DEF CheckInWrite, Shape
  <2>3. Finish(p)
    BY <1>9 DEF CheckInWrite
  <2> QED
    BY <1>1, <2>1, <2>2, <2>3, FinishMine DEF Mine
<1>10. ASSUME Abort(p) PROVE Mine(p)
  BY <1>1, <1>10, FinishMine DEF Abort, Mine
<1> QED
  BY <1>2, <1>3, <1>4, <1>5, <1>6, <1>7, <1>8, <1>9, <1>10 DEF Request, AdminRequest, Step

\* What another request holds and knows survives a step of p.
LEMMA OthersKeep ==
    ASSUME TypeOK, JobsInv, NEW p \in Procs, Mine(p), NEW q \in Procs \ {p}
    PROVE  /\ (Holds(q) => lock[job[q].user] = q)'
           /\ JobInv(q)'
<1>1. pc'[q] = pc[q] /\ job'[q] = job[q] /\ q # NoProc /\ job[q].user \in Users
  BY ConstantsAssumption DEF Mine, TypeOK, Shape, Job
<1>2. Holds(q)' <=> Holds(q)
  BY <1>1 DEF Holds
<1>3. CASE Holds(q)
  <2>1. lock[job[q].user] = q /\ row[job[q].user].status # "none"
    BY <1>3 DEF TypeOK, JobsInv, JobInv
  <2>2. lock'[job[q].user] = q /\ row'[job[q].user] = row[job[q].user]
    BY <1>1, <2>1 DEF Mine
  <2>3. JobInv(q)
    BY DEF JobsInv
  <2> QED
    BY <1>1, <1>2, <2>2, <2>3 DEF JobInv
<1>4. CASE ~Holds(q)
  <2>1. pc[q] \notin {"play", "draw"}
    BY <1>4 DEF Holds, Locked
  <2>2. JobInv(q)
    BY DEF JobsInv
  <2> QED
    BY <1>1, <1>2, <1>4, <2>1, <2>2 DEF JobInv
<1> QED
  BY <1>3, <1>4

-----------------------------------------------------------------------------
(* A save under the lock. *)

\* With the snapshot equal to what was locked, the entity is stored as it is.
LEMMA SavedFresh ==
    ASSUME NEW u \in Users, NEW e \in Row, row[u] \in Row
    PROVE  Saved(u, e, row[u]) = e
<1>1. Saved(u, e, row[u]) =
        [status |-> e.status, checkedInAt |-> e.checkedInAt,
         payment |-> e.payment, event |-> e.event]
  BY DEF Saved
<1> QED
  BY <1>1 DEF Row

\* An upsert that found its application leaves it sound, whatever snapshot it
\* compares with; the other columns keep their values.
LEMMA SavedStale ==
    ASSUME NEW u \in Users, row[u] \in Row, NEW base \in Row,
           Sound(row[u]), Sound(base), row[u].status \notin {"none", "CHECKED_IN"},
           NEW r, r = Saved(u, Submitted(row[u]), base)
    PROVE  /\ r.status \in {"SUBMITTED", row[u].status}
           /\ base.status = row[u].status => r.status = "SUBMITTED"
           /\ r.checkedInAt = "null"
           /\ r.payment = row[u].payment
           /\ r.event = row[u].event
           /\ Sound(r)
<1>1. row[u].checkedInAt = "null"
  BY DEF Sound, Row
<1>2. /\ Submitted(row[u]).status = "SUBMITTED"
      /\ Submitted(row[u]).checkedInAt = "null"
      /\ Submitted(row[u]).payment = row[u].payment
      /\ Submitted(row[u]).event = row[u].event
  BY DEF Submitted, Row
<1>3. /\ r.status = IF "SUBMITTED" # base.status THEN "SUBMITTED" ELSE row[u].status
      /\ r.checkedInAt = "null"
      /\ r.payment = row[u].payment
      /\ r.event = row[u].event
  BY <1>1, <1>2 DEF Saved
<1> QED
  BY <1>3 DEF Sound

LEMMA EntitySound ==
    ASSUME NEW e \in Row, Sound(e), e.status # "none"
    PROVE  /\ Sound(Canceled(e))
           /\ Canceled(e).payment = e.payment /\ Canceled(e).event = e.event
           /\ \A f \in Edited(e) :
                 /\ Sound(f) /\ f.event = e.event
                 /\ e.status = "CANCELED" => f.status = "CANCELED"
                 /\ e.status # "CANCELED" => f.status \in {"SUBMITTED", "CHECKED_IN"}
<1>1. /\ Sound(Canceled(e))
      /\ Canceled(e).payment = e.payment /\ Canceled(e).event = e.event
  BY DEF Canceled, Sound, Row
<1>2. \A in \in BOOLEAN :
         LET f == ChangeCheckInStatus(e, in)
         IN  f \in Row /\ Sound(f) /\ f.event = e.event
             /\ f.status \in {"SUBMITTED", "CHECKED_IN"}
  BY DEF ChangeCheckInStatus, Sound, Row, Statuses
<1>3. ASSUME NEW f \in Row, Sound(f), f.status # "none", NEW pay \in Payments
      PROVE  LET g == [f EXCEPT !.payment = pay]
             IN  Sound(g) /\ g.event = f.event /\ g.status = f.status
  BY <1>3 DEF Sound, Row
<1>4. e.status \in {"SUBMITTED", "CHECKED_IN", "CANCELED"}
  BY DEF Row, Statuses
<1>5. ASSUME NEW f \in Edited(e)
      PROVE  /\ Sound(f) /\ f.event = e.event
             /\ e.status = "CANCELED" => f.status = "CANCELED"
             /\ e.status # "CANCELED" => f.status \in {"SUBMITTED", "CHECKED_IN"}
  <2>1. PICK pay \in Payments :
           \/ f = [e EXCEPT !.payment = pay]
           \/ /\ e.status # "CANCELED"
              /\ \E in \in BOOLEAN : f = [ChangeCheckInStatus(e, in) EXCEPT !.payment = pay]
    BY DEF Edited
  <2>2. CASE f = [e EXCEPT !.payment = pay]
    BY <1>3, <1>4, <2>2
  <2>3. CASE e.status # "CANCELED"
             /\ \E in \in BOOLEAN : f = [ChangeCheckInStatus(e, in) EXCEPT !.payment = pay]
    <3>1. PICK in \in BOOLEAN : f = [ChangeCheckInStatus(e, in) EXCEPT !.payment = pay]
      BY <2>3
    <3> DEFINE g == ChangeCheckInStatus(e, in)
    <3>2. g \in Row /\ Sound(g) /\ g.event = e.event /\ g.status \in {"SUBMITTED", "CHECKED_IN"}
      BY <1>2
    <3> HIDE DEF g
    <3>3. LET h == [g EXCEPT !.payment = pay]
          IN  Sound(h) /\ h.event = g.event /\ h.status = g.status
      BY <1>3, <3>2
    <3>4. f = [g EXCEPT !.payment = pay]
      BY <3>1 DEF g
    <3> QED
      BY <2>3, <3>2, <3>3, <3>4
  <2> QED
    BY <2>1, <2>2, <2>3
<1> QED
  BY <1>1, <1>5

-----------------------------------------------------------------------------
(* Each step keeps what the stepping request holds and knows. *)

LEMMA IdleKeeps ==
    ASSUME NEW p \in Procs, pc'[p] = "idle"
    PROVE  (Holds(p) => lock[job[p].user] = p)' /\ JobInv(p)'
  BY DEF Holds, Locked, JobInv

LEMMA OwnKeep ==
    ASSUME TypeOK, RowsInv, JobsInv, NEW p \in Procs, Request(p) \/ Step(p) \/ Abort(p)
    PROVE  (Holds(p) => lock[job[p].user] = p)' /\ JobInv(p)'
<1>1. Shape /\ JobInv(p) /\ job[p] \in Job /\ job[p].user \in Users
  BY DEF TypeOK, Shape, JobsInv, Job
<1>2. \A u \in Users : row[u] \in Row /\ Sound(row[u])
  BY <1>1 DEF Shape, RowsInv
<1>3. ASSUME NEW u \in Users, NEW f \in Forms, UpsertRead(p, u, f)
      PROVE  (Holds(p) => lock[job[p].user] = p)' /\ JobInv(p)'
  <2>0. /\ pc'[p] = "submit"
        /\ job'[p] = [NoJob EXCEPT !.user = u, !.base = row[u], !.form = f]
    BY <1>1, <1>3, GotoMine DEF UpsertRead
  <2>1. pc'[p] = "submit" /\ job'[p].base = row[u]
    BY <2>0 DEF NoJob
  <2> QED
    BY <1>2, <2>1 DEF Holds, Locked, JobInv
<1>4. ASSUME UpsertLock(p)
      PROVE  (Holds(p) => lock[job[p].user] = p)' /\ JobInv(p)'
  <2> DEFINE u == job[p].user
  <2>1. /\ pc[p] = "submit"
        /\ pc'[p] = "save"
        /\ job'[p] = [job[p] EXCEPT !.seen = row[u]]
        /\ row' = row
        /\ row[u].status # "CHECKED_IN"
        /\ LockRow(p, u) \/ row[u].status = "none"
    BY <1>1, <1>4, GotoMine DEF UpsertLock, Editable
  <2>2. job'[p].seen = row[u] /\ job'[p].user = u /\ job'[p].base = job[p].base
    BY <1>1, <2>1 DEF Job
  <2>3. row[u].status # "none" => lock'[u] = p
    BY <1>1, <2>1, LockMine
  <2>4. Sound(job'[p].base)
    BY <1>1, <2>1, <2>2 DEF JobInv
  <2> QED
    BY <2>1, <2>2, <2>3, <2>4 DEF Holds, Locked, JobInv
<1>5. ASSUME NEW u \in Users, CancelLock(p, u) \/ AdminLock(p, u)
      PROVE  (Holds(p) => lock[job[p].user] = p)' /\ JobInv(p)'
  <2>1. /\ pc'[p] \in {"cancel", "admin"}
        /\ pc'[p] = "cancel" => row[u].status = "SUBMITTED"
        /\ job'[p] = [NoJob EXCEPT !.user = u, !.base = row[u], !.seen = row[u]]
        /\ row' = row
        /\ row[u].status # "none"
        /\ lock'[u] = p
    BY <1>1, <1>5, GotoMine, LockMine DEF CancelLock, AdminLock
  <2>2. job'[p].user = u /\ job'[p].base = row[u] /\ job'[p].seen = row[u]
    BY <2>1 DEF NoJob
  <2> QED
    BY <1>2, <2>1, <2>2 DEF Holds, JobInv
<1>6. ASSUME NEW u \in Users, PlayLock(p, u)
      PROVE  (Holds(p) => lock[job[p].user] = p)' /\ JobInv(p)'
  <2>1. /\ pc'[p] = "play"
        /\ row[u].status = "CHECKED_IN" /\ row[u].event = "none"
        /\ job'[p].user = u
        /\ row' = row
        /\ lock'[u] = p
    BY <1>1, <1>6, GotoMine, LockMine DEF PlayLock, NoJob
  <2> QED
    BY <2>1 DEF Holds, JobInv
<1>7. ASSUME PlayCount(p)
      PROVE  (Holds(p) => lock[job[p].user] = p)' /\ JobInv(p)'
  <2>1. /\ pc[p] = "play" /\ pc'[p] = "draw"
        /\ job'[p].user = job[p].user
        /\ row' = row /\ lock' = lock
    BY <1>1, <1>7, GotoMine DEF PlayCount, Job
  <2>2. lock[job[p].user] = p
    BY <2>1 DEF TypeOK, Holds, Locked
  <2> QED
    BY <1>1, <2>1, <2>2 DEF Holds, JobInv
<1>8. ASSUME NEW u \in Users, CheckInRead(p, u)
      PROVE  (Holds(p) => lock[job[p].user] = p)' /\ JobInv(p)'
  <2>1. pc'[p] = "scan"
    BY <1>1, <1>8, GotoMine DEF CheckInRead
  <2> QED
    BY <2>1 DEF Holds, Locked, JobInv
<1>9. ASSUME UpsertCommit(p) \/ CancelCommit(p) \/ PlayCommit(p) \/ CheckInWrite(p)
             \/ AdminCommit(p) \/ Abort(p)
      PROVE  (Holds(p) => lock[job[p].user] = p)' /\ JobInv(p)'
  <2>1. Finish(p)
    BY <1>9 DEF UpsertCommit, CancelCommit, PlayCommit, CheckInWrite, AdminCommit, Abort
  <2> QED
    BY <1>1, <2>1, FinishMine, IdleKeeps
<1> QED
  BY <1>3, <1>4, <1>5, <1>6, <1>7, <1>8, <1>9 DEF Request, AdminRequest, Step

\* Requests that write: what becomes of the row of the applicant.
LEMMA WriteEffects ==
    ASSUME TypeOK, RowsInv, JobsInv, NEW p \in Procs, NEW u, u = job[p].user,
           UpsertCommit(p) \/ CancelCommit(p) \/ PlayCommit(p) \/ CheckInWrite(p)
             \/ AdminCommit(p)
    PROVE  /\ u \in Users
           /\ \A v \in Users \ {u} : row'[v] = row[v]
           /\ Sound(row'[u])
           /\ PlayCommit(p) => /\ row[u].event = "none"
                               /\ row'[u].status = row[u].status
                               /\ row'[u].payment = row[u].payment
                               /\ row'[u].event \in job[p].chances
           /\ ~PlayCommit(p) => row'[u].event = row[u].event
           /\ pc[p] # "admin" => row'[u].payment = row[u].payment
           /\ pc[p] # "admin" /\ row[u].status = "CHECKED_IN" => row'[u].status = "CHECKED_IN"
           /\ UpsertCommit(p) /\ job[p].base.status = job[p].seen.status
                 => row'[u].status = "SUBMITTED"
           /\ CheckInWrite(p) => row'[u].status = "CHECKED_IN"
           /\ AdminCommit(p) /\ row[u].status \in {"SUBMITTED", "CHECKED_IN"}
                 => row'[u].status \in {"SUBMITTED", "CHECKED_IN"}
<1>1. Shape /\ JobInv(p) /\ job[p] \in Job /\ u \in Users
  BY DEF TypeOK, Shape, JobsInv, Job
<1>2. row \in [Users -> Row] /\ row[u] \in Row /\ Sound(row[u])
  BY <1>1 DEF Shape, RowsInv
<1>3. job[p].base \in Row /\ job[p].seen \in Row
  BY <1>1 DEF Job
<1>4. CASE UpsertCommit(p)
  <2>1. pc[p] = "save"
    BY <1>4 DEF UpsertCommit
  <2>2. Sound(job[p].base) /\ job[p].seen.status # "CHECKED_IN"
    BY <1>1, <2>1 DEF JobInv
  <2>3. CASE job[p].seen.status # "none" /\ job[p].base.status # "none"
               /\ row' = [row EXCEPT ![u] = Saved(u, Submitted(job[p].seen), job[p].base)]
    <3>1. job[p].seen = row[u]
      BY <1>1, <2>1, <2>3 DEF JobInv, Holds
    <3>2. row'[u] = Saved(u, Submitted(row[u]), job[p].base)
      BY <1>1, <1>2, <2>3, <3>1
    <3>3. row[u].status \notin {"none", "CHECKED_IN"}
      BY <2>2, <2>3, <3>1
    <3>4. /\ row[u].status \in {"SUBMITTED", "CANCELED"}
          /\ row'[u].status \in {"SUBMITTED", row[u].status}
          /\ job[p].base.status = row[u].status => row'[u].status = "SUBMITTED"
          /\ row'[u].payment = row[u].payment
          /\ row'[u].event = row[u].event
          /\ Sound(row'[u])
      BY <1>1, <1>2, <1>3, <2>2, <3>2, <3>3, SavedStale DEF Row, Statuses
    <3> QED
      BY <1>1, <1>2, <1>4, <2>1, <2>3, <3>1, <3>4
      DEF UpsertCommit, PlayCommit, CheckInWrite, AdminCommit
  <2>4. CASE row[u].status = "none" /\ row' = [row EXCEPT ![u] = NewRow]
    <3>1. row[u] = NoRow /\ row'[u] = NewRow
      BY <1>1, <1>2, <2>4 DEF Sound
    <3>2. /\ Sound(row'[u]) /\ row'[u].status = "SUBMITTED"
          /\ row'[u].payment = row[u].payment
          /\ row'[u].event = row[u].event
      BY <3>1 DEF NoRow, NewRow, Sound
    <3> QED
      BY <1>1, <1>2, <1>4, <2>1, <2>4, <3>2 DEF PlayCommit, CheckInWrite, AdminCommit
  <2> QED
    BY <1>4, <2>3, <2>4 DEF UpsertCommit
<1>5. CASE CancelCommit(p)
  <2>1. pc[p] = "cancel" /\ Holds(p)
    BY <1>5 DEF CancelCommit, Holds, Locked
  <2>2. job[p].seen = row[u] /\ job[p].base = row[u] /\ row[u].status = "SUBMITTED"
    BY <1>1, <2>1 DEF JobInv
  <2>3. row'[u] = Canceled(row[u]) /\ \A v \in Users \ {u} : row'[v] = row[v]
    BY <1>1, <1>2, <1>5, <2>2, EntityType, SavedFresh DEF CancelCommit
  <2>4. /\ Sound(row'[u])
        /\ row'[u].payment = row[u].payment /\ row'[u].event = row[u].event
    BY <1>2, <2>2, <2>3, EntitySound
  <2> QED
    BY <1>1, <2>1, <2>2, <2>3, <2>4 DEF UpsertCommit, PlayCommit, CheckInWrite, AdminCommit
<1>6. CASE PlayCommit(p)
  <2>1. pc[p] = "draw"
    BY <1>6 DEF PlayCommit
  <2>2. row[u].status = "CHECKED_IN" /\ row[u].event = "none"
    BY <1>1, <2>1 DEF JobInv
  <2>3. PICK result \in job[p].chances : row' = [row EXCEPT ![u].event = result]
    BY <1>6 DEF PlayCommit
  <2>4. row'[u] = [row[u] EXCEPT !.event = result] /\ \A v \in Users \ {u} : row'[v] = row[v]
    BY <1>1, <1>2, <2>3
  <2>5. /\ row'[u].status = row[u].status
        /\ row'[u].payment = row[u].payment
        /\ row'[u].checkedInAt = row[u].checkedInAt
        /\ row'[u].event = result
    BY <1>2, <2>4 DEF Row
  <2>6. Sound(row'[u])
    BY <1>2, <2>2, <2>5 DEF Sound
  <2> QED
    BY <1>1, <1>6, <2>1, <2>2, <2>4, <2>5, <2>6
    DEF UpsertCommit, CheckInWrite, AdminCommit
<1>7. CASE CheckInWrite(p)
  <2>1. pc[p] = "scan"
    BY <1>7 DEF CheckInWrite
  <2>2. /\ row'[u] = [row[u] EXCEPT !.checkedInAt = "set", !.status = "CHECKED_IN"]
        /\ \A v \in Users \ {u} : row'[v] = row[v]
    BY <1>1, <1>2, <1>7 DEF CheckInWrite
  <2>3. /\ row'[u].status = "CHECKED_IN" /\ row'[u].checkedInAt = "set"
        /\ row'[u].payment = row[u].payment
        /\ row'[u].event = row[u].event
    BY <1>2, <2>2 DEF Row
  <2> QED
    BY <1>1, <2>1, <2>2, <2>3 DEF UpsertCommit, PlayCommit, AdminCommit, Sound
<1>8. CASE AdminCommit(p)
  <2>1. pc[p] = "admin" /\ Holds(p)
    BY <1>8 DEF AdminCommit, Holds, Locked
  <2>2. job[p].seen = row[u] /\ job[p].base = row[u] /\ row[u].status # "none"
    BY <1>1, <2>1 DEF JobInv
  <2>3. PICK e \in Edited(row[u]) : row' = [row EXCEPT ![u] = Saved(u, e, row[u])]
    BY <1>8, <2>2 DEF AdminCommit
  <2>4. row'[u] = e /\ \A v \in Users \ {u} : row'[v] = row[v]
    BY <1>1, <1>2, <2>3, EntityType, SavedFresh
  <2>5. /\ Sound(e) /\ e.event = row[u].event
        /\ row[u].status # "CANCELED" => e.status \in {"SUBMITTED", "CHECKED_IN"}
    BY <1>2, <2>2, EntitySound
  <2> QED
    BY <1>1, <2>1, <2>4, <2>5 DEF UpsertCommit, PlayCommit, CheckInWrite
<1> QED
  BY <1>4, <1>5, <1>6, <1>7, <1>8

\* The other steps write no table; a play is the only one that starts drawing.
LEMMA QuietSteps ==
    ASSUME TypeOK, NEW p \in Procs,
           Request(p) \/ UpsertLock(p) \/ PlayCount(p) \/ Abort(p)
    PROVE  UNCHANGED <<row, form, told, stale>>
  BY DEF Request, AdminRequest, UpsertRead, CancelLock, PlayLock, CheckInRead, AdminLock, UpsertLock,
         PlayCount, Abort

LEMMA NoDrawing ==
    ASSUME TypeOK, NEW p \in Procs, Request(p) \/ Step(p) \/ Abort(p), ~PlayCount(p)
    PROVE  pc'[p] # "draw"
<1>1. Shape
  BY DEF TypeOK
<1>2. CASE Request(p)
  <2>1. PICK point \in {"submit", "cancel", "play", "scan", "admin"} : \E j : Goto(p, point, j)
    BY <1>2 DEF Request, AdminRequest, UpsertRead, CancelLock, PlayLock, CheckInRead, AdminLock
  <2>2. PICK j : Goto(p, point, j)
    BY <2>1
  <2> QED
    BY <1>1, <2>2, GotoMine
<1>3. CASE UpsertLock(p)
  BY <1>1, <1>3, GotoMine DEF UpsertLock
<1>4. CASE ~Request(p) /\ ~UpsertLock(p)
  BY <1>1, <1>4, FinishMine
  DEF Step, UpsertCommit, CancelCommit, PlayCommit, CheckInWrite, AdminCommit, Abort
<1> QED
  BY <1>2, <1>3, <1>4

-----------------------------------------------------------------------------
(* The winners of the event. *)

LEMMA Counts ==
    /\ IsFiniteSet(Procs) /\ Cardinality(Procs) \in Nat
    /\ \A S \in SUBSET Users : IsFiniteSet(S) /\ Cardinality(S) \in Nat
    /\ \A S \in SUBSET Procs :
          IsFiniteSet(S) /\ Cardinality(S) \in Nat /\ Cardinality(S) <= Cardinality(Procs)
<1>1. IsFiniteSet(Procs) /\ IsFiniteSet(Users)
  BY ConstantsAssumption
<1> QED
  BY <1>1, FS_Subset, FS_CardinalityType

LEMMA DrawStep ==
    ASSUME TypeOK, RowsInv, JobsInv, DrawInv, NEW p \in Procs,
           Request(p) \/ Step(p) \/ Abort(p)
    PROVE  DrawInv'
<1>1. Shape /\ Mine(p)
  BY StepMine DEF TypeOK
<1>2. \A q \in Procs \ {p} : pc'[q] = pc[q] /\ job'[q] = job[q]
  BY <1>1 DEF Mine
<1>3. /\ Drawing \subseteq Procs /\ Drawing' \subseteq Procs
      /\ Winners \subseteq Users /\ Winners' \subseteq Users
  BY DEF Drawing, Winners
<1>4. /\ Cardinality(Drawing) \in Nat /\ Cardinality(Drawing') \in Nat
      /\ Cardinality(Winners) \in Nat /\ Cardinality(Winners') \in Nat
      /\ Cardinality(Procs) \in Nat /\ Cardinality(Drawing') <= Cardinality(Procs)
      /\ WinnerLimit \in Nat
      /\ Cardinality(Winners) + Cardinality(Drawing)
           <= WinnerLimit - 1 + Cardinality(Procs)
  BY <1>3, Counts, ConstantsAssumption DEF DrawInv
<1>5. ASSUME Winners' = Winners, Drawing' \subseteq Drawing PROVE DrawInv'
  <2>1. Cardinality(Drawing') <= Cardinality(Drawing)
    BY <1>3, <1>5, Counts, FS_Subset
  <2> QED
    BY <1>4, <1>5, <2>1 DEF DrawInv
<1>6. CASE PlayCount(p)
  <2>1. Winners' = Winners
    BY <1>6 DEF PlayCount, Winners
  <2>2. CASE Drawable(Cardinality(Winners))
    <3>1. Cardinality(Winners) <= WinnerLimit - 1
      BY <1>4, <2>2 DEF Drawable
    <3> QED
      BY <1>4, <2>1, <3>1 DEF DrawInv
  <2>3. CASE ~Drawable(Cardinality(Winners))
    <3>1. job'[p] = [job[p] EXCEPT !.chances = {"LOSE"}]
      BY <1>1, <1>6, <2>3, GotoMine DEF PlayCount
    <3>2. "WIN" \notin job'[p].chances
      BY <1>1, <3>1 DEF Shape, Job
    <3>3. Drawing' \subseteq Drawing
      BY <1>2, <3>2 DEF Drawing
    <3> QED
      BY <1>5, <2>1, <3>3
  <2> QED
    BY <2>2, <2>3
<1>7. CASE PlayCommit(p)
  <2> DEFINE u == job[p].user
  <2>1. /\ u \in Users /\ row[u].event = "none" /\ row'[u].event \in job[p].chances
        /\ \A v \in Users \ {u} : row'[v] = row[v]
    BY <1>7, WriteEffects
  <2>2. pc[p] = "draw" /\ pc'[p] # "draw"
    BY <1>7, NoDrawing DEF PlayCommit, PlayCount, Step
  <2>3. Drawing' = Drawing \ {p}
    BY <1>2, <2>2 DEF Drawing
  <2>4. CASE row'[u].event = "WIN"
    <3>1. Winners' = Winners \cup {u} /\ u \notin Winners
      BY <2>1, <2>4 DEF Winners
    <3>2. p \in Drawing
      BY <2>1, <2>2, <2>4 DEF Drawing
    <3>3. Cardinality(Winners') = Cardinality(Winners) + 1
      BY <1>3, <3>1, Counts, FS_AddElement
    <3>4. Cardinality(Drawing') = Cardinality(Drawing) - 1
      BY <1>3, <2>3, <3>2, Counts, FS_RemoveElement
    <3> QED
      BY <1>4, <3>3, <3>4 DEF DrawInv
  <2>5. CASE row'[u].event # "WIN"
    <3>1. Winners' = Winners
      BY <2>1, <2>5 DEF Winners
    <3> QED
      BY <1>5, <2>3, <3>1
  <2> QED
    BY <2>4, <2>5
<1>8. CASE ~PlayCount(p) /\ ~PlayCommit(p)
  <2>1. \A u \in Users : row'[u].event = row[u].event
    <3>1. CASE UNCHANGED row
      BY <3>1
    <3>2. CASE UpsertCommit(p) \/ CancelCommit(p) \/ CheckInWrite(p) \/ AdminCommit(p)
      BY <1>8, <3>2, WriteEffects
    <3> QED
      BY <1>8, <3>1, <3>2, QuietSteps DEF Step
  <2>2. Winners' = Winners
    BY <2>1 DEF Winners
  <2>3. Drawing' \subseteq Drawing
    BY <1>2, <1>8, NoDrawing DEF Drawing
  <2> QED
    BY <1>5, <2>2, <2>3
<1> QED
  BY <1>6, <1>7, <1>8

-----------------------------------------------------------------------------
(* What users were told. *)

LEMMA SubmissionStep ==
    ASSUME TypeOK, RowsInv, JobsInv, SubmissionStands, NEW p \in Procs,
           Request(p) \/ Step(p) \/ Abort(p)
    PROVE  SubmissionStands'
<1> DEFINE u == job[p].user
           Kept(v) == /\ form'[v] = form[v] \/ told'[v] = NoForm
                      /\ told'[v] \in {told[v], NoForm}
                      /\ v \in stale => v \in stale' \/ told'[v] = NoForm
                      /\ row[v].status \in {"SUBMITTED", "CHECKED_IN"}
                            => row'[v].status \in {"SUBMITTED", "CHECKED_IN"}
                               \/ told'[v] = NoForm
<1>1. Shape /\ u \in Users
  BY DEF TypeOK, Shape, Job
<1>2. ASSUME \A v \in Users : Kept(v) PROVE SubmissionStands'
  BY <1>2 DEF SubmissionStands
<1>3. CASE UNCHANGED <<row, form, told, stale>>
  BY <1>2, <1>3
<1>4. CASE UpsertCommit(p)
  <2>1. \A v \in Users \ {u} : Kept(v)
    BY <1>1, <1>4, WriteEffects DEF UpsertCommit, Shape
  <2>2. /\ form'[u] = told'[u]
        /\ u \notin stale' => job[p].base.status = job[p].seen.status
    BY <1>1, <1>4 DEF UpsertCommit, Shape
  <2>3. u \notin stale' => row'[u].status = "SUBMITTED"
    BY <1>4, <2>2, WriteEffects
  <2> QED
    BY <2>1, <2>2, <2>3 DEF SubmissionStands
<1>5. CASE CancelCommit(p)
  <2>1. \A v \in Users \ {u} : row'[v] = row[v]
    BY <1>5, WriteEffects
  <2>2. /\ told'[u] = NoForm
        /\ \A v \in Users \ {u} : told'[v] = told[v] /\ (v \in stale' <=> v \in stale)
        /\ form' = form
    BY <1>1, <1>5 DEF CancelCommit, Shape
  <2> QED
    BY <2>1, <2>2 DEF SubmissionStands
<1>6. CASE PlayCommit(p) \/ CheckInWrite(p)
  <2>1. \A v \in Users \ {u} : row'[v] = row[v]
    BY <1>6, WriteEffects
  <2>2. row'[u].status \in {row[u].status, "CHECKED_IN"}
    BY <1>6, WriteEffects
  <2>3. UNCHANGED <<form, told, stale>>
    BY <1>6 DEF PlayCommit, CheckInWrite
  <2> QED
    BY <1>2, <2>1, <2>2, <2>3
<1>7. CASE AdminCommit(p)
  <2>1. \A v \in Users \ {u} : row'[v] = row[v]
    BY <1>7, WriteEffects
  <2>2. row[u].status \in {"SUBMITTED", "CHECKED_IN"}
          => row'[u].status \in {"SUBMITTED", "CHECKED_IN"}
    BY <1>7, WriteEffects
  <2>3. /\ stale' = stale
        /\ \A v \in Users : \/ told'[v] = told[v] /\ form'[v] = form[v]
                            \/ told'[v] = NoForm
    <3>1. \/ UNCHANGED <<form, told>>
          \/ /\ \E f \in Forms : form' = [form EXCEPT ![u] = f]
             /\ told' = [told EXCEPT ![u] = NoForm]
      BY <1>7 DEF AdminCommit
    <3>2. stale' = stale
      BY <1>7 DEF AdminCommit
    <3> QED
      BY <1>1, <3>1, <3>2 DEF Shape
  <2> QED
    BY <1>2, <2>1, <2>2, <2>3
<1> QED
  BY <1>3, <1>4, <1>5, <1>6, <1>7, QuietSteps DEF Step

-----------------------------------------------------------------------------
(* The theorems. *)

LEMMA Initially == Init => IInv
<1> SUFFICES ASSUME Init PROVE IInv
  OBVIOUS
<1>1. TypeOK /\ JobsInv
  BY Placeholders, ConstantsAssumption
  DEF Init, TypeOK, Shape, PCs, Holds, Locked, JobsInv, JobInv
<1>2. RowsInv /\ SubmissionStands
  BY DEF Init, RowsInv, Sound, NoRow, SubmissionStands
<1>3. DrawInv
  <2>1. Winners = {} /\ Drawing = {}
    BY DEF Init, Winners, Drawing, NoRow
  <2>2. Cardinality({}) = 0
    BY FS_EmptySet
  <2> QED
    BY <2>1, <2>2, Counts, ConstantsAssumption DEF DrawInv
<1> QED
  BY <1>1, <1>2, <1>3 DEF IInv

LEMMA Inductive == IInv /\ [Next]_vars => IInv'
<1> SUFFICES ASSUME IInv, [Next]_vars PROVE IInv'
  OBVIOUS
<1>1. TypeOK /\ RowsInv /\ JobsInv /\ DrawInv /\ SubmissionStands
  BY DEF IInv
<1>2. Shape'
  BY <1>1, ShapeStep DEF TypeOK
<1>3. CASE UNCHANGED vars
  <2>1. TypeOK' /\ JobsInv'
    BY <1>1, <1>3 DEF vars, TypeOK, Shape, Holds, JobsInv, JobInv
  <2>2. RowsInv' /\ SubmissionStands'
    BY <1>1, <1>3 DEF vars, RowsInv, SubmissionStands
  <2>3. DrawInv'
    BY <1>1, <1>3 DEF vars, DrawInv, Winners, Drawing
  <2> QED
    BY <2>1, <2>2, <2>3 DEF IInv
<1>4. ASSUME NEW p \in Procs, Request(p) \/ Step(p) \/ Abort(p) PROVE IInv'
  <2>1. Mine(p)
    BY <1>1, <1>4, StepMine
  <2>2. TypeOK' /\ JobsInv'
    BY <1>1, <1>2, <1>4, <2>1, OthersKeep, OwnKeep DEF TypeOK, JobsInv
  <2>3. RowsInv'
    <3>1. CASE UNCHANGED row
      BY <1>1, <3>1 DEF RowsInv
    <3>2. CASE UpsertCommit(p) \/ CancelCommit(p) \/ PlayCommit(p) \/ CheckInWrite(p)
               \/ AdminCommit(p)
      BY <1>1, <3>2, WriteEffects DEF RowsInv
    <3> QED
      BY <1>1, <1>4, <3>1, <3>2, QuietSteps DEF Step
  <2> QED
    BY <1>1, <1>4, <2>2, <2>3, DrawStep, SubmissionStep DEF IInv
<1> QED
  BY <1>3, <1>4 DEF Next

THEOREM Invariant == Spec => []IInv
  BY Initially, Inductive, PTL DEF Spec

\* Every variable keeps its shape and every request holds the lock of the row it
\* read FOR UPDATE.
THEOREM TypeCorrect == Spec => []TypeOK
<1>1. IInv => TypeOK
  BY DEF IInv
<1> QED
  BY <1>1, Invariant, PTL

\* status and checkedInAt agree, for any number of concurrent requests.
THEOREM CheckInAgrees == Spec => []CheckInConsistent
<1>1. IInv => CheckInConsistent
  BY DEF IInv, RowsInv, Sound, CheckInConsistent
<1> QED
  BY <1>1, Invariant, PTL

\* The event has at most WinnerLimit - 1 winners plus one for every request that
\* can be in flight.
THEOREM WinnersAreBounded == Spec => []WinnersBounded
<1>1. IInv => WinnersBounded
  <2> SUFFICES ASSUME IInv PROVE WinnersBounded
    OBVIOUS
  <2>1. Winners \subseteq Users /\ Drawing \subseteq Procs /\ DrawInv
    BY DEF Winners, Drawing, IInv
  <2>2. Cardinality(Winners) \in Nat /\ Cardinality(Drawing) \in Nat
        /\ Cardinality(Procs) \in Nat /\ WinnerLimit \in Nat
    BY <2>1, Counts, ConstantsAssumption
  <2> QED
    BY <2>1, <2>2 DEF DrawInv, WinnersBounded
<1> QED
  BY <1>1, Invariant, PTL

\* What a user was told is accepted is stored, unless saved against a stale
\* snapshot.
THEOREM SubmissionsStand == Spec => []SubmissionStands
<1>1. IInv => SubmissionStands
  BY DEF IInv
<1> QED
  BY <1>1, Invariant, PTL

\* The rows of one step: only a play sets a result, only an administrator ends a
\* check-in or changes a payment status.
LEMMA RowsOfAStep ==
    ASSUME IInv, [Next]_vars, NEW u \in Users
    PROVE  /\ row[u].event # "none" => row'[u].event = row[u].event
           /\ \/ /\ row'[u].payment = row[u].payment
                 /\ row[u].status = "CHECKED_IN" => row'[u].status = "CHECKED_IN"
              \/ \E p \in Procs : pc[p] = "admin" /\ pc'[p] = "idle" /\ job[p].user = u
<1>1. TypeOK /\ RowsInv /\ JobsInv /\ Shape
  BY DEF IInv, TypeOK
<1>2. CASE row' = row
  BY <1>2
<1>3. ASSUME NEW p \in Procs,
             UpsertCommit(p) \/ CancelCommit(p) \/ PlayCommit(p) \/ CheckInWrite(p)
               \/ AdminCommit(p)
      PROVE  /\ row[u].event # "none" => row'[u].event = row[u].event
             /\ \/ /\ row'[u].payment = row[u].payment
                   /\ row[u].status = "CHECKED_IN" => row'[u].status = "CHECKED_IN"
                \/ pc[p] = "admin" /\ pc'[p] = "idle" /\ job[p].user = u
  <2>1. Finish(p)
    BY <1>3 DEF UpsertCommit, CancelCommit, PlayCommit, CheckInWrite, AdminCommit
  <2>2. pc'[p] = "idle"
    BY <1>1, <2>1, FinishMine
  <2>3. CASE job[p].user # u
    BY <1>1, <1>3, <2>3, WriteEffects
  <2>4. CASE job[p].user = u
    BY <1>1, <1>3, <2>2, <2>4, WriteEffects
  <2> QED
    BY <2>3, <2>4
<1> QED
  BY <1>1, <1>2, <1>3, QuietSteps DEF Next, Step, vars

\* A result of the event is final.
THEOREM ResultsAreFinal == Spec => ResultFinal
<1>1. IInv /\ [Next]_vars
        => [\A u \in Users : row[u].event # "none" => row'[u].event = row[u].event]_vars
  BY RowsOfAStep
<1> QED
  BY <1>1, Invariant, PTL DEF Spec, ResultFinal

\* Only an administrator ends a check-in.
THEOREM CheckInsStand == Spec => CheckInStands
<1>1. ASSUME IInv, [Next]_vars, NEW u \in Users, row[u].status = "CHECKED_IN" /\ row'[u].status # "CHECKED_IN"
      PROVE  \E p \in Procs : pc[p] = "admin" /\ pc'[p] = "idle" /\ job[p].user = u
  <2>1. \/ /\ row'[u].payment = row[u].payment
           /\ row[u].status = "CHECKED_IN" => row'[u].status = "CHECKED_IN"
        \/ \E p \in Procs : pc[p] = "admin" /\ pc'[p] = "idle" /\ job[p].user = u
    BY <1>1, RowsOfAStep
  <2> QED
    BY <1>1, <2>1
<1>2. IInv /\ [Next]_vars
        => [\A u \in Users :
               row[u].status = "CHECKED_IN" /\ row'[u].status # "CHECKED_IN"
                 => \E p \in Procs :
                       pc[p] = "admin" /\ pc'[p] = "idle" /\ job[p].user = u]_vars
  BY <1>1
<1> QED
  BY <1>2, Invariant, PTL DEF Spec, CheckInStands

\* Only an administrator changes a payment status.
THEOREM PaymentsStand == Spec => PaymentStands
<1>1. ASSUME IInv, [Next]_vars, NEW u \in Users, row'[u].payment # row[u].payment
      PROVE  \E p \in Procs : pc[p] = "admin" /\ pc'[p] = "idle" /\ job[p].user = u
  <2>1. \/ /\ row'[u].payment = row[u].payment
           /\ row[u].status = "CHECKED_IN" => row'[u].status = "CHECKED_IN"
        \/ \E p \in Procs : pc[p] = "admin" /\ pc'[p] = "idle" /\ job[p].user = u
    BY <1>1, RowsOfAStep
  <2> QED
    BY <1>1, <2>1
<1>2. IInv /\ [Next]_vars
        => [\A u \in Users :
               row'[u].payment # row[u].payment
                 => \E p \in Procs :
                       pc[p] = "admin" /\ pc'[p] = "idle" /\ job[p].user = u]_vars
  BY <1>1
<1> QED
  BY <1>2, Invariant, PTL DEF Spec, PaymentStands

\* Both together: only an administrator undoes a check-in or changes a payment.
THEOREM AdministratorsDecide == Spec => AdminDecides
  BY CheckInsStand, PaymentsStand DEF AdminDecides

-----------------------------------------------------------------------------
(* Form: what applications choose. *)

\* What a request of an administrator remembers of the catalogue at each of its points: a
\* transport to save was given its id before, a form to save is one of the ids, and the
\* form loaded with the retreat has its period still unless another request wrote it.
Arranging(p) ==
    LET j == cjob[p] IN
    /\ cpc[p] \in {"meal", "table"} => j.slot # C!None
    /\ cpc[p] \in {"ride", "edit"} => j.row.there = 1
    /\ cpc[p] = "edit" => j.id \in RideIds /\ j.id <= given.ride
    /\ cpc[p] = "form" => j.asks \in C!Periods
    /\ cpc[p] \in {"period", "unform"} => j.id \in SurveyIds
    /\ cpc[p] = "period" => j.period \in C!Periods
    /\ cpc[p] = "retreat" =>
        /\ j.id = IF j.seen = {} THEN 0 ELSE C!Least(j.seen)
        /\ j.period # C!None => j.asks \in {"title", j.period}
        /\ j.period # C!None /\ j.asks = "title" => j.id # 0
        /\ j.asks = "title" /\ j.id # 0 /\ p \notin late => survey[j.id] = j.period

\* The transports a submission will store are transports of its user in different
\* directions, with the direction they have or had before it was edited.
Boarding(p) ==
    /\ sjob[p].rides \subseteq C!Riding
    /\ \A c \in sjob[p].rides :
        /\ c.user = sjob[p].user /\ c.ride <= given.ride
        /\ c.ride \notin edited => c.direction = ride[c.ride].direction
    /\ \A c, d \in sjob[p].rides : c # d => c.direction # d.direction

CatalogueInv ==
    /\ C!CatalogueTypeOK
    /\ wanted \in [SurveyIds -> C!Periods \cup {C!None}]
    /\ given \in [survey : Nat, meal : Nat, ride : Nat]
    /\ \A t \in RideIds : ride[t].there = 1 => t <= given.ride
    /\ ChoicesHold
    /\ PeriodsStand
    /\ \A p \in Procs : Arranging(p) /\ Boarding(p)

LEMMA NoCatalogueJob ==
    /\ C!NoRide \in C!Ride /\ C!NoJob \in C!Job
    /\ C!NoJob.id = 0 /\ C!NoJob.slot = C!None /\ C!NoJob.row = C!NoRide
    /\ C!NoJob.period = C!None /\ C!NoJob.asks = C!None /\ C!NoJob.seen = {}
<1>1. (CHOOSE n \in Names : TRUE) \in Names
  BY FormAssumption
<1>2. C!NoRide \in C!Ride
  BY <1>1 DEF C!NoRide, C!Ride, C!Directions
<1>3. C!NoJob \in C!Job
  BY <1>2 DEF C!NoJob, C!Job
<1> QED
  BY <1>2, <1>3 DEF C!NoJob

LEMMA CatalogueJobShape ==
    ASSUME C!CatalogueTypeOK, NEW p \in Procs
    PROVE  /\ cjob[p] \in C!Job /\ cjob[p].id \in Nat /\ cjob[p].row \in C!Ride
           /\ cjob[p].slot \in Slots \cup {C!None} /\ cjob[p].period \in C!Periods \cup {C!None}
           /\ cjob[p].asks \in C!Periods \cup {"title", C!None} /\ cjob[p].seen \subseteq SurveyIds
<1>1. cjob[p] \in C!Job
  BY DEF C!CatalogueTypeOK
<1> QED
  BY <1>1 DEF C!Job

\* One request goes on; the others stay where they are.
LEMMA Arranges ==
    ASSUME C!CatalogueTypeOK, NEW p \in Procs, NEW point \in C!PCs, NEW j \in C!Job,
           C!Goto(p, point, j)
    PROVE  /\ cpc' \in [Procs -> C!PCs] /\ cjob' \in [Procs -> C!Job]
           /\ cpc'[p] = point /\ cjob'[p] = j
           /\ \A q \in Procs \ {p} : cpc'[q] = cpc[q] /\ cjob'[q] = cjob[q]
  BY DEF C!CatalogueTypeOK, C!Goto

\* A step that changes no row.
LEMMA CatalogueStays ==
    ASSUME CatalogueInv, NEW p \in Procs, NEW point \in C!PCs, NEW j \in C!Job, C!Goto(p, point, j),
           UNCHANGED <<retreat, survey, meal, ride, given, chosen, riding, applied, wanted,
                       overwritten, edited, sjob>>,
           late' \in {late, late \ {p}},
           Arranging(p)'
    PROVE  CatalogueInv'
<1>1. /\ cpc' \in [Procs -> C!PCs] /\ cjob' \in [Procs -> C!Job]
      /\ \A q \in Procs \ {p} : cpc'[q] = cpc[q] /\ cjob'[q] = cjob[q]
  BY Arranges DEF CatalogueInv
<1>2. C!CatalogueTypeOK'
  BY <1>1 DEF CatalogueInv, C!CatalogueTypeOK, C!Forms
<1>3. ChoicesHold' /\ PeriodsStand'
  BY DEF CatalogueInv, ChoicesHold, PeriodsStand, C!ChosenExist, C!DirectionsMatch, C!PeriodsStand
<1>4. ASSUME NEW q \in Procs \ {p}
      PROVE  Arranging(q)'
  BY <1>1 DEF CatalogueInv, Arranging
<1>5. \A q \in Procs : Boarding(q)'
  BY DEF CatalogueInv, Boarding
<1> QED
  BY <1>2, <1>3, <1>4, <1>5 DEF CatalogueInv

LEMMA CatalogueLooks ==
    ASSUME CatalogueInv, NEW p \in Procs, NEW point \in C!PCs, NEW j \in C!Job,
           C!Look(p, point, j), UNCHANGED sjob,
           Arranging(p)'
    PROVE  CatalogueInv'
<1>1. /\ C!Goto(p, point, j)
      /\ UNCHANGED <<retreat, survey, meal, ride, given, chosen, riding, applied, wanted, late,
                     overwritten, edited>>
  BY DEF C!Look, C!rows, C!choices, C!history
<1> QED
  BY <1>1, CatalogueStays

LEMMA CatalogueQuits ==
    ASSUME CatalogueInv, NEW p \in Procs, C!Quit(p), UNCHANGED sjob
    PROVE  CatalogueInv'
<1>1. /\ C!Goto(p, "idle", C!NoJob) /\ late' = late \ {p}
      /\ UNCHANGED <<retreat, survey, meal, ride, given, chosen, riding, applied, wanted,
                     overwritten, edited>>
  BY DEF C!Quit, C!End, C!rows, C!choices
<1>2. "idle" \in C!PCs /\ C!NoJob \in C!Job
  BY NoCatalogueJob DEF C!PCs
<1>3. Arranging(p)'
  BY <1>1, <1>2, Arranges DEF Arranging, CatalogueInv
<1> QED
  BY <1>1, <1>2, <1>3, CatalogueStays

\* The end of a request that has written.
LEMMA CatalogueEnds ==
    ASSUME C!CatalogueTypeOK, NEW p \in Procs, C!End(p)
    PROVE  /\ cpc' \in [Procs -> C!PCs] /\ cjob' \in [Procs -> C!Job] /\ cpc'[p] = "idle"
           /\ \A q \in Procs \ {p} : cpc'[q] = cpc[q] /\ cjob'[q] = cjob[q]
           /\ UNCHANGED <<requests, chosen, riding, applied>>
<1>1. "idle" \in C!PCs /\ C!NoJob \in C!Job
  BY NoCatalogueJob DEF C!PCs
<1> QED
  BY <1>1, Arranges DEF C!End, C!choices

\* Meals: the foreign key keeps those that are chosen.
LEMMA MealsChange ==
    ASSUME CatalogueInv, NEW p \in Procs, C!End(p), UNCHANGED sjob,
           UNCHANGED <<retreat, survey, ride, wanted, late, overwritten, edited>>,
           meal' \in [MealIds -> Slots \cup {C!None}],
           \A m \in MealIds : C!Eaten(m) /\ meal[m] # C!None => meal'[m] # C!None,
           given' \in [survey : Nat, meal : Nat, ride : Nat], given'.ride = given.ride
    PROVE  CatalogueInv'
<1>1. /\ cpc' \in [Procs -> C!PCs] /\ cjob' \in [Procs -> C!Job] /\ cpc'[p] = "idle"
      /\ \A q \in Procs \ {p} : cpc'[q] = cpc[q] /\ cjob'[q] = cjob[q]
      /\ UNCHANGED <<requests, chosen, riding, applied>>
  BY CatalogueEnds DEF CatalogueInv
<1>2. C!CatalogueTypeOK'
  BY <1>1 DEF CatalogueInv, C!CatalogueTypeOK, C!Forms
<1>3. C!ChosenExist'
  <2>1. ASSUME NEW c \in chosen
        PROVE  meal'[c[2]] # C!None
    <3>1. c[1] \in Users /\ c[2] \in MealIds /\ c = <<c[1], c[2]>>
      BY DEF CatalogueInv, C!CatalogueTypeOK
    <3>2. C!Eaten(c[2])
      BY <3>1 DEF C!Eaten
    <3>3. meal[c[2]] # C!None
      BY DEF CatalogueInv, ChoicesHold, C!ChosenExist
    <3> QED
      BY <3>1, <3>2, <3>3
  <2> QED
    BY <1>1, <2>1 DEF CatalogueInv, ChoicesHold, C!ChosenExist
<1>4. C!DirectionsMatch' /\ PeriodsStand'
  BY <1>1 DEF CatalogueInv, ChoicesHold, PeriodsStand, C!DirectionsMatch, C!PeriodsStand
<1>5. ASSUME NEW q \in Procs
      PROVE  Arranging(q)'
  <2>1. CASE q = p
    BY <1>1, <2>1 DEF Arranging
  <2>2. CASE q # p
    BY <1>1, <2>2 DEF CatalogueInv, Arranging
  <2> QED
    BY <2>1, <2>2
<1>6. \A q \in Procs : Boarding(q)'
  BY DEF CatalogueInv, Boarding
<1> QED
  BY <1>1, <1>2, <1>3, <1>4, <1>5, <1>6 DEF CatalogueInv, ChoicesHold

\* Transports: those that are ridden stay, and a changed direction is marked.
LEMMA RidesChange ==
    ASSUME CatalogueInv, NEW p \in Procs, C!End(p), UNCHANGED sjob,
           UNCHANGED <<retreat, survey, meal, wanted, late, overwritten>>,
           ride' \in [RideIds -> C!Ride],
           given' \in [survey : Nat, meal : Nat, ride : Nat], given'.ride >= given.ride,
           edited \subseteq edited', edited' \subseteq RideIds,
           \A t \in RideIds :
                /\ C!Ridden(t) => ride'[t].there = 1
                /\ ride'[t].there = 1 => t <= given'.ride
                /\ t \notin edited' /\ t <= given.ride => ride'[t].direction = ride[t].direction
    PROVE  CatalogueInv'
<1>1. /\ cpc' \in [Procs -> C!PCs] /\ cjob' \in [Procs -> C!Job] /\ cpc'[p] = "idle"
      /\ \A q \in Procs \ {p} : cpc'[q] = cpc[q] /\ cjob'[q] = cjob[q]
      /\ UNCHANGED <<requests, chosen, riding, applied>>
  BY CatalogueEnds DEF CatalogueInv
<1>2. C!CatalogueTypeOK'
  BY <1>1 DEF CatalogueInv, C!CatalogueTypeOK, C!Forms
<1>3. ASSUME NEW c \in riding
      PROVE  /\ c.ride \in RideIds /\ ride'[c.ride].there = 1
             /\ c.ride \notin edited' => c.direction = ride'[c.ride].direction
  <2>1. c.ride \in RideIds
    BY DEF CatalogueInv, C!CatalogueTypeOK, C!Riding
  <2>2. ride[c.ride].there = 1 /\ c.ride <= given.ride
    BY <2>1 DEF CatalogueInv, ChoicesHold, C!ChosenExist
  <2>3. C!Ridden(c.ride)
    BY DEF C!Ridden
  <2>4. c.ride \notin edited => c.direction = ride[c.ride].direction
    BY DEF CatalogueInv, ChoicesHold, C!DirectionsMatch
  <2> QED
    BY <2>1, <2>2, <2>3, <2>4
<1>4. ChoicesHold' /\ PeriodsStand'
  BY <1>1, <1>3 DEF CatalogueInv, ChoicesHold, PeriodsStand, C!ChosenExist, C!DirectionsMatch,
                    C!PeriodsStand
<1>5. given.ride \in Nat /\ given'.ride \in Nat
  BY DEF CatalogueInv
<1>6. ASSUME NEW q \in Procs
      PROVE  Arranging(q)'
  <2>1. CASE q = p
    BY <1>1, <2>1 DEF Arranging
  <2>2. CASE q # p
    <3>1. cpc[q] = "edit" => cjob[q].id \in Nat /\ cjob[q].id <= given'.ride
      BY <1>5, CatalogueJobShape DEF CatalogueInv, Arranging
    <3> QED
      BY <1>1, <2>2, <3>1 DEF CatalogueInv, Arranging
  <2> QED
    BY <2>1, <2>2
<1>7. ASSUME NEW q \in Procs
      PROVE  Boarding(q)'
  <2>1. ASSUME NEW c \in sjob[q].rides
        PROVE  /\ c.ride <= given'.ride
               /\ c.ride \notin edited' => c.direction = ride'[c.ride].direction
    <3>1. c.ride \in RideIds /\ c.ride \in Nat /\ c.ride <= given.ride
      BY FormAssumption DEF CatalogueInv, Boarding, C!Riding
    <3>2. c.ride \notin edited => c.direction = ride[c.ride].direction
      BY DEF CatalogueInv, Boarding
    <3> QED
      BY <1>5, <3>1, <3>2
  <2> QED
    BY <2>1 DEF CatalogueInv, Boarding
<1> QED
  BY <1>1, <1>2, <1>4, <1>6, <1>7 DEF CatalogueInv

\* Forms: the request that writes one knows what it wants of it, unless it is late and
\* changes the title alone, and then the form counts as overwritten.
LEMMA FormsChange ==
    ASSUME CatalogueInv, NEW p \in Procs, UNCHANGED <<meal, ride, chosen, riding, applied, edited, sjob>>,
           cpc' \in [Procs -> C!PCs], cjob' \in [Procs -> C!Job], cpc'[p] = "idle",
           \A q \in Procs \ {p} : cpc'[q] = cpc[q] /\ cjob'[q] = cjob[q],
           NEW s \in SurveyIds, NEW x \in C!Periods \cup {C!None},
           NEW wants \in [SurveyIds -> C!Periods \cup {C!None}],
           C!PutForm(p, s, x, wants),
           \A t \in SurveyIds \ {s} : wants[t] = wanted[t],
           p \notin late \/ cjob[p].asks # "title" =>
              wants[s] = x \/ (x = survey[s] /\ wants[s] = wanted[s]),
           given' \in [survey : Nat, meal : Nat, ride : Nat], given'.ride = given.ride,
           retreat' = "there" \/ (x = C!None /\ retreat' = retreat)
    PROVE  CatalogueInv'
<1>1. /\ survey' = [survey EXCEPT ![s] = x] /\ wanted' = wants
      /\ late' = (late \ {p}) \cup {q \in Procs \ {p} : C!Holds(q, s)}
      /\ overwritten' = IF p \in late /\ cjob[p].asks = "title" THEN overwritten \cup {s}
                        ELSE overwritten
  BY DEF C!PutForm
<1>2. /\ survey' \in [SurveyIds -> C!Periods \cup {C!None}] /\ survey'[s] = x
      /\ \A t \in SurveyIds \ {s} : survey'[t] = survey[t]
  BY <1>1 DEF CatalogueInv, C!CatalogueTypeOK
<1>3. C!CatalogueTypeOK'
  <2>1. retreat' \in {"unborn", "there", "gone"}
    BY DEF CatalogueInv, C!CatalogueTypeOK
  <2>2. late' \subseteq Procs /\ overwritten' \subseteq SurveyIds
    BY <1>1 DEF CatalogueInv, C!CatalogueTypeOK
  <2>3. retreat' # "there" => C!Forms' = {}
    BY <1>2 DEF CatalogueInv, C!CatalogueTypeOK, C!Forms
  <2> QED
    BY <1>2, <2>1, <2>2, <2>3 DEF CatalogueInv, C!CatalogueTypeOK
<1>4. ASSUME NEW t \in SurveyIds \ overwritten'
      PROVE  survey'[t] = wanted'[t]
  <2>1. t \notin overwritten /\ survey[t] = wanted[t]
    BY <1>1 DEF CatalogueInv, PeriodsStand, C!PeriodsStand
  <2>2. CASE t # s
    BY <1>1, <1>2, <2>1, <2>2
  <2>3. CASE t = s
    BY <1>1, <1>2, <2>1, <2>3
  <2> QED
    BY <2>2, <2>3
<1>5. ChoicesHold' /\ PeriodsStand'
  BY <1>4 DEF CatalogueInv, ChoicesHold, PeriodsStand, C!ChosenExist, C!DirectionsMatch,
              C!PeriodsStand
<1>6. ASSUME NEW q \in Procs
      PROVE  Arranging(q)'
  <2>1. CASE q = p
    BY <2>1 DEF Arranging
  <2>2. CASE q # p /\ cpc[q] = "retreat"
    <3>1. q \in late' /\ cpc'[q] = cpc[q] /\ cjob'[q] = cjob[q]
      BY <1>1, <2>2 DEF C!Holds
    <3>2. Arranging(q)
      BY DEF CatalogueInv
    <3> QED
      BY <2>2, <3>1, <3>2 DEF Arranging
  <2>3. CASE q # p /\ cpc[q] # "retreat"
    BY <2>3 DEF CatalogueInv, Arranging
  <2> QED
    BY <2>1, <2>2, <2>3
<1>7. \A q \in Procs : Boarding(q)'
  BY DEF CatalogueInv, Boarding
<1> QED
  BY <1>1, <1>3, <1>5, <1>6, <1>7 DEF CatalogueInv

\* A set of ids has a least element.
LEMMA LeastId ==
    ASSUME NEW S \in SUBSET Nat, S # {}
    PROVE  C!Least(S) \in S /\ \A t \in S : C!Least(S) <= t
<1>1. PICK n \in S : \A m \in S : <<m, n>> \notin OpToRel(<, Nat)
  BY NatLessThanWellFounded, WFMin
<1>2. ASSUME NEW m \in S
      PROVE  n <= m
  <2>1. m \in Nat /\ n \in Nat
    OBVIOUS
  <2>2. ~(m < n)
    BY <1>1, <2>1 DEF OpToRel
  <2> QED
    BY <2>1, <2>2
<1> QED
  BY <1>2 DEF C!Least

LEMMA MealRequests ==
    ASSUME CatalogueInv, NEW p \in Procs, C!MealRequest(p), UNCHANGED sjob
    PROVE  CatalogueInv' /\ UNCHANGED survey
<1>1. ASSUME NEW slot \in Slots, C!CreateMeal(p, slot)
      PROVE  CatalogueInv' /\ UNCHANGED survey
  <2> DEFINE j == [C!NoJob EXCEPT !.slot = slot]
  <2>1. C!Look(p, "meal", j)
    BY <1>1 DEF C!CreateMeal
  <2>2. "meal" \in C!PCs /\ j \in C!Job /\ j.slot = slot
    BY NoCatalogueJob DEF C!PCs, C!Job
  <2> HIDE DEF j
  <2>3. Arranging(p)'
    BY <2>1, <2>2, Arranges, FormAssumption DEF Arranging, CatalogueInv, C!Look, C!None
  <2> QED
    BY <2>1, <2>2, <2>3, CatalogueLooks DEF C!Look, C!rows
<1>2. ASSUME NEW m \in MealIds, C!UpdateMeal(p, m)
      PROVE  CatalogueInv' /\ UNCHANGED survey
  <2> DEFINE j == [C!NoJob EXCEPT !.id = m, !.slot = meal[m]]
  <2>1. C!Look(p, "table", j) /\ meal[m] # C!None
    BY <1>2 DEF C!UpdateMeal
  <2>2. "table" \in C!PCs /\ j \in C!Job /\ j.slot = meal[m]
    BY NoCatalogueJob, FormAssumption DEF C!PCs, C!Job, CatalogueInv, C!CatalogueTypeOK
  <2> HIDE DEF j
  <2>3. Arranging(p)'
    BY <2>1, <2>2, Arranges DEF Arranging, CatalogueInv, C!Look
  <2> QED
    BY <2>1, <2>2, <2>3, CatalogueLooks DEF C!Look, C!rows
<1>3. ASSUME NEW m \in MealIds, C!DeleteMeal(p, m)
      PROVE  CatalogueInv' /\ UNCHANGED survey
  <2> DEFINE j == [C!NoJob EXCEPT !.id = m]
  <2>1. C!Look(p, "unmeal", j)
    BY <1>3 DEF C!DeleteMeal
  <2>2. "unmeal" \in C!PCs /\ j \in C!Job
    BY NoCatalogueJob, FormAssumption DEF C!PCs, C!Job
  <2> HIDE DEF j
  <2>3. Arranging(p)'
    BY <2>1, <2>2, Arranges DEF Arranging, CatalogueInv, C!Look
  <2> QED
    BY <2>1, <2>2, <2>3, CatalogueLooks DEF C!Look, C!rows
<1> QED
  BY <1>1, <1>2, <1>3 DEF C!MealRequest

LEMMA TransportRequests ==
    ASSUME CatalogueInv, NEW p \in Procs, C!TransportRequest(p), UNCHANGED sjob
    PROVE  CatalogueInv' /\ UNCHANGED survey
<1>1. ASSUME NEW r \in C!Ride, C!CreateTransport(p, r)
      PROVE  CatalogueInv' /\ UNCHANGED survey
  <2> DEFINE j == [C!NoJob EXCEPT !.row = r]
  <2>1. C!Look(p, "ride", j) /\ r.there = 1
    BY <1>1 DEF C!CreateTransport
  <2>2. "ride" \in C!PCs /\ j \in C!Job /\ j.row = r
    BY NoCatalogueJob DEF C!PCs, C!Job
  <2> HIDE DEF j
  <2>3. Arranging(p)'
    BY <2>1, <2>2, Arranges DEF Arranging, CatalogueInv, C!Look
  <2> QED
    BY <2>1, <2>2, <2>3, CatalogueLooks DEF C!Look, C!rows
<1>2. ASSUME NEW t \in RideIds, NEW d \in C!Directions, NEW n \in Names, NEW v \in {0, 1},
             C!UpdateTransport(p, t, d, n, v)
      PROVE  CatalogueInv' /\ UNCHANGED survey
  <2> DEFINE r == [there |-> 1, direction |-> d, name |-> n, vehicle |-> v]
             j == [C!NoJob EXCEPT !.id = t, !.row = r]
  <2>1. C!Look(p, "edit", j) /\ ride[t].there = 1
    BY <1>2 DEF C!UpdateTransport
  <2>2. r \in C!Ride /\ r.there = 1
    BY DEF C!Ride
  <2> HIDE DEF r
  <2>3. "edit" \in C!PCs /\ j \in C!Job /\ j.row = r /\ j.id = t
    BY <2>2, NoCatalogueJob, FormAssumption DEF C!PCs, C!Job
  <2>4. t <= given.ride
    BY <2>1 DEF CatalogueInv
  <2> HIDE DEF j
  <2>5. Arranging(p)'
    BY <2>1, <2>2, <2>3, <2>4, Arranges
    DEF Arranging, CatalogueInv, C!Look, C!rows
  <2> QED
    BY <2>1, <2>3, <2>5, CatalogueLooks DEF C!Look, C!rows
<1>3. ASSUME NEW t \in RideIds, C!DeleteTransport(p, t)
      PROVE  CatalogueInv' /\ UNCHANGED survey
  <2> DEFINE j == [C!NoJob EXCEPT !.id = t]
  <2>1. C!Look(p, "unride", j)
    BY <1>3 DEF C!DeleteTransport
  <2>2. "unride" \in C!PCs /\ j \in C!Job
    BY NoCatalogueJob, FormAssumption DEF C!PCs, C!Job
  <2> HIDE DEF j
  <2>3. Arranging(p)'
    BY <2>1, <2>2, Arranges DEF Arranging, CatalogueInv, C!Look
  <2> QED
    BY <2>1, <2>2, <2>3, CatalogueLooks DEF C!Look, C!rows
<1> QED
  BY <1>1, <1>2, <1>3 DEF C!TransportRequest

LEMMA SurveyRequests ==
    ASSUME CatalogueInv, NEW p \in Procs, C!SurveyRequest(p), UNCHANGED sjob
    PROVE  CatalogueInv' /\ UNCHANGED survey
<1>1. ASSUME NEW x \in C!Periods, C!CreateSurvey(p, x)
      PROVE  CatalogueInv' /\ UNCHANGED survey
  <2> DEFINE j == [C!NoJob EXCEPT !.asks = x]
  <2>1. C!Look(p, "form", j)
    BY <1>1 DEF C!CreateSurvey
  <2>2. "form" \in C!PCs /\ j \in C!Job /\ j.asks = x
    BY NoCatalogueJob DEF C!PCs, C!Job
  <2> HIDE DEF j
  <2>3. Arranging(p)'
    BY <2>1, <2>2, Arranges DEF Arranging, CatalogueInv, C!Look
  <2> QED
    BY <2>1, <2>2, <2>3, CatalogueLooks DEF C!Look, C!rows
<1>2. ASSUME NEW s \in SurveyIds, NEW x \in C!Periods, C!UpdateSurveyPeriod(p, s, x)
      PROVE  CatalogueInv' /\ UNCHANGED survey
  <2> DEFINE j == [C!NoJob EXCEPT !.id = s, !.period = x]
  <2>1. C!Look(p, "period", j)
    BY <1>2 DEF C!UpdateSurveyPeriod
  <2>2. "period" \in C!PCs /\ j \in C!Job /\ j.id = s /\ j.period = x
    BY NoCatalogueJob, FormAssumption DEF C!PCs, C!Job
  <2> HIDE DEF j
  <2>3. Arranging(p)'
    BY <2>1, <2>2, Arranges DEF Arranging, CatalogueInv, C!Look
  <2> QED
    BY <2>1, <2>2, <2>3, CatalogueLooks DEF C!Look, C!rows
<1>3. ASSUME NEW s \in SurveyIds, C!DeleteSurvey(p, s)
      PROVE  CatalogueInv' /\ UNCHANGED survey
  <2> DEFINE j == [C!NoJob EXCEPT !.id = s]
  <2>1. C!Look(p, "unform", j)
    BY <1>3 DEF C!DeleteSurvey
  <2>2. "unform" \in C!PCs /\ j \in C!Job /\ j.id = s
    BY NoCatalogueJob, FormAssumption DEF C!PCs, C!Job
  <2> HIDE DEF j
  <2>3. Arranging(p)'
    BY <2>1, <2>2, Arranges DEF Arranging, CatalogueInv, C!Look
  <2> QED
    BY <2>1, <2>2, <2>3, CatalogueLooks DEF C!Look, C!rows
<1> QED
  BY <1>1, <1>2, <1>3 DEF C!SurveyRequest

\* Of those loaded, the form a request for the retreat is about.
LEMMA LoadedForm ==
    ASSUME CatalogueInv
    PROVE  /\ C!Forms \subseteq SurveyIds /\ C!Forms \subseteq Nat
           /\ C!Forms # {} => /\ C!Representative(C!Forms) \in C!Forms
                              /\ C!Representative(C!Forms) # 0
                              /\ survey[C!Representative(C!Forms)] \in C!Periods
<1>1. C!Forms \subseteq SurveyIds /\ C!Forms \subseteq Nat \ {0}
  BY FormAssumption DEF C!Forms
<1>2. ASSUME C!Forms # {}
      PROVE  C!Representative(C!Forms) \in C!Forms
  BY <1>1, <1>2, LeastId DEF C!Representative
<1>3. \A s \in C!Forms : survey[s] \in C!Periods
  BY DEF C!Forms, CatalogueInv, C!CatalogueTypeOK
<1> QED
  BY <1>1, <1>2, <1>3

LEMMA RetreatRequests ==
    ASSUME CatalogueInv, NEW p \in Procs, C!RetreatRequest(p), UNCHANGED sjob
    PROVE  CatalogueInv' /\ (survey'[Main] = C!None => survey[Main] = C!None)
<1>1. ASSUME NEW x \in C!Periods, C!CreateRetreat(p, x)
      PROVE  CatalogueInv' /\ (survey'[Main] = C!None => survey[Main] = C!None)
  <2> DEFINE s == given.survey + 1
             wants == [wanted EXCEPT ![s] = x]
  <2>1. /\ s \in SurveyIds /\ retreat' = "there" /\ cpc[p] = "idle"
        /\ given' = [given EXCEPT !.survey = @ + 1]
        /\ C!PutForm(p, s, x, wants)
        /\ UNCHANGED <<meal, ride, chosen, riding, applied, cpc, cjob, edited>>
    BY <1>1 DEF C!CreateRetreat, C!Begin, C!choices
  <2>2. /\ wants \in [SurveyIds -> C!Periods \cup {C!None}] /\ wants[s] = x
        /\ \A t \in SurveyIds \ {s} : wants[t] = wanted[t]
    BY <2>1 DEF CatalogueInv
  <2>3. given' \in [survey : Nat, meal : Nat, ride : Nat] /\ given'.ride = given.ride
    BY <2>1 DEF CatalogueInv
  <2> HIDE DEF wants, s
  <2>4. cpc \in [Procs -> C!PCs] /\ cjob \in [Procs -> C!Job]
    BY DEF CatalogueInv, C!CatalogueTypeOK
  <2>5. CatalogueInv'
    BY <2>1, <2>2, <2>3, <2>4, FormsChange
  <2>6. survey' = [survey EXCEPT ![s] = x] /\ x # C!None /\ survey \in [SurveyIds -> C!Periods \cup {C!None}]
    BY <2>1 DEF C!PutForm, C!Periods, C!None, CatalogueInv, C!CatalogueTypeOK
  <2> QED
    BY <2>1, <2>5, <2>6
<1>2. ASSUME NEW x \in C!Periods \cup {"title", C!None}, C!UpdateRetreat(p, x)
      PROVE  CatalogueInv' /\ UNCHANGED survey
  <2> DEFINE id == IF C!Forms = {} THEN 0 ELSE C!Representative(C!Forms)
             period == CASE x \in C!Periods -> x
                         [] x = "title" /\ C!Forms # {} -> survey[C!Representative(C!Forms)]
                         [] OTHER -> C!None
             j == [C!NoJob EXCEPT !.asks = x, !.seen = C!Forms, !.id = id, !.period = period]
  <2>1. C!Look(p, "retreat", j)
    BY <1>2 DEF C!UpdateRetreat
  <2>2. /\ id \in Nat
        /\ C!Forms # {} => id \in C!Forms /\ id # 0 /\ survey[id] \in C!Periods
        /\ id = IF C!Forms = {} THEN 0 ELSE C!Least(C!Forms)
    BY LoadedForm DEF C!Representative
  <2>3. "title" \notin C!Periods /\ C!None \notin C!Periods /\ "title" # C!None
    BY DEF C!Periods, C!None
  <2>4. /\ period \in C!Periods \cup {C!None}
        /\ x \in C!Periods => period = x
        /\ x = "title" /\ C!Forms # {} => period = survey[id]
        /\ x = "title" /\ C!Forms = {} => period = C!None
        /\ x = C!None => period = C!None
    BY <2>2, <2>3
  <2> HIDE DEF id, period
  <2>5. /\ "retreat" \in C!PCs /\ j \in C!Job
        /\ j.asks = x /\ j.seen = C!Forms /\ j.id = id /\ j.period = period
    BY <2>2, <2>4, NoCatalogueJob, LoadedForm DEF C!PCs, C!Job
  <2> HIDE DEF j
  <2>6. C!Goto(p, "retreat", j) /\ UNCHANGED <<survey, late>>
    BY <2>1 DEF C!Look, C!rows, C!history
  <2>7. cpc'[p] = "retreat" /\ cjob'[p] = j
    BY <2>5, <2>6, Arranges DEF CatalogueInv
  <2>8. /\ j.id = IF j.seen = {} THEN 0 ELSE C!Least(j.seen)
        /\ j.period # C!None => j.asks \in {"title", j.period}
        /\ j.period # C!None /\ j.asks = "title" => j.id # 0
        /\ j.asks = "title" /\ j.id # 0 => survey[j.id] = j.period
    BY <2>2, <2>3, <2>4, <2>5
  <2>9. Arranging(p)'
    BY <2>6, <2>7, <2>8 DEF Arranging
  <2> QED
    BY <2>1, <2>5, <2>6, <2>9, CatalogueLooks
<1>3. ASSUME C!DeleteRetreat(p)
      PROVE  CatalogueInv' /\ UNCHANGED survey
  <2>1. C!Look(p, "gone", C!NoJob)
    BY <1>3 DEF C!DeleteRetreat
  <2>2. "gone" \in C!PCs /\ C!NoJob \in C!Job
    BY NoCatalogueJob DEF C!PCs
  <2>3. Arranging(p)'
    BY <2>1, <2>2, Arranges DEF Arranging, CatalogueInv, C!Look
  <2> QED
    BY <2>1, <2>2, <2>3, CatalogueLooks DEF C!Look, C!rows
<1> QED
  BY <1>1, <1>2, <1>3 DEF C!RetreatRequest

\* The steps that write meals and transports.
LEMMA MealSteps ==
    ASSUME CatalogueInv, NEW p \in Procs, UNCHANGED sjob,
           C!InsertMeal(p) \/ C!SaveMeal(p) \/ C!RemoveMeal(p)
    PROVE  CatalogueInv' /\ UNCHANGED survey
<1> DEFINE j == cjob[p]
<1>1. CASE C!Quit(p)
  BY <1>1, CatalogueQuits DEF C!Quit, C!rows
<1>2. /\ meal \in [MealIds -> Slots \cup {C!None}] /\ j.slot \in Slots \cup {C!None} /\ j.id \in Nat
      /\ given \in [survey : Nat, meal : Nat, ride : Nat]
  BY CatalogueJobShape DEF CatalogueInv, C!CatalogueTypeOK
<1>3. Arranging(p)
  BY DEF CatalogueInv
<1>4. CASE C!InsertMeal(p) /\ ~C!Quit(p)
  <2>1. /\ cpc[p] = "meal"
        /\ meal' = [meal EXCEPT ![given.meal + 1] = j.slot]
        /\ given' = [given EXCEPT !.meal = given.meal + 1]
        /\ C!End(p) /\ UNCHANGED <<retreat, survey, ride, wanted, late, overwritten, edited>>
    BY <1>4 DEF C!InsertMeal, C!history
  <2>2. j.slot # C!None
    BY <2>1, <1>3 DEF Arranging
  <2>3. /\ meal' \in [MealIds -> Slots \cup {C!None}]
        /\ \A m \in MealIds : meal[m] # C!None => meal'[m] # C!None
    BY <1>2, <2>1, <2>2
  <2>4. given' \in [survey : Nat, meal : Nat, ride : Nat] /\ given'.ride = given.ride
    BY <1>2, <2>1
  <2> QED
    BY <2>1, <2>3, <2>4, MealsChange
<1>5. CASE C!SaveMeal(p) /\ ~C!Quit(p)
  <2>1. /\ cpc[p] = "table"
        /\ meal' = [meal EXCEPT ![j.id] = j.slot]
        /\ C!End(p) /\ UNCHANGED <<retreat, survey, ride, given, wanted, late, overwritten, edited>>
    BY <1>5 DEF C!SaveMeal, C!history
  <2>2. j.slot # C!None
    BY <2>1, <1>3 DEF Arranging
  <2>3. /\ meal' \in [MealIds -> Slots \cup {C!None}]
        /\ \A m \in MealIds : meal[m] # C!None => meal'[m] # C!None
    BY <1>2, <2>1, <2>2
  <2> QED
    BY <1>2, <2>1, <2>3, MealsChange
<1>6. CASE C!RemoveMeal(p) /\ ~C!Quit(p)
  <2>1. /\ ~C!Eaten(j.id)
        /\ meal' = [meal EXCEPT ![j.id] = C!None]
        /\ C!End(p) /\ UNCHANGED <<retreat, survey, ride, given, wanted, late, overwritten, edited>>
    BY <1>6 DEF C!RemoveMeal, C!Restricted, C!history
  <2>2. /\ meal' \in [MealIds -> Slots \cup {C!None}]
        /\ \A m \in MealIds : C!Eaten(m) /\ meal[m] # C!None => meal'[m] # C!None
    BY <1>2, <2>1
  <2> QED
    BY <1>2, <2>1, <2>2, MealsChange
<1> QED
  BY <1>1, <1>4, <1>5, <1>6

LEMMA RiddenThere ==
    ASSUME CatalogueInv, NEW t \in RideIds, C!Ridden(t)
    PROVE  ride[t].there = 1 /\ t <= given.ride
  BY DEF C!Ridden, CatalogueInv, ChoicesHold, C!ChosenExist

LEMMA TransportSteps ==
    ASSUME CatalogueInv, NEW p \in Procs, UNCHANGED sjob,
           C!InsertTransport(p) \/ C!SaveTransport(p) \/ C!RemoveTransport(p)
    PROVE  CatalogueInv' /\ UNCHANGED survey
<1> DEFINE j == cjob[p]
<1>1. CASE C!Quit(p)
  BY <1>1, CatalogueQuits DEF C!Quit, C!rows
<1>2. /\ ride \in [RideIds -> C!Ride] /\ j.row \in C!Ride /\ j.id \in Nat
      /\ given \in [survey : Nat, meal : Nat, ride : Nat] /\ edited \subseteq RideIds
      /\ \A t \in RideIds : t \in Nat
      /\ \A t \in RideIds : ride[t].there = 1 => t <= given.ride
  BY CatalogueJobShape, FormAssumption DEF CatalogueInv, C!CatalogueTypeOK
<1>3. Arranging(p)
  BY DEF CatalogueInv
<1>4. CASE C!InsertTransport(p) /\ ~C!Quit(p)
  <2> DEFINE t == given.ride + 1
  <2>1. /\ cpc[p] = "ride" /\ t \in RideIds
        /\ ride' = [ride EXCEPT ![t] = j.row]
        /\ given' = [given EXCEPT !.ride = t]
        /\ C!End(p) /\ UNCHANGED <<retreat, survey, meal, wanted, late, overwritten, edited>>
    BY <1>4 DEF C!InsertTransport, C!history
  <2>2. j.row.there = 1
    BY <2>1, <1>3 DEF Arranging
  <2>3. ride' \in [RideIds -> C!Ride]
    BY <1>2, <2>1
  <2>4. given' \in [survey : Nat, meal : Nat, ride : Nat] /\ given'.ride = given.ride + 1
    BY <1>2, <2>1
  <2>5. ASSUME NEW u \in RideIds
        PROVE  /\ C!Ridden(u) => ride'[u].there = 1
               /\ ride'[u].there = 1 => u <= given'.ride
               /\ u \notin edited' /\ u <= given.ride => ride'[u].direction = ride[u].direction
    BY <1>2, <2>1, <2>2, <2>4, RiddenThere
  <2> QED
    BY <1>2, <2>1, <2>3, <2>4, <2>5, RidesChange
<1>5. CASE C!SaveTransport(p) /\ ~C!Quit(p)
  <2>1. /\ cpc[p] = "edit"
        /\ ride' = [ride EXCEPT ![j.id] = j.row]
        /\ edited' = IF ride[j.id].direction = j.row.direction THEN edited ELSE edited \cup {j.id}
        /\ C!End(p) /\ UNCHANGED <<retreat, survey, meal, given, wanted, late, overwritten>>
    BY <1>5 DEF C!SaveTransport
  <2>2. j.row.there = 1 /\ j.id \in RideIds /\ j.id <= given.ride
    BY <2>1, <1>3 DEF Arranging
  <2>3. ride' \in [RideIds -> C!Ride] /\ edited \subseteq edited' /\ edited' \subseteq RideIds
    BY <1>2, <2>1, <2>2
  <2>4. ASSUME NEW u \in RideIds
        PROVE  /\ C!Ridden(u) => ride'[u].there = 1
               /\ ride'[u].there = 1 => u <= given'.ride
               /\ u \notin edited' /\ u <= given.ride => ride'[u].direction = ride[u].direction
    BY <1>2, <2>1, <2>2, RiddenThere
  <2> QED
    BY <1>2, <2>1, <2>3, <2>4, RidesChange
<1>6. CASE C!RemoveTransport(p) /\ ~C!Quit(p)
  <2>1. /\ ~C!Ridden(j.id)
        /\ ride' = [ride EXCEPT ![j.id].there = 0]
        /\ C!End(p)
        /\ UNCHANGED <<retreat, survey, meal, given, wanted, late, overwritten, edited>>
    BY <1>6 DEF C!RemoveTransport, C!Restricted, C!history
  <2>2. /\ ride' \in [RideIds -> C!Ride]
        /\ \A u \in RideIds : /\ ride'[u].direction = ride[u].direction
                              /\ ride'[u].there = IF u = j.id THEN 0 ELSE ride[u].there
    BY <1>2, <2>1 DEF C!Ride
  <2>3. ASSUME NEW u \in RideIds
        PROVE  /\ C!Ridden(u) => ride'[u].there = 1
               /\ ride'[u].there = 1 => u <= given'.ride
               /\ u \notin edited' /\ u <= given.ride => ride'[u].direction = ride[u].direction
    BY <1>2, <2>1, <2>2, RiddenThere
  <2> QED
    BY <1>2, <2>1, <2>2, <2>3, RidesChange
<1> QED
  BY <1>1, <1>4, <1>5, <1>6

\* Inserting, saving and removing a form.
LEMMA SurveySteps ==
    ASSUME CatalogueInv, NEW p \in Procs, NEW asked, UNCHANGED sjob,
           C!InsertSurvey(p) \/ C!SavePeriod(p) \/ C!RemoveSurvey(p, asked)
    PROVE  CatalogueInv' /\ (survey'[Main] = C!None => survey[Main] = C!None \/ Main \notin asked)
<1> DEFINE j == cjob[p]
<1>1. CASE C!Quit(p)
  BY <1>1, CatalogueQuits DEF C!Quit, C!rows
<1>2. /\ survey \in [SurveyIds -> C!Periods \cup {C!None}] /\ retreat \in {"unborn", "there", "gone"}
      /\ wanted \in [SurveyIds -> C!Periods \cup {C!None}]
      /\ given \in [survey : Nat, meal : Nat, ride : Nat]
      /\ C!None \notin C!Periods
      /\ retreat # "there" => C!Forms = {}
  BY DEF CatalogueInv, C!CatalogueTypeOK, C!Periods, C!None
<1>3. Arranging(p)
  BY DEF CatalogueInv
<1>4. ASSUME NEW s \in SurveyIds, NEW x \in C!Periods \cup {C!None},
             C!PutForm(p, s, x, [wanted EXCEPT ![s] = x]), C!End(p),
             UNCHANGED <<meal, ride, edited>>,
             given' \in [survey : Nat, meal : Nat, ride : Nat], given'.ride = given.ride,
             retreat' = "there" \/ (x = C!None /\ retreat' = retreat)
      PROVE  CatalogueInv' /\ survey' = [survey EXCEPT ![s] = x]
  <2>1. /\ cpc' \in [Procs -> C!PCs] /\ cjob' \in [Procs -> C!Job] /\ cpc'[p] = "idle"
        /\ \A q \in Procs \ {p} : cpc'[q] = cpc[q] /\ cjob'[q] = cjob[q]
        /\ UNCHANGED <<requests, chosen, riding, applied>>
    BY <1>4, CatalogueEnds DEF CatalogueInv
  <2> DEFINE wants == [wanted EXCEPT ![s] = x]
  <2>2. /\ wants \in [SurveyIds -> C!Periods \cup {C!None}] /\ wants[s] = x
        /\ \A t \in SurveyIds \ {s} : wants[t] = wanted[t]
        /\ C!PutForm(p, s, x, wants)
    BY <1>2, <1>4
  <2> HIDE DEF wants
  <2>3. CatalogueInv'
    BY <1>4, <2>1, <2>2, FormsChange
  <2> QED
    BY <1>4, <2>3 DEF C!PutForm
<1>5. CASE C!InsertSurvey(p) /\ ~C!Quit(p)
  <2> DEFINE s == given.survey + 1
  <2>1. /\ cpc[p] = "form" /\ s \in SurveyIds /\ retreat = "there"
        /\ C!PutForm(p, s, j.asks, [wanted EXCEPT ![s] = j.asks])
        /\ given' = [given EXCEPT !.survey = s]
        /\ C!End(p) /\ UNCHANGED <<retreat, meal, ride, edited>>
    BY <1>5 DEF C!InsertSurvey
  <2>2. j.asks \in C!Periods
    BY <2>1, <1>3 DEF Arranging
  <2>3. given' \in [survey : Nat, meal : Nat, ride : Nat] /\ given'.ride = given.ride
    BY <1>2, <2>1
  <2> HIDE DEF s
  <2>4. CatalogueInv' /\ survey' = [survey EXCEPT ![s] = j.asks]
    BY <1>4, <2>1, <2>2, <2>3
  <2> QED
    BY <1>2, <2>1, <2>2, <2>4
<1>6. CASE C!SavePeriod(p) /\ ~C!Quit(p)
  <2>1. /\ cpc[p] = "period" /\ (j.id \in C!Forms \/ retreat = "there")
        /\ C!PutForm(p, j.id, j.period, [wanted EXCEPT ![j.id] = j.period])
        /\ C!End(p) /\ UNCHANGED <<retreat, meal, ride, given, edited>>
    BY <1>6 DEF C!SavePeriod
  <2>2. j.id \in SurveyIds /\ j.period \in C!Periods /\ retreat' = "there"
    BY <2>1, <1>2, <1>3 DEF Arranging
  <2>3. CatalogueInv' /\ survey' = [survey EXCEPT ![j.id] = j.period]
    BY <1>2, <1>4, <2>1, <2>2
  <2> QED
    BY <1>2, <2>2, <2>3
<1>7. CASE C!RemoveSurvey(p, asked) /\ ~C!Quit(p)
  <2>1. /\ cpc[p] = "unform" /\ j.id \notin asked
        /\ C!PutForm(p, j.id, C!None, [wanted EXCEPT ![j.id] = C!None])
        /\ C!End(p) /\ UNCHANGED <<retreat, meal, ride, given, edited>>
    BY <1>7 DEF C!RemoveSurvey
  <2>2. j.id \in SurveyIds
    BY <2>1, <1>3 DEF Arranging
  <2>3. CatalogueInv' /\ survey' = [survey EXCEPT ![j.id] = C!None]
    BY <1>2, <1>4, <2>1, <2>2
  <2> QED
    BY <1>2, <2>1, <2>2, <2>3
<1> QED
  BY <1>1, <1>5, <1>6, <1>7

\* Saving the retreat with its form, and removing it.
LEMMA RetreatSteps ==
    ASSUME CatalogueInv, NEW p \in Procs, UNCHANGED sjob,
           C!SaveRetreat(p) \/ C!RemoveRetreat(p)
    PROVE  CatalogueInv' /\ (survey'[Main] = C!None => survey[Main] = C!None)
<1> DEFINE j == cjob[p]
<1>1. CASE C!Quit(p)
  BY <1>1, CatalogueQuits DEF C!Quit, C!rows
<1>2. /\ survey \in [SurveyIds -> C!Periods \cup {C!None}]
      /\ wanted \in [SurveyIds -> C!Periods \cup {C!None}]
      /\ given \in [survey : Nat, meal : Nat, ride : Nat]
      /\ j.period \in C!Periods \cup {C!None} /\ j.seen \subseteq SurveyIds
  BY CatalogueJobShape DEF CatalogueInv, C!CatalogueTypeOK
<1>3. Arranging(p)
  BY DEF CatalogueInv
<1>4. ASSUME C!End(p)
      PROVE  /\ cpc' \in [Procs -> C!PCs] /\ cjob' \in [Procs -> C!Job] /\ cpc'[p] = "idle"
             /\ \A q \in Procs \ {p} : cpc'[q] = cpc[q] /\ cjob'[q] = cjob[q]
             /\ UNCHANGED <<requests, chosen, riding, applied>>
  BY <1>4, CatalogueEnds DEF CatalogueInv
<1>5. ASSUME C!End(p), retreat' \in {"there", "gone"}, retreat' = "gone" => C!Forms = {},
             late' \in {late, late \ {p}},
             UNCHANGED <<survey, meal, ride, given, wanted, overwritten, edited>>
      PROVE  CatalogueInv'
  <2>1. C!CatalogueTypeOK'
    BY <1>4, <1>5 DEF CatalogueInv, C!CatalogueTypeOK, C!Forms
  <2>2. ChoicesHold' /\ PeriodsStand'
    BY <1>4, <1>5 DEF CatalogueInv, ChoicesHold, PeriodsStand, C!ChosenExist, C!DirectionsMatch,
                      C!PeriodsStand
  <2>3. ASSUME NEW q \in Procs
        PROVE  Arranging(q)'
    <3>1. CASE q = p
      BY <1>4, <1>5, <3>1 DEF Arranging
    <3>2. CASE q # p
      BY <1>4, <1>5, <3>2 DEF CatalogueInv, Arranging
    <3> QED
      BY <3>1, <3>2
  <2>4. \A q \in Procs : Boarding(q)'
    BY <1>5 DEF CatalogueInv, Boarding
  <2> QED
    BY <1>5, <2>1, <2>2, <2>3, <2>4 DEF CatalogueInv
<1>6. CASE C!RemoveRetreat(p) /\ ~C!Quit(p)
  <2>1. /\ C!Forms = {} /\ retreat' = "gone" /\ C!End(p)
        /\ UNCHANGED <<survey, meal, ride, given, wanted, late, overwritten, edited>>
    BY <1>6 DEF C!RemoveRetreat, C!history
  <2> QED
    BY <1>5, <2>1
<1>7. CASE C!SaveRetreat(p) /\ ~C!Quit(p)
  <2> DEFINE s == IF j.id = 0 THEN given.survey + 1 ELSE j.id
             mine == IF j.seen = {} THEN s ELSE C!Least(j.seen)
             wants == [wanted EXCEPT ![mine] = IF j.asks = "title" THEN @ ELSE j.period]
  <2>1. cpc[p] = "retreat" /\ C!Forms \subseteq j.seen
    BY <1>7 DEF C!SaveRetreat
  <2>2. CASE j.period = C!None
    <3>1. /\ retreat' = "there" /\ C!End(p) /\ late' = late \ {p}
          /\ UNCHANGED <<survey, meal, ride, given, wanted, overwritten, edited>>
      BY <1>7, <2>1, <2>2 DEF C!SaveRetreat
    <3> QED
      BY <1>5, <3>1
  <2>3. CASE j.period # C!None
    <3>1. /\ s \in SurveyIds /\ retreat' = "there"
          /\ given' = IF j.id = 0 THEN [given EXCEPT !.survey = s] ELSE given
          /\ C!PutForm(p, s, j.period, wants)
          /\ C!End(p)
          /\ UNCHANGED <<meal, ride, edited>>
      BY <1>7, <2>1, <2>3 DEF C!SaveRetreat
    <3>2. /\ j.id = IF j.seen = {} THEN 0 ELSE C!Least(j.seen)
          /\ j.asks \in {"title", j.period}
          /\ j.asks = "title" => j.id # 0
          /\ j.asks = "title" /\ p \notin late => survey[j.id] = j.period
      BY <2>1, <2>3, <1>3 DEF Arranging
    <3>3. j.seen # {} => C!Least(j.seen) # 0
      BY <1>2, LeastId, FormAssumption
    <3>4. mine = s
      BY <3>2, <3>3
    <3>5. given' \in [survey : Nat, meal : Nat, ride : Nat] /\ given'.ride = given.ride
      BY <1>2, <3>1
    <3>6. s = j.id \/ j.asks = j.period
      BY <3>2
    <3> HIDE DEF s
    <3>7. wants \in [SurveyIds -> C!Periods \cup {C!None}]
      BY <1>2, <3>1, <3>4
    <3>8. /\ \A t \in SurveyIds \ {s} : wants[t] = wanted[t]
          /\ wants[s] = IF j.asks = "title" THEN wanted[s] ELSE j.period
      BY <1>2, <3>1, <3>4
    <3>9. "title" \notin C!Periods
      BY DEF C!Periods
    <3>10. p \notin late \/ cjob[p].asks # "title" =>
             wants[s] = j.period \/ (j.period = survey[s] /\ wants[s] = wanted[s])
      BY <1>2, <2>3, <3>2, <3>6, <3>8, <3>9
    <3> HIDE DEF wants, mine
    <3>11. CatalogueInv'
      BY <1>2, <1>4, <3>1, <3>5, <3>7, <3>8, <3>10, FormsChange
    <3> QED
      BY <1>2, <2>3, <3>1, <3>11 DEF C!PutForm
  <2> QED
    BY <2>2, <2>3
<1> QED
  BY <1>1, <1>6, <1>7

LEMMA CatalogueMoves ==
    ASSUME CatalogueInv, NEW p \in Procs, NEW asked, UNCHANGED sjob,
           C!CatalogueRequest(p) \/ C!CatalogueStep(p, asked)
    PROVE  CatalogueInv' /\ (survey'[Main] = C!None => survey[Main] = C!None \/ Main \notin asked)
<1>1. CASE C!CatalogueRequest(p)
  BY <1>1, MealRequests, TransportRequests, SurveyRequests, RetreatRequests
  DEF C!CatalogueRequest
<1>2. CASE C!CatalogueStep(p, asked)
  BY <1>2, MealSteps, TransportSteps, SurveySteps, RetreatSteps DEF C!CatalogueStep
<1> QED
  BY <1>1, <1>2

-----------------------------------------------------------------------------
(* Form: what submissions store of the catalogue. *)

\* The transports that are valid together are stored in different directions.
LEMMA StoredRides ==
    ASSUME CatalogueInv, NEW u \in Users, NEW c \in SUBSET C!Command, C!ValidRides(c)
    PROVE  /\ C!AsStored(u, c) \subseteq C!Riding
           /\ \A a \in C!AsStored(u, c) :
                a.user = u /\ a.ride <= given.ride /\ a.direction = ride[a.ride].direction
           /\ \A a, b \in C!AsStored(u, c) : a # b => a.direction # b.direction
<1>1. ASSUME NEW d \in c
      PROVE  /\ d.ride \in RideIds /\ ride[d.ride].there = 1 /\ d.ride <= given.ride
             /\ ride[d.ride].direction \in C!Directions
  <2>1. d.ride \in RideIds
    BY DEF C!Command
  <2>2. ride[d.ride].there = 1 /\ ride[d.ride] \in C!Ride
    BY <2>1 DEF C!ValidRides, CatalogueInv, C!CatalogueTypeOK
  <2> QED
    BY <2>1, <2>2 DEF CatalogueInv, C!Ride
<1>2. C!AsStored(u, c) \subseteq C!Riding
  BY <1>1 DEF C!AsStored, C!Riding
<1>3. ASSUME NEW a \in C!AsStored(u, c)
      PROVE  a.user = u /\ a.ride <= given.ride /\ a.direction = ride[a.ride].direction
  BY <1>1 DEF C!AsStored
<1>4. ASSUME NEW a \in C!AsStored(u, c), NEW b \in C!AsStored(u, c), a # b
      PROVE  a.direction # b.direction
  <2>1. PICK d \in c : a = [user |-> u, ride |-> d.ride, direction |-> ride[d.ride].direction]
    BY DEF C!AsStored
  <2>2. PICK e \in c : b = [user |-> u, ride |-> e.ride, direction |-> ride[e.ride].direction]
    BY DEF C!AsStored
  <2>3. d # e
    BY <1>4, <2>1, <2>2
  <2>4. ride[d.ride].direction # ride[e.ride].direction
    BY <2>3 DEF C!ValidRides
  <2> QED
    BY <2>1, <2>2, <2>4
<1> QED
  BY <1>2, <1>3, <1>4

\* A request that takes a submission leaves the catalogue and the choices alone.
LEMMA RidesTaken ==
    ASSUME CatalogueInv, NEW p \in Procs, NEW j \in Submission, Take(p, j),
           sjob \in [Procs -> Submission], NEW u, j.user = u,
           \A a \in j.rides :
                a.user = u /\ a.ride <= given.ride /\ a.direction = ride[a.ride].direction,
           \A a, b \in j.rides : a # b => a.direction # b.direction
    PROVE  CatalogueInv'
<1>1. /\ UNCHANGED <<retreat, survey, meal, ride, given, chosen, riding, applied, cpc, cjob,
                     wanted, late, overwritten, edited>>
      /\ sjob' = [sjob EXCEPT ![p] = j]
  BY DEF Take, catalogue
<1>2. ASSUME NEW q \in Procs
      PROVE  Boarding(q)'
  <2>1. CASE q = p
    <3>1. sjob'[q] = j
      BY <1>1, <2>1
    <3>2. j.rides \subseteq C!Riding
      BY DEF Submission
    <3> QED
      BY <1>1, <3>1, <3>2 DEF Boarding
  <2>2. CASE q # p
    BY <1>1, <2>2 DEF CatalogueInv, Boarding
  <2> QED
    BY <2>1, <2>2
<1>3. \A q \in Procs : Arranging(q)'
  BY <1>1 DEF CatalogueInv, Arranging
<1>4. C!CatalogueTypeOK' /\ ChoicesHold' /\ PeriodsStand'
  BY <1>1 DEF CatalogueInv, C!CatalogueTypeOK, C!Forms, ChoicesHold, PeriodsStand, C!ChosenExist,
              C!DirectionsMatch, C!PeriodsStand
<1> QED
  BY <1>1, <1>2, <1>3, <1>4 DEF CatalogueInv

\* The rows a submission replaces are those of its user.
LEMMA ChoicesStored ==
    ASSUME CatalogueInv, NEW p \in Procs, Store(p), sjob \in [Procs -> Submission],
           sjob[p].user \in Users
    PROVE  CatalogueInv'
<1> DEFINE j == sjob[p]
<1>1. /\ UNCHANGED <<retreat, survey, meal, ride, given, cpc, cjob, wanted, late, overwritten,
                     edited>>
      /\ sjob' = [sjob EXCEPT ![p] = NoSubmission]
  BY DEF Store
<1>2. /\ chosen \subseteq Users \X MealIds /\ riding \subseteq C!Riding
      /\ applied \in [Users -> SurveyIds \cup {0}]
      /\ j.user \in Users /\ j.meals \subseteq MealIds /\ Boarding(p)
  BY DEF CatalogueInv, C!CatalogueTypeOK, Submission
<1>3. ASSUME chosen' \subseteq Users \X MealIds, \A c \in chosen' : meal[c[2]] # C!None,
             riding' \subseteq C!Riding, applied' \in [Users -> SurveyIds \cup {0}],
             \A c \in riding' : /\ ride[c.ride].there = 1
                                /\ c.ride \notin edited => c.direction = ride[c.ride].direction,
             \A c, d \in riding' : c # d => c.user # d.user \/ c.direction # d.direction
      PROVE  CatalogueInv'
  <2>1. ASSUME NEW q \in Procs
        PROVE  Boarding(q)'
    <3>1. CASE q = p
      <4>1. sjob'[q] = NoSubmission
        BY <1>1, <3>1
      <4> QED
        BY <4>1 DEF Boarding, NoSubmission
    <3>2. CASE q # p
      BY <1>1, <3>2 DEF CatalogueInv, Boarding
    <3> QED
      BY <3>1, <3>2
  <2>2. \A q \in Procs : Arranging(q)'
    BY <1>1 DEF CatalogueInv, Arranging
  <2>3. C!CatalogueTypeOK' /\ ChoicesHold' /\ PeriodsStand'
    BY <1>1, <1>3 DEF CatalogueInv, C!CatalogueTypeOK, C!Forms, ChoicesHold, PeriodsStand,
                      C!ChosenExist, C!DirectionsMatch, C!PeriodsStand
  <2> QED
    BY <1>1, <2>1, <2>2, <2>3 DEF CatalogueInv
<1>4. /\ \A c \in chosen : meal[c[2]] # C!None
      /\ \A c \in riding : /\ ride[c.ride].there = 1
                           /\ c.ride \notin edited => c.direction = ride[c.ride].direction
      /\ \A c, d \in riding : c # d => c.user # d.user \/ c.direction # d.direction
  BY DEF CatalogueInv, ChoicesHold, C!ChosenExist, C!DirectionsMatch
<1>5. CASE UNCHANGED <<answers, chosen, riding, applied>>
  BY <1>2, <1>3, <1>4, <1>5
<1>6. CASE ~UNCHANGED <<answers, chosen, riding, applied>>
  <2>1. /\ C!Referable(j.meals, j.rides)
        /\ chosen' = Replaced(chosen, {j.user} \X MealIds, {j.user} \X j.meals, j, "meals")
        /\ riding' = Replaced(riding, {c \in riding : c.user = j.user}, j.rides, j, "rides")
        /\ applied' = IF "answers" \in j.parts THEN [applied EXCEPT ![j.user] = Main] ELSE applied
    BY <1>6 DEF Store
  <2>2. /\ \A m \in j.meals : meal[m] # C!None
        /\ \A c \in j.rides : ride[c.ride].there = 1
    BY <2>1 DEF C!Referable
  <2>3. ASSUME NEW c \in chosen'
        PROVE  c \in Users \X MealIds /\ meal[c[2]] # C!None
    <3>1. c \in chosen \/ c \in {j.user} \X j.meals
      BY <2>1 DEF Replaced
    <3>2. CASE c \in chosen
      BY <1>2, <1>4, <3>2
    <3>3. CASE c \in {j.user} \X j.meals
      <4>1. c[2] \in j.meals /\ c \in Users \X MealIds
        BY <1>2, <3>3
      <4> QED
        BY <2>2, <4>1
    <3> QED
      BY <3>1, <3>2, <3>3
  <2>4. riding' \subseteq riding \cup j.rides
    BY <2>1 DEF Replaced
  <2>5. ASSUME NEW c \in riding'
        PROVE  /\ c \in C!Riding /\ ride[c.ride].there = 1
               /\ c.ride \notin edited => c.direction = ride[c.ride].direction
    BY <1>2, <1>4, <2>2, <2>4 DEF Boarding
  <2>6. ASSUME NEW c \in riding', NEW d \in riding', c # d
        PROVE  c.user # d.user \/ c.direction # d.direction
    <3>1. CASE "rides" \in j.parts
      <4>1. riding' = (riding \ {r \in riding : r.user = j.user}) \cup j.rides
        BY <2>1, <3>1 DEF Replaced
      <4>2. \A r \in j.rides : r.user = j.user
        BY <1>2 DEF Boarding
      <4>3. CASE c \in j.rides /\ d \in j.rides
        BY <1>2, <2>6, <4>3 DEF Boarding
      <4>4. CASE c \in j.rides /\ d \notin j.rides
        BY <4>1, <4>2, <4>4
      <4>5. CASE c \notin j.rides /\ d \in j.rides
        BY <4>1, <4>2, <4>5
      <4>6. CASE c \notin j.rides /\ d \notin j.rides
        BY <1>4, <2>6, <4>1, <4>6
      <4> QED
        BY <4>3, <4>4, <4>5, <4>6
    <3>2. CASE "rides" \notin j.parts
      BY <1>4, <2>1, <2>6, <3>2 DEF Replaced
    <3> QED
      BY <3>1, <3>2
  <2>7. applied' \in [Users -> SurveyIds \cup {0}]
    BY <1>2, <2>1, FormAssumption DEF Main
  <2> QED
    BY <1>3, <2>3, <2>5, <2>6, <2>7
<1> QED
  BY <1>5, <1>6

-----------------------------------------------------------------------------
(* Form: questions and options. *)

Saving == {"sync", "prune", "attach"}

\* Request r will write or delete option o as one of question q.
Handles(r, o, q) ==
    /\ qpc[r] \in {"prune", "attach"} /\ qjob[r].q = q
    /\ \/ \E i \in DOMAIN qjob[r].list : qjob[r].list[i] = o
       \/ qpc[r] = "prune" /\ o \in qjob[r].seen

\* A submission under way answers question q with option o.
Answering(r, o, q) == \E a \in sjob[r].answers : a.question = q /\ a.option = o

\* Option o is, or is remembered as, an option of question q.
Claimed(o, q) ==
    \/ option[o].of = q
    \/ \E r \in Procs : Handles(r, o, q) \/ Answering(r, o, q)

\* An option belongs to one question for ever, also while its row is gone, and its id was
\* given before.
Owned ==
    \A o \in OptionIds, q \in QuestionIds : Claimed(o, q) =>
        /\ o <= drawn.option
        /\ \A r \in QuestionIds : Claimed(o, r) => r = q

\* The ids of questions were given before, and until there is a gap no number is above
\* the number of questions.
Numbered ==
    /\ \A q \in Q!Present : q <= drawn.question
    /\ gapped = 0 => \A q \in Q!Present : question[q].order <= Cardinality(Q!Present)

\* What a request of an administrator remembers of the questions at each of its points.
Editing(p) ==
    LET j == qjob[p] IN
    /\ qpc[p] \in {"insert", "store"} \cup Saving =>
        /\ j.list \in Seq(OptionIds \cup {0})
        /\ j.row.there = 1
        /\ j.row.kind \in Q!Selects => j.list # <<>>
    /\ qpc[p] \in {"store"} \cup Saving => j.q \in QuestionIds /\ j.q <= drawn.question
    /\ qpc[p] = "insert" /\ gapped = 0 => j.row.order <= Cardinality(Q!Present) + 1
    /\ qpc[p] = "store" =>
        /\ j.given = 0 => j.row.kind \notin Q!Selects
        /\ gapped = 0 => j.q \in Q!Present
    /\ qpc[p] \in Saving /\ j.q \in Q!Present \ loose => question[j.q].kind = j.row.kind
    /\ qpc[p] = "order" =>
        /\ j.list \in Seq(QuestionIds)
        /\ \A i, k \in DOMAIN j.list : j.list[i] = j.list[k] => i = k

QuestionsInv ==
    /\ Q!QuestionTypeOK
    /\ FormAnswerable
    /\ Owned
    /\ Numbered
    /\ \A p \in Procs : Editing(p)

LEMMA NoQuestionJob ==
    /\ Q!NoQuestion \in Q!Question /\ Q!NoOption \in Q!Option /\ Q!NoJob \in Q!Job
    /\ Q!NoOption.of = 0 /\ Q!NoQuestion.there = 0
    /\ Q!NoJob.q = 0 /\ Q!NoJob.list = <<>> /\ Q!NoJob.seen = {} /\ Q!NoJob.given = 0
<1>1. Q!NoQuestion \in Q!Question /\ Q!NoOption \in Q!Option
  BY DEF Q!NoQuestion, Q!Question, Q!NoOption, Q!Option, Q!Selects
<1>2. <<>> \in Seq(OptionIds \cup QuestionIds \cup {0})
  OBVIOUS
<1>3. Q!NoJob \in Q!Job
  BY <1>1, <1>2 DEF Q!NoJob, Q!Job
<1> QED
  BY <1>1, <1>3 DEF Q!NoJob, Q!NoOption, Q!NoQuestion

LEMMA QuestionJobShape ==
    ASSUME Q!QuestionTypeOK, NEW p \in Procs
    PROVE  /\ qjob[p] \in Q!Job /\ qjob[p].q \in QuestionIds \cup {0} /\ qjob[p].row \in Q!Question
           /\ qjob[p].row.order \in Nat
           /\ qjob[p].given \in {0, 1} /\ qjob[p].seen \subseteq OptionIds
           /\ qjob[p].list \in Seq(OptionIds \cup QuestionIds \cup {0})
<1>1. qjob[p] \in Q!Job
  BY DEF Q!QuestionTypeOK
<1> QED
  BY <1>1 DEF Q!Job, Q!Question

LEMMA QuestionIdShape ==
    /\ QuestionIds \subseteq Nat \ {0} /\ OptionIds \subseteq Nat \ {0} /\ 0 \notin QuestionIds
    /\ 0 \notin OptionIds /\ Q!Present \subseteq QuestionIds /\ IsFiniteSet(Q!Present)
    /\ Cardinality(Q!Present) \in Nat
<1>1. Q!Present \subseteq QuestionIds
  BY DEF Q!Present
<1>2. IsFiniteSet(Q!Present)
  BY <1>1, FormAssumption, FS_Subset
<1> QED
  BY <1>1, <1>2, FormAssumption, FS_CardinalityType

LEMMA QuestionGoes ==
    ASSUME Q!QuestionTypeOK, NEW p \in Procs, NEW point \in Q!PCs, NEW j \in Q!Job,
           Q!Goto(p, point, j)
    PROVE  /\ qpc' \in [Procs -> Q!PCs] /\ qjob' \in [Procs -> Q!Job]
           /\ qpc'[p] = point /\ qjob'[p] = j
           /\ \A q \in Procs \ {p} : qpc'[q] = qpc[q] /\ qjob'[q] = qjob[q]
  BY DEF Q!QuestionTypeOK, Q!Goto

\* A step that changes no question, option or answer.
LEMMA QuestionsStay ==
    ASSUME QuestionsInv, NEW p \in Procs, NEW point \in Q!PCs, NEW j \in Q!Job, Q!Goto(p, point, j),
           UNCHANGED <<question, option, drawn, answers, gapped, sjob>>,
           loose \subseteq loose', loose' \subseteq QuestionIds,
           qpc[p] \in Saving => qjob[p].q \in loose' \/ (point \in Saving /\ j.q = qjob[p].q),
           \A o \in OptionIds, q \in QuestionIds : Handles(p, o, q)' => Claimed(o, q),
           Editing(p)'
    PROVE  QuestionsInv'
<1>1. /\ qpc' \in [Procs -> Q!PCs] /\ qjob' \in [Procs -> Q!Job]
      /\ qpc'[p] = point /\ qjob'[p] = j
      /\ \A q \in Procs \ {p} : qpc'[q] = qpc[q] /\ qjob'[q] = qjob[q]
  BY QuestionGoes DEF QuestionsInv
<1>2. Q!Present' = Q!Present /\ \A q \in QuestionIds : Q!OptionsOf(q)' = Q!OptionsOf(q)
  BY DEF Q!Present, Q!OptionsOf
<1>3. Q!QuestionTypeOK'
  BY <1>1, <1>2 DEF QuestionsInv, Q!QuestionTypeOK
<1>4. Q!AnswersFit'
  BY <1>2 DEF QuestionsInv, FormAnswerable, Q!AnswersFit
<1>5. Q!ChoiceHasOptions'
  <2>1. ASSUME NEW q \in Q!Present \ loose', question[q].kind \in Q!Selects, Q!Attaching(q)' = {}
        PROVE  Q!OptionsOf(q) # {}
    <3>1. Q!Attaching(q) = {}
      BY <1>1, <2>1 DEF Q!Attaching, Saving
    <3> QED
      BY <2>1, <3>1 DEF QuestionsInv, FormAnswerable, Q!ChoiceHasOptions
  <2> QED
    BY <1>2, <2>1, QuestionIdShape DEF Q!ChoiceHasOptions
<1>6. Owned'
  <2>1. ASSUME NEW o \in OptionIds, NEW q \in QuestionIds, Claimed(o, q)'
        PROVE  Claimed(o, q)
    <3>1. ASSUME NEW r \in Procs \ {p}, Handles(r, o, q)'
          PROVE  Handles(r, o, q)
      BY <1>1, <3>1 DEF Handles
    <3> QED
      BY <2>1, <3>1 DEF Claimed, Answering
  <2> QED
    BY <2>1 DEF QuestionsInv, Owned
<1>7. Numbered'
  BY <1>2 DEF QuestionsInv, Numbered
<1>8. ASSUME NEW q \in Procs \ {p}
      PROVE  Editing(q)'
  <2>1. Editing(q)
    BY DEF QuestionsInv
  <2> QED
    BY <1>1, <1>2, <2>1 DEF Editing
<1> QED
  BY <1>3, <1>4, <1>5, <1>6, <1>7, <1>8 DEF QuestionsInv, FormAnswerable

LEMMA SameSize ==
    ASSUME NEW S
    PROVE  Q!Cardinality(S) = Cardinality(S)
  BY DEF Q!Cardinality, Cardinality

LEMMA ListShape ==
    /\ \A l \in Q!Lists : l \in Seq(OptionIds \cup {0}) /\ l \in Seq(OptionIds \cup QuestionIds \cup {0})
    /\ \A l \in Q!Orders : l \in Seq(QuestionIds) /\ l \in Seq(OptionIds \cup QuestionIds \cup {0})
    /\ \A k \in Kinds : k[1] \in {"SUBJECTIVE"} \cup Q!Selects /\ k[2] \in {0, 1}
<1>1. ASSUME NEW l \in Q!Lists
      PROVE  l \in Seq(OptionIds \cup {0}) /\ l \in Seq(OptionIds \cup QuestionIds \cup {0})
  <2>1. PICK n \in 0..MaxOptions : l \in [1..n -> OptionIds \cup {0}]
    BY DEF Q!Lists
  <2>2. n \in Nat
    BY <2>1, FormAssumption
  <2> QED
    BY <2>1, <2>2
<1>2. ASSUME NEW l \in Q!Orders
      PROVE  l \in Seq(QuestionIds) /\ l \in Seq(OptionIds \cup QuestionIds \cup {0})
  <2> DEFINE top == Cardinality(QuestionIds)
  <2>0. top \in Nat /\ l \in UNION {[1..m -> QuestionIds] : m \in 0..top}
    BY FormAssumption, FS_CardinalityType, SameSize DEF Q!Orders
  <2> HIDE DEF top
  <2>1. PICK n \in 0..top : l \in [1..n -> QuestionIds]
    BY <2>0
  <2>2. n \in Nat
    BY <2>0, <2>1
  <2> QED
    BY <2>1, <2>2
<1>3. ASSUME NEW k \in Kinds
      PROVE  k[1] \in {"SUBJECTIVE"} \cup Q!Selects /\ k[2] \in {0, 1}
  <2>1. k \in {"SUBJECTIVE", "SINGLE_SELECT", "MULTI_SELECT"} \X {0, 1}
    BY FormAssumption
  <2> QED
    BY <2>1 DEF Q!Selects
<1> QED
  BY <1>1, <1>2, <1>3

LEMMA QuestionQuits ==
    ASSUME QuestionsInv, NEW p \in Procs, Q!Goto(p, "idle", Q!NoJob), qpc[p] \notin Saving,
           UNCHANGED <<question, option, drawn, answers, gapped, loose, sjob>>
    PROVE  QuestionsInv'
<1>1. "idle" \in Q!PCs /\ Q!NoJob \in Q!Job
  BY NoQuestionJob DEF Q!PCs
<1>2. qpc'[p] = "idle"
  BY <1>1, QuestionGoes DEF QuestionsInv
<1>3. Editing(p)'
  BY <1>2 DEF Editing, Saving
<1>4. \A o \in OptionIds, q \in QuestionIds : ~Handles(p, o, q)'
  BY <1>2 DEF Handles
<1>5. loose' \subseteq QuestionIds
  BY DEF QuestionsInv, Q!QuestionTypeOK
<1> QED
  BY <1>1, <1>3, <1>4, <1>5, QuestionsStay

\* The first step of a request that only reads.
LEMMA QuestionLooks ==
    ASSUME QuestionsInv, NEW p \in Procs, NEW point \in {"insert", "store", "order"},
           NEW j \in Q!Job, Q!Goto(p, point, j), qpc[p] = "idle",
           UNCHANGED <<question, option, drawn, answers, gapped, loose, sjob>>,
           Editing(p)'
    PROVE  QuestionsInv'
<1>1. point \in Q!PCs
  BY DEF Q!PCs
<1>2. qpc'[p] = point
  BY <1>1, QuestionGoes DEF QuestionsInv
<1>3. \A o \in OptionIds, q \in QuestionIds : ~Handles(p, o, q)'
  BY <1>2 DEF Handles
<1>4. loose' \subseteq QuestionIds
  BY DEF QuestionsInv, Q!QuestionTypeOK
<1> QED
  BY <1>1, <1>3, <1>4, QuestionsStay DEF Saving

LEMMA CreatesQuestion ==
    ASSUME QuestionsInv, NEW p \in Procs, NEW k \in Kinds, NEW list \in Q!Lists, UNCHANGED sjob,
           Q!CreateQuestion(p, k[1], k[2], list)
    PROVE  QuestionsInv' /\ UNCHANGED question
<1> DEFINE r == [there |-> 1, kind |-> k[1], required |-> k[2],
                 order |-> Q!Cardinality(Q!Present) + 1]
           j == [Q!NoJob EXCEPT !.list = list, !.row = r]
<1>0. Q!Goto(p, "insert", j)
  BY DEF Q!CreateQuestion
<1>1. /\ qpc[p] = "idle"
      /\ k[1] \in Q!Selects => list # <<>>
      /\ UNCHANGED <<question, option, drawn, answers, gapped, loose>>
  BY DEF Q!CreateQuestion, Q!Begin, Q!Still, Q!ValidOptions, Q!Selects
<1>2. r \in Q!Question /\ r.there = 1 /\ r.kind = k[1] /\ r.order = Cardinality(Q!Present) + 1
  BY ListShape, QuestionIdShape, SameSize DEF Q!Question
<1> HIDE DEF r
<1>3. j \in Q!Job /\ j.list = list /\ j.row = r
  BY <1>2, ListShape, NoQuestionJob DEF Q!Job
<1> HIDE DEF j
<1>4. "insert" \in Q!PCs
  BY DEF Q!PCs
<1>5. qpc'[p] = "insert" /\ qjob'[p] = j
  BY <1>0, <1>3, <1>4, QuestionGoes DEF QuestionsInv
<1>6. Q!Present' = Q!Present
  BY <1>1 DEF Q!Present
<1>7. Editing(p)'
  BY <1>1, <1>2, <1>3, <1>5, <1>6, ListShape, QuestionIdShape DEF Editing, Saving
<1> QED
  BY <1>0, <1>1, <1>3, <1>7, QuestionLooks

LEMMA UpdatesQuestion ==
    ASSUME QuestionsInv, NEW p \in Procs, NEW k \in Kinds, NEW list \in Q!Lists, UNCHANGED sjob,
           NEW q \in QuestionIds, NEW given1 \in {0, 1},
           Q!UpdateQuestion(p, q, k[1], k[2], given1, list)
    PROVE  QuestionsInv' /\ UNCHANGED question
<1> DEFINE r == [question[q] EXCEPT !.kind = k[1], !.required = k[2]]
           j == [q |-> q, given |-> given1, list |-> list, seen |-> Q!OptionsOf(q), row |-> r]
<1>1. /\ Q!Goto(p, "store", j) /\ qpc[p] = "idle" /\ q \in Q!Present
      /\ k[1] \in Q!Selects => list # <<>> /\ given1 = 1
      /\ UNCHANGED <<question, option, drawn, answers, gapped, loose>>
  BY DEF Q!UpdateQuestion, Q!Begin, Q!Still, Q!ValidOptions, Q!Selects
<1>2. r \in Q!Question /\ r.there = 1 /\ r.kind = k[1]
  BY <1>1, ListShape DEF Q!Question, QuestionsInv, Q!QuestionTypeOK, Q!Present
<1> HIDE DEF r
<1>3. j \in Q!Job /\ j.list = list /\ j.row = r /\ j.q = q /\ j.given = given1
  BY <1>2, ListShape DEF Q!Job, Q!OptionsOf
<1> HIDE DEF j
<1>4. "store" \in Q!PCs
  BY DEF Q!PCs
<1>5. qpc'[p] = "store" /\ qjob'[p] = j
  BY <1>1, <1>3, <1>4, QuestionGoes DEF QuestionsInv
<1>6. Q!Present' = Q!Present /\ q <= drawn.question
  BY <1>1 DEF Q!Present, QuestionsInv, Numbered
<1>7. Editing(p)'
  BY <1>1, <1>2, <1>3, <1>5, <1>6, ListShape DEF Editing, Saving
<1> QED
  BY <1>1, <1>3, <1>7, QuestionLooks

LEMMA ReordersQuestions ==
    ASSUME QuestionsInv, NEW p \in Procs, NEW list \in Q!Orders, UNCHANGED sjob,
           Q!ReorderQuestions(p, list)
    PROVE  QuestionsInv' /\ UNCHANGED question
<1> DEFINE j == [Q!NoJob EXCEPT !.list = list]
<1>1. /\ Q!Goto(p, "order", j) /\ qpc[p] = "idle"
      /\ \A i, k \in DOMAIN list : list[i] = list[k] => i = k
      /\ UNCHANGED <<question, option, drawn, answers, gapped, loose>>
  BY DEF Q!ReorderQuestions, Q!Begin, Q!Still
<1>2. j \in Q!Job /\ j.list = list
  BY ListShape, NoQuestionJob DEF Q!Job
<1> HIDE DEF j
<1>3. "order" \in Q!PCs
  BY DEF Q!PCs
<1>4. qpc'[p] = "order" /\ qjob'[p] = j
  BY <1>1, <1>2, <1>3, QuestionGoes DEF QuestionsInv
<1>5. Editing(p)'
  BY <1>1, <1>2, <1>4, ListShape DEF Editing, Saving
<1> QED
  BY <1>1, <1>2, <1>5, QuestionLooks

LEMMA MatchedShape ==
    ASSUME NEW q \in QuestionIds, NEW list \in Seq(OptionIds \cup {0})
    PROVE  /\ Q!Matched(q, list) \in Seq(OptionIds \cup {0})
           /\ DOMAIN Q!Matched(q, list) = DOMAIN list
           /\ list # <<>> => Q!Matched(q, list) # <<>>
           /\ \A i \in DOMAIN list :
                Q!Matched(q, list)[i] = 0 \/ Q!Matched(q, list)[i] \in Q!OptionsOf(q)
<1> DEFINE m == Q!Matched(q, list)
<1>1. /\ DOMAIN m = DOMAIN list
      /\ \A i \in DOMAIN list : m[i] = 0 \/ m[i] \in Q!OptionsOf(q)
      /\ m = [i \in DOMAIN list |-> m[i]]
  BY DEF Q!Matched
<1> HIDE DEF m
<1>2. \A i \in DOMAIN list : m[i] \in OptionIds \cup {0}
  BY <1>1 DEF Q!OptionsOf
<1>3. PICK n \in Nat : DOMAIN list = 1..n /\ n = Len(list)
  OBVIOUS
<1>4. m \in [1..n -> OptionIds \cup {0}]
  BY <1>1, <1>2, <1>3
<1>5. m \in Seq(OptionIds \cup {0})
  BY <1>3, <1>4
<1>6. ASSUME list # <<>>
      PROVE  m # <<>>
  <2>1. 1 \in DOMAIN list
    BY <1>3, <1>6
  <2> QED
    BY <1>1, <2>1
<1>7. m = Q!Matched(q, list)
  BY DEF m
<1> QED
  BY <1>1, <1>5, <1>6, <1>7

\* Nothing is written when the options are read: what the request will delete or save are
\* options of its question.
LEMMA ReadsOptions ==
    ASSUME QuestionsInv, NEW p \in Procs, UNCHANGED sjob, Q!ReadOptions(p)
    PROVE  QuestionsInv' /\ UNCHANGED question
<1> DEFINE j == qjob[p]
           list == Q!Matched(j.q, j.list)
           rest == Q!OptionsOf(j.q) \ {list[i] : i \in DOMAIN list}
           point == IF rest = {} THEN "attach" ELSE "prune"
           k == [j EXCEPT !.list = list, !.seen = rest]
<1>1. /\ Q!Goto(p, point, k) /\ qpc[p] = "sync"
      /\ UNCHANGED <<question, option, drawn, answers, gapped, loose>>
  BY DEF Q!ReadOptions, Q!Still
<1>2. /\ j.q \in QuestionIds /\ j.q <= drawn.question /\ j.list \in Seq(OptionIds \cup {0})
      /\ j.row.there = 1 /\ (j.row.kind \in Q!Selects => j.list # <<>>)
      /\ j.q \in Q!Present \ loose => question[j.q].kind = j.row.kind
  BY <1>1 DEF QuestionsInv, Editing, Saving
<1>3. /\ list \in Seq(OptionIds \cup {0}) /\ (j.list # <<>> => list # <<>>)
      /\ \A i \in DOMAIN list : list[i] = 0 \/ list[i] \in Q!OptionsOf(j.q)
  BY <1>2, MatchedShape
<1>4. rest \subseteq Q!OptionsOf(j.q) /\ rest \subseteq OptionIds
  BY DEF Q!OptionsOf
<1>5. list \in Seq(OptionIds \cup QuestionIds \cup {0})
  <2> HIDE DEF list
  <2> QED
    BY <1>3
<1>6. point \in Q!PCs /\ point \in {"prune", "attach"}
  BY DEF Q!PCs
<1> HIDE DEF list, rest, point
<1>7. j \in Q!Job
  BY DEF QuestionsInv, Q!QuestionTypeOK
<1>8. k \in Q!Job /\ k.q = j.q /\ k.row = j.row /\ k.list = list /\ k.seen = rest
  BY <1>4, <1>5, <1>7 DEF Q!Job
<1> HIDE DEF k
<1>9. qpc'[p] = point /\ qjob'[p] = k
  BY <1>1, <1>6, <1>8, QuestionGoes DEF QuestionsInv
<1>10. ASSUME NEW o \in OptionIds, NEW q \in QuestionIds, Handles(p, o, q)'
       PROVE  Claimed(o, q)
  <2>1. q = j.q /\ (o \in rest \/ \E i \in DOMAIN list : list[i] = o)
    BY <1>8, <1>9, <1>10 DEF Handles
  <2>2. o # 0
    BY QuestionIdShape
  <2>3. o \in Q!OptionsOf(j.q)
    BY <1>3, <1>4, <2>1, <2>2
  <2> QED
    BY <2>1, <2>3 DEF Q!OptionsOf, Claimed
<1>11. Q!Present' = Q!Present
  BY <1>1 DEF Q!Present
<1>12. Editing(p)'
  BY <1>1, <1>2, <1>3, <1>6, <1>8, <1>9, <1>11 DEF Editing, Saving
<1>13. loose \subseteq loose' /\ loose' \subseteq QuestionIds
  BY <1>1 DEF QuestionsInv, Q!QuestionTypeOK
<1>14. point \in Saving /\ k.q = qjob[p].q
  BY <1>6, <1>8 DEF Saving
<1> QED
  BY <1>1, <1>6, <1>8, <1>10, <1>12, <1>13, <1>14, QuestionsStay

\* A request that fails after it has saved its question.
LEMMA QuestionFails ==
    ASSUME QuestionsInv, NEW p \in Procs, UNCHANGED sjob, Q!Fail(p), qpc[p] \in Saving
    PROVE  QuestionsInv' /\ UNCHANGED question
<1>1. /\ Q!Goto(p, "idle", Q!NoJob) /\ loose' = loose \cup {qjob[p].q}
      /\ UNCHANGED <<question, option, drawn, answers, gapped>>
  BY DEF Q!Fail, Q!Still
<1>2. "idle" \in Q!PCs /\ Q!NoJob \in Q!Job
  BY NoQuestionJob DEF Q!PCs
<1>3. qpc'[p] = "idle"
  BY <1>1, <1>2, QuestionGoes DEF QuestionsInv
<1>4. Editing(p)'
  BY <1>3 DEF Editing, Saving
<1>5. \A o \in OptionIds, q \in QuestionIds : ~Handles(p, o, q)'
  BY <1>3 DEF Handles
<1>6. qjob[p].q \in QuestionIds
  BY DEF QuestionsInv, Editing
<1>7. loose \subseteq loose' /\ loose' \subseteq QuestionIds /\ qjob[p].q \in loose'
  BY <1>1, <1>6 DEF QuestionsInv, Q!QuestionTypeOK
<1> QED
  BY <1>1, <1>2, <1>4, <1>5, <1>7, QuestionsStay

LEMMA QuestionTypes ==
    ASSUME Q!QuestionTypeOK
    PROVE  /\ question \in [QuestionIds -> Q!Question] /\ option \in [OptionIds -> Q!Option]
           /\ drawn.question \in Nat /\ drawn.option \in Nat
           /\ drawn = [question |-> drawn.question, option |-> drawn.option]
           /\ answers \subseteq Q!Answer /\ loose \subseteq QuestionIds /\ gapped \in {0, 1}
           /\ \A q \in QuestionIds : question[q].order \in Nat
           /\ \A o \in OptionIds : option[o].of \in QuestionIds \cup {0} /\ option[o].order \in Nat
<1>1. question \in [QuestionIds -> Q!Question] /\ option \in [OptionIds -> Q!Option]
  BY DEF Q!QuestionTypeOK
<1>2. \A q \in QuestionIds : question[q].order \in Nat
  BY <1>1 DEF Q!Question
<1>3. \A o \in OptionIds : option[o].of \in QuestionIds \cup {0} /\ option[o].order \in Nat
  BY <1>1 DEF Q!Option
<1> QED
  BY <1>1, <1>2, <1>3 DEF Q!QuestionTypeOK

\* What a request remembers while another one writes.
LEMMA StillEditing ==
    ASSUME Q!QuestionTypeOK, NEW r \in Procs, Editing(r), UNCHANGED <<qpc[r], qjob[r]>>,
           drawn'.question \in Nat, drawn.question <= drawn'.question,
           gapped' = 0 => gapped = 0 /\ Q!Present \subseteq Q!Present',
           \A q \in Q!Present' \ loose' : qpc[r] \in Saving /\ qjob[r].q = q =>
                q \in Q!Present \ loose /\ question'[q].kind = question[q].kind
    PROVE  Editing(r)'
<1> DEFINE j == qjob[r]
<1>1. j' = j
  OBVIOUS
<1>2. drawn.question \in Nat /\ QuestionIds \subseteq Nat /\ j.row.order \in Nat
  BY QuestionTypes, QuestionIdShape, QuestionJobShape
<1>3. /\ qpc[r] \in {"insert", "store"} \cup Saving =>
            /\ j.list \in Seq(OptionIds \cup {0})
            /\ j.row.there = 1
            /\ j.row.kind \in Q!Selects => j.list # <<>>
      /\ qpc[r] \in {"store"} \cup Saving => j.q \in QuestionIds /\ j.q <= drawn.question
      /\ qpc[r] = "insert" /\ gapped = 0 => j.row.order <= Cardinality(Q!Present) + 1
      /\ qpc[r] = "store" =>
            /\ j.given = 0 => j.row.kind \notin Q!Selects
            /\ gapped = 0 => j.q \in Q!Present
      /\ qpc[r] \in Saving /\ j.q \in Q!Present \ loose => question[j.q].kind = j.row.kind
      /\ qpc[r] = "order" =>
            /\ j.list \in Seq(QuestionIds)
            /\ \A i, k \in DOMAIN j.list : j.list[i] = j.list[k] => i = k
  BY DEF Editing
<1>4. qpc[r] \in {"store"} \cup Saving => j.q <= drawn'.question
  BY <1>2, <1>3
<1>5. qpc[r] = "insert" /\ gapped' = 0 => j.row.order <= Cardinality(Q!Present') + 1
  <2>1. SUFFICES ASSUME qpc[r] = "insert", gapped' = 0
                 PROVE  j.row.order <= Cardinality(Q!Present') + 1
    OBVIOUS
  <2>2. Q!Present' \subseteq QuestionIds
    BY DEF Q!Present
  <2>3. IsFiniteSet(Q!Present')
    BY <2>2, FormAssumption, FS_Subset
  <2>4. Cardinality(Q!Present) <= Cardinality(Q!Present')
    BY <2>1, <2>3, FS_Subset
  <2>5. Cardinality(Q!Present') \in Nat /\ Cardinality(Q!Present) \in Nat
    BY <2>3, QuestionIdShape, FS_CardinalityType
  <2>6. j.row.order <= Cardinality(Q!Present) + 1
    BY <1>3, <2>1
  <2> QED
    BY <1>2, <2>4, <2>5, <2>6
<1>6. qpc[r] = "store" /\ gapped' = 0 => j.q \in Q!Present'
  BY <1>3
<1>7. qpc[r] \in Saving /\ j.q \in Q!Present' \ loose' => question'[j.q].kind = j.row.kind
  BY <1>3
<1> HIDE DEF j
<1> QED
  BY <1>1, <1>3, <1>4, <1>5, <1>6, <1>7 DEF Editing, j

\* A step after which no option is claimed that was not before.
LEMMA StillOwned ==
    ASSUME Q!QuestionTypeOK, Owned, drawn'.option \in Nat, drawn.option <= drawn'.option,
           \A o \in OptionIds, q \in QuestionIds : Claimed(o, q)' => Claimed(o, q)
    PROVE  Owned'
<1>1. drawn.option \in Nat /\ OptionIds \subseteq Nat
  BY QuestionTypes, QuestionIdShape
<1>2. ASSUME NEW o \in OptionIds, NEW q \in QuestionIds, Claimed(o, q)'
      PROVE  o <= drawn'.option /\ \A r \in QuestionIds : Claimed(o, r)' => r = q
  <2>1. o <= drawn.option /\ \A r \in QuestionIds : Claimed(o, r) => r = q
    BY <1>2 DEF Owned
  <2> QED
    BY <1>1, <2>1
<1> QED
  BY <1>2 DEF Owned

\* The INSERT of a question: its id is new, so no request and no option knows it.
LEMMA InsertsQuestion ==
    ASSUME QuestionsInv, NEW p \in Procs, UNCHANGED sjob, Q!InsertQuestion(p)
    PROVE  /\ QuestionsInv'
           /\ UNCHANGED question \/ survey[Main] # C!None
<1> DEFINE j == qjob[p]
           q0 == drawn.question + 1
<1>1. qpc[p] = "insert"
  BY DEF Q!InsertQuestion
<1>2. CASE Q!Quit(p)
  <2>1. /\ Q!Goto(p, "idle", Q!NoJob)
        /\ UNCHANGED <<question, option, drawn, answers, gapped, loose>>
    BY <1>2 DEF Q!Quit, Q!Still
  <2> QED
    BY <1>1, <2>1, QuestionQuits DEF Saving
<1>3. CASE ~Q!Quit(p)
  <2>1. /\ survey[Main] # C!None /\ Q!OrderFree(j.row.order, 0)
        /\ q0 \in QuestionIds /\ question' = [question EXCEPT ![q0] = j.row]
        /\ drawn' = [drawn EXCEPT !.question = q0]
        /\ UNCHANGED <<option, answers, loose, gapped>>
    BY <1>3 DEF Q!InsertQuestion, C!None
  <2>2. \/ j.list = <<>> /\ Q!Goto(p, "idle", Q!NoJob)
        \/ Q!Goto(p, "sync", [j EXCEPT !.q = q0])
    BY <1>3 DEF Q!InsertQuestion
  <2>3. /\ j \in Q!Job /\ j.row \in Q!Question /\ j.row.order \in Nat
        /\ j.list \in Seq(OptionIds \cup {0}) /\ j.row.there = 1
        /\ j.row.kind \in Q!Selects => j.list # <<>>
        /\ gapped = 0 => j.row.order <= Cardinality(Q!Present) + 1
    BY <1>1, QuestionJobShape DEF QuestionsInv, Editing
  <2>4. PICK point \in {"idle", "sync"}, k \in Q!Job :
            /\ Q!Goto(p, point, k)
            /\ point = "idle" => j.list = <<>>
            /\ point = "sync" => k.q = q0 /\ k.list = j.list /\ k.row = j.row
    <3>1. CASE j.list = <<>> /\ Q!Goto(p, "idle", Q!NoJob)
      BY <3>1, NoQuestionJob
    <3>2. CASE Q!Goto(p, "sync", [j EXCEPT !.q = q0])
      <4>1. [j EXCEPT !.q = q0] \in Q!Job
        BY <2>1, <2>3 DEF Q!Job
      <4>2. /\ [j EXCEPT !.q = q0].q = q0 /\ [j EXCEPT !.q = q0].list = j.list
            /\ [j EXCEPT !.q = q0].row = j.row
        BY <2>3 DEF Q!Job
      <4> QED
        BY <3>2, <4>1, <4>2
    <3> QED
      BY <2>2, <3>1, <3>2
  <2>5. /\ qpc' \in [Procs -> Q!PCs] /\ qjob' \in [Procs -> Q!Job]
        /\ qpc'[p] = point /\ qjob'[p] = k
        /\ \A r \in Procs \ {p} : qpc'[r] = qpc[r] /\ qjob'[r] = qjob[r]
    <3>1. point \in Q!PCs
      BY DEF Q!PCs
    <3> QED
      BY <2>4, <3>1, QuestionGoes DEF QuestionsInv
  <2>6. /\ drawn.question \in Nat /\ drawn.option \in Nat /\ drawn'.question = q0
        /\ drawn'.option = drawn.option /\ drawn' \in [question : Nat, option : Nat]
    BY <2>1, QuestionTypes DEF QuestionsInv
  <2>7. q0 \notin Q!Present /\ \A q \in Q!Present : q <= drawn.question /\ q \in Nat
    <3>1. \A q \in Q!Present : q <= drawn.question
      BY DEF QuestionsInv, Numbered
    <3>2. \A q \in Q!Present : q \in Nat
      BY QuestionIdShape
    <3> QED
      BY <2>6, <3>1, <3>2
  <2>8. Q!Present' = Q!Present \cup {q0}
    <3>1. question'[q0].there = 1 /\ \A q \in QuestionIds \ {q0} : question'[q] = question[q]
      BY <2>1, <2>3, QuestionTypes DEF QuestionsInv
    <3> QED
      BY <2>1, <3>1 DEF Q!Present
  <2>9. question' \in [QuestionIds -> Q!Question] /\ question'[q0] = j.row
        /\ \A q \in QuestionIds \ {q0} : question'[q] = question[q]
    BY <2>1, <2>3, QuestionTypes DEF QuestionsInv
  <2>10. Q!QuestionTypeOK'
    <3>1. \A o \in OptionIds : option'[o].of # 0 => option'[o].of \in Q!Present'
      BY <2>1, <2>8 DEF QuestionsInv, Q!QuestionTypeOK
    <3>2. \A q, r \in Q!Present' : q # r => question'[q].order # question'[r].order
      <4>1. \A r \in Q!Present : question[r].order # j.row.order
        BY <2>1, QuestionIdShape DEF Q!OrderFree
      <4> QED
        BY <2>7, <2>8, <2>9, <4>1, QuestionIdShape DEF QuestionsInv, Q!QuestionTypeOK
    <3> QED
      BY <2>1, <2>5, <2>6, <2>9, <3>1, <3>2 DEF QuestionsInv, Q!QuestionTypeOK
  <2>11. Q!AnswersFit'
    BY <2>1, <2>8 DEF QuestionsInv, FormAnswerable, Q!AnswersFit
  <2>12. Q!ChoiceHasOptions'
    <3>1. ASSUME NEW q \in Q!Present' \ loose', question'[q].kind \in Q!Selects,
                 Q!Attaching(q)' = {}
          PROVE  Q!OptionsOf(q)' # {}
      <4>1. CASE q = q0
        <5>1. point = "sync" => p \in Q!Attaching(q)'
          BY <2>4, <2>5, <4>1 DEF Q!Attaching
        <5> QED
          BY <2>3, <2>4, <2>9, <3>1, <4>1, <5>1
      <4>2. CASE q # q0
        <5>1. q \in Q!Present \ loose /\ question[q].kind \in Q!Selects
          BY <2>1, <2>8, <2>9, <3>1, <4>2, QuestionIdShape
        <5>2. Q!Attaching(q) = {}
          BY <1>1, <2>5, <3>1 DEF Q!Attaching
        <5> QED
          BY <2>1, <5>1, <5>2 DEF QuestionsInv, FormAnswerable, Q!ChoiceHasOptions, Q!OptionsOf
      <4> QED
        BY <4>1, <4>2
    <3> QED
      BY <3>1 DEF Q!ChoiceHasOptions
  <2>13. Owned'
    <3>1. ASSUME NEW o \in OptionIds, NEW q \in QuestionIds, Claimed(o, q)'
          PROVE  Claimed(o, q)
      <4>1. ASSUME NEW r \in Procs, Handles(r, o, q)'
            PROVE  Handles(r, o, q)
        BY <2>5, <4>1 DEF Handles
      <4> QED
        BY <2>1, <3>1, <4>1 DEF Claimed, Answering
    <3> QED
      BY <2>6, <3>1, StillOwned DEF QuestionsInv
  <2>14. Numbered'
    <3>1. \A q \in Q!Present' : q <= drawn'.question
      BY <2>6, <2>7, <2>8
    <3>2. ASSUME gapped' = 0, NEW q \in Q!Present'
          PROVE  question'[q].order <= Cardinality(Q!Present')
      <4>1. Cardinality(Q!Present') = Cardinality(Q!Present) + 1 /\ Cardinality(Q!Present) \in Nat
        BY <2>7, <2>8, QuestionIdShape, FS_AddElement
      <4>2. CASE q = q0
        BY <2>1, <2>3, <2>9, <3>2, <4>1, <4>2
      <4>3. CASE q # q0
        <5>1. q \in Q!Present /\ question'[q] = question[q] /\ question[q].order \in Nat
          BY <2>8, <2>9, <4>3, QuestionIdShape, QuestionTypes DEF QuestionsInv
        <5>2. question[q].order <= Cardinality(Q!Present)
          BY <2>1, <3>2, <5>1 DEF QuestionsInv, Numbered
        <5> QED
          BY <4>1, <5>1, <5>2
      <4> QED
        BY <4>2, <4>3
    <3> QED
      BY <3>1, <3>2 DEF Numbered
  <2>15. Editing(p)'
    BY <2>1, <2>3, <2>4, <2>5, <2>6, <2>9 DEF Editing, Saving
  <2>16. ASSUME NEW r \in Procs \ {p}
         PROVE  Editing(r)'
    <3>1. Editing(r) /\ drawn.question <= drawn'.question
      BY <2>6 DEF QuestionsInv
    <3>2. ASSUME NEW q \in Q!Present' \ loose', qpc[r] \in Saving, qjob[r].q = q
          PROVE  q \in Q!Present \ loose /\ question'[q].kind = question[q].kind
      <4>1. q <= drawn.question /\ q \in Nat
        BY <3>1, <3>2, QuestionIdShape DEF Editing
      <4>2. q # q0
        BY <2>6, <4>1
      <4> QED
        BY <2>1, <2>8, <2>9, <4>2, QuestionIdShape
    <3> QED
      BY <2>1, <2>5, <2>6, <2>8, <3>1, <3>2, StillEditing DEF QuestionsInv
  <2> QED
    BY <2>1, <2>10, <2>11, <2>12, <2>13, <2>14, <2>15, <2>16 DEF QuestionsInv, FormAnswerable
<1> QED
  BY <1>2, <1>3

\* The UPDATE of a question, or the INSERT of one deleted meanwhile: another request that
\* is still to attach options to it makes it loose.
LEMMA StoresQuestion ==
    ASSUME QuestionsInv, NEW p \in Procs, UNCHANGED sjob, Q!StoreQuestion(p)
    PROVE  /\ QuestionsInv'
           /\ Q!Present' \subseteq Q!Present \/ survey[Main] # C!None
<1> DEFINE j == qjob[p]
           q0 == j.q
<1>1. qpc[p] = "store"
  BY DEF Q!StoreQuestion
<1>2. CASE Q!Quit(p)
  <2>1. /\ Q!Goto(p, "idle", Q!NoJob)
        /\ UNCHANGED <<question, option, drawn, answers, gapped, loose>>
    BY <1>2 DEF Q!Quit, Q!Still
  <2>2. Q!Present' = Q!Present
    BY <2>1 DEF Q!Present
  <2> QED
    BY <1>1, <2>1, <2>2, QuestionQuits DEF Saving
<1>3. CASE ~Q!Quit(p)
  <2>1. /\ Q!OrderFree(j.row.order, q0) /\ (q0 \in Q!Present \/ survey[Main] # C!None)
        /\ question' = [question EXCEPT ![q0] = j.row]
        /\ gapped' = IF question[q0].order = j.row.order THEN gapped ELSE 1
        /\ loose' = IF Q!Attaching(q0) \ {p} # {} THEN loose \cup {q0} ELSE loose
        /\ UNCHANGED <<option, drawn, answers>>
    BY <1>3 DEF Q!StoreQuestion, Q!MarkMixed, C!None
  <2>2. PICK point \in {"idle", "sync"}, k \in {Q!NoJob, j} :
            /\ Q!Goto(p, point, k)
            /\ point = "idle" => j.given = 0
            /\ point = "sync" => k = j
    <3>1. CASE j.given = 1
      BY <1>3, <3>1 DEF Q!StoreQuestion
    <3>2. CASE j.given # 1
      <4>1. j.given = 0
        BY <3>2, QuestionJobShape DEF QuestionsInv
      <4> QED
        BY <1>3, <3>2, <4>1 DEF Q!StoreQuestion
    <3> QED
      BY <3>1, <3>2
  <2>3. /\ j \in Q!Job /\ j.row \in Q!Question /\ j.row.order \in Nat
        /\ j.list \in Seq(OptionIds \cup {0}) /\ j.row.there = 1
        /\ j.row.kind \in Q!Selects => j.list # <<>>
        /\ q0 \in QuestionIds /\ q0 <= drawn.question
        /\ j.given = 0 => j.row.kind \notin Q!Selects
        /\ gapped = 0 => q0 \in Q!Present
    BY <1>1, QuestionJobShape DEF QuestionsInv, Editing
  <2>4. /\ qpc' \in [Procs -> Q!PCs] /\ qjob' \in [Procs -> Q!Job]
        /\ qpc'[p] = point /\ qjob'[p] = k
        /\ \A r \in Procs \ {p} : qpc'[r] = qpc[r] /\ qjob'[r] = qjob[r]
    <3>1. point \in Q!PCs /\ k \in Q!Job
      BY <2>3, NoQuestionJob DEF Q!PCs
    <3> QED
      BY <2>2, <3>1, QuestionGoes DEF QuestionsInv
  <2>5. drawn.question \in Nat /\ drawn.option \in Nat /\ gapped \in {0, 1}
    BY QuestionTypes DEF QuestionsInv
  <2>6. /\ question' \in [QuestionIds -> Q!Question] /\ question'[q0] = j.row
        /\ \A q \in QuestionIds \ {q0} : question'[q] = question[q]
    BY <2>1, <2>3, QuestionTypes DEF QuestionsInv
  <2>7. Q!Present' = Q!Present \cup {q0}
    BY <2>3, <2>6 DEF Q!Present
  <2>8. loose \subseteq loose' /\ loose' \subseteq QuestionIds
    BY <2>1, <2>3, QuestionTypes DEF QuestionsInv
  <2> HIDE DEF q0
  <2>9. Q!QuestionTypeOK'
    <3>1. \A o \in OptionIds : option'[o].of # 0 => option'[o].of \in Q!Present'
      BY <2>1, <2>7 DEF QuestionsInv, Q!QuestionTypeOK
    <3>2. \A q, r \in Q!Present' : q # r => question'[q].order # question'[r].order
      <4>1. \A r \in Q!Present \ {q0} : question[r].order # j.row.order
        BY <2>1 DEF Q!OrderFree
      <4> QED
        BY <2>6, <2>7, <4>1, QuestionIdShape DEF QuestionsInv, Q!QuestionTypeOK
    <3>3. gapped' \in {0, 1}
      BY <2>1, <2>5
    <3> QED
      BY <2>1, <2>4, <2>6, <2>8, <3>1, <3>2, <3>3 DEF QuestionsInv, Q!QuestionTypeOK
  <2>10. Q!AnswersFit'
    BY <2>1, <2>7 DEF QuestionsInv, FormAnswerable, Q!AnswersFit
  <2>11. Q!ChoiceHasOptions'
    <3>1. ASSUME NEW q \in Q!Present' \ loose', question'[q].kind \in Q!Selects,
                 Q!Attaching(q)' = {}
          PROVE  Q!OptionsOf(q)' # {}
      <4>1. CASE q = q0
        <5>1. point = "sync" => p \in Q!Attaching(q)'
          BY <2>2, <2>4, <4>1 DEF Q!Attaching, q0
        <5> QED
          BY <2>2, <2>3, <2>6, <3>1, <4>1, <5>1
      <4>2. CASE q # q0
        <5>1. q \in Q!Present \ loose /\ question[q].kind \in Q!Selects
          BY <2>6, <2>7, <2>8, <3>1, <4>2, QuestionIdShape
        <5>2. Q!Attaching(q) = {}
          BY <1>1, <2>4, <3>1 DEF Q!Attaching
        <5> QED
          BY <2>1, <5>1, <5>2 DEF QuestionsInv, FormAnswerable, Q!ChoiceHasOptions, Q!OptionsOf
      <4> QED
        BY <4>1, <4>2
    <3> QED
      BY <3>1 DEF Q!ChoiceHasOptions
  <2>12. Owned'
    <3>1. ASSUME NEW o \in OptionIds, NEW q \in QuestionIds, Claimed(o, q)'
          PROVE  Claimed(o, q)
      <4>1. ASSUME NEW r \in Procs, Handles(r, o, q)'
            PROVE  Handles(r, o, q)
        BY <2>4, <4>1 DEF Handles
      <4> QED
        BY <2>1, <3>1, <4>1 DEF Claimed, Answering
    <3> QED
      BY <2>1, <2>5, <3>1, StillOwned DEF QuestionsInv
  <2>13. Numbered'
    <3>1. \A q \in Q!Present' : q <= drawn'.question
      BY <2>1, <2>3, <2>7 DEF QuestionsInv, Numbered
    <3>2. ASSUME gapped' = 0, NEW q \in Q!Present'
          PROVE  question'[q].order <= Cardinality(Q!Present')
      <4>1. gapped = 0 /\ question[q0].order = j.row.order
        BY <2>1, <3>2
      <4>2. Q!Present' = Q!Present
        BY <2>3, <2>7, <4>1
      <4>3. question'[q].order = question[q].order
        BY <2>6, <4>1, <4>2, QuestionIdShape
      <4> QED
        BY <3>2, <4>1, <4>2, <4>3 DEF QuestionsInv, Numbered
    <3> QED
      BY <3>1, <3>2 DEF Numbered
  <2>14. Editing(p)'
    BY <2>1, <2>2, <2>3, <2>4, <2>6 DEF Editing, Saving, q0
  <2>15. ASSUME NEW r \in Procs \ {p}
         PROVE  Editing(r)'
    <3>1. Editing(r) /\ drawn'.question \in Nat /\ drawn.question <= drawn'.question
      BY <2>1, <2>5 DEF QuestionsInv
    <3>2. ASSUME NEW q \in Q!Present' \ loose', qpc[r] \in Saving, qjob[r].q = q
          PROVE  q \in Q!Present \ loose /\ question'[q].kind = question[q].kind
      <4>1. q = q0 => r \in Q!Attaching(q0) \ {p}
        BY <3>2 DEF Q!Attaching, Saving
      <4>2. q # q0
        BY <2>1, <3>2, <4>1
      <4> QED
        BY <2>6, <2>7, <2>8, <3>2, <4>2, QuestionIdShape
    <3>3. gapped' = 0 => gapped = 0 /\ Q!Present \subseteq Q!Present'
      BY <2>1, <2>7
    <3>4. UNCHANGED <<qpc[r], qjob[r]>>
      BY <2>4
    <3> QED
      BY <3>1, <3>2, <3>3, <3>4, StillEditing DEF QuestionsInv
  <2> QED
    BY <2>1, <2>7, <2>9, <2>10, <2>11, <2>12, <2>13, <2>14, <2>15 DEF QuestionsInv, FormAnswerable
<1> QED
  BY <1>2, <1>3

\* The options left over are deleted: no question but the one they were read with has them.
LEMMA PrunesOptions ==
    ASSUME QuestionsInv, NEW p \in Procs, UNCHANGED sjob, Q!PruneOptions(p)
    PROVE  QuestionsInv' /\ UNCHANGED question
<1> DEFINE j == qjob[p]
<1>1. qpc[p] = "prune"
  BY DEF Q!PruneOptions
<1>2. CASE Q!Fail(p)
  BY <1>1, <1>2, QuestionFails DEF Saving
<1>3. CASE ~Q!Fail(p)
  <2>1. /\ ~Q!Answered(j.seen)
        /\ option' = [o \in OptionIds |-> IF o \in j.seen THEN Q!NoOption ELSE option[o]]
        /\ Q!Goto(p, "attach", j)
        /\ UNCHANGED <<question, drawn, answers, loose, gapped>>
    BY <1>3 DEF Q!PruneOptions
  <2>2. /\ j \in Q!Job /\ j.q \in QuestionIds /\ j.seen \subseteq OptionIds
    BY <1>1, QuestionJobShape DEF QuestionsInv, Editing, Saving
  <2>3. /\ qpc' \in [Procs -> Q!PCs] /\ qjob' \in [Procs -> Q!Job]
        /\ qpc'[p] = "attach" /\ qjob'[p] = j
        /\ \A r \in Procs \ {p} : qpc'[r] = qpc[r] /\ qjob'[r] = qjob[r]
    <3>1. "attach" \in Q!PCs
      BY DEF Q!PCs
    <3> QED
      BY <2>1, <2>2, <3>1, QuestionGoes DEF QuestionsInv
  <2>4. ASSUME NEW o \in j.seen, NEW q \in QuestionIds, option[o].of = q
        PROVE  q = j.q
    <3>1. o \in OptionIds /\ Handles(p, o, j.q)
      BY <1>1, <2>2 DEF Handles
    <3>2. Claimed(o, j.q) /\ Claimed(o, q)
      BY <2>4, <3>1 DEF Claimed
    <3> QED
      BY <2>2, <3>1, <3>2 DEF QuestionsInv, Owned
  <2>5. /\ option' \in [OptionIds -> Q!Option]
        /\ \A o \in OptionIds : option'[o].of # 0 => o \notin j.seen /\ option'[o] = option[o]
        /\ \A o \in OptionIds \ j.seen : option'[o] = option[o]
    BY <2>1, NoQuestionJob, QuestionTypes DEF QuestionsInv
  <2>6. Q!Present' = Q!Present
    BY <2>1 DEF Q!Present
  <2>7. Q!QuestionTypeOK'
    BY <2>1, <2>3, <2>5, <2>6 DEF QuestionsInv, Q!QuestionTypeOK
  <2>8. Q!AnswersFit'
    <3>1. ASSUME NEW a \in answers, a.option # 0
          PROVE  option'[a.option].of = a.question
      <4>1. a.option \in OptionIds
        BY <3>1 DEF QuestionsInv, Q!QuestionTypeOK, Q!Answer
      <4>2. a.option \notin j.seen
        BY <2>1 DEF Q!Answered
      <4> QED
        BY <2>5, <3>1, <4>1, <4>2 DEF QuestionsInv, FormAnswerable, Q!AnswersFit
    <3> QED
      BY <2>1, <2>6, <3>1 DEF QuestionsInv, FormAnswerable, Q!AnswersFit
  <2>9. Q!ChoiceHasOptions'
    <3>1. ASSUME NEW q \in Q!Present \ loose, question[q].kind \in Q!Selects,
                 Q!Attaching(q)' = {}
          PROVE  Q!OptionsOf(q)' # {}
      <4>1. q # j.q
        BY <2>3, <3>1 DEF Q!Attaching
      <4>2. Q!Attaching(q) = {}
        BY <2>3, <3>1, <4>1 DEF Q!Attaching
      <4>3. PICK o \in Q!OptionsOf(q) : TRUE
        BY <3>1, <4>2 DEF QuestionsInv, FormAnswerable, Q!ChoiceHasOptions
      <4>4. o \in OptionIds /\ o \notin j.seen
        BY <2>4, <4>1, <4>3, QuestionIdShape DEF Q!OptionsOf
      <4>5. o \in Q!OptionsOf(q)'
        BY <2>5, <4>3, <4>4 DEF Q!OptionsOf
      <4> QED
        BY <4>5
    <3> QED
      BY <2>1, <2>6, <3>1 DEF Q!ChoiceHasOptions
  <2>10. Owned'
    <3>1. ASSUME NEW o \in OptionIds, NEW q \in QuestionIds, Claimed(o, q)'
          PROVE  Claimed(o, q)
      <4>1. ASSUME NEW r \in Procs, Handles(r, o, q)'
            PROVE  Handles(r, o, q)
        <5>1. CASE r = p
          BY <1>1, <2>3, <4>1, <5>1 DEF Handles
        <5>2. CASE r # p
          BY <2>3, <4>1, <5>2 DEF Handles
        <5> QED
          BY <5>1, <5>2
      <4>2. option'[o].of = q => option[o].of = q
        BY <2>5, QuestionIdShape
      <4> QED
        BY <3>1, <4>1, <4>2 DEF Claimed, Answering
    <3>2. drawn'.option \in Nat /\ drawn.option <= drawn'.option
      BY <2>1, QuestionTypes DEF QuestionsInv
    <3> QED
      BY <3>1, <3>2, StillOwned DEF QuestionsInv
  <2>11. Numbered'
    BY <2>1, <2>6 DEF QuestionsInv, Numbered
  <2>12. Editing(p)'
    BY <1>1, <2>1, <2>3, <2>6 DEF Editing, Saving, QuestionsInv
  <2>13. ASSUME NEW r \in Procs \ {p}
         PROVE  Editing(r)'
    <3>1. Editing(r)
      BY DEF QuestionsInv
    <3> QED
      BY <2>1, <2>3, <2>6, <3>1 DEF Editing
  <2> QED
    BY <2>1, <2>7, <2>8, <2>9, <2>10, <2>11, <2>12, <2>13 DEF QuestionsInv, FormAnswerable
<1> QED
  BY <1>2, <1>3

\* How many new entries a list has up to a place.
LEMMA NewEntries ==
    ASSUME NEW list \in Seq(OptionIds \cup {0})
    PROVE  /\ Q!New(list, Len(list)) \in Nat
           /\ \A i \in DOMAIN list :
                /\ Q!New(list, i) \in Nat /\ Q!New(list, i) <= Q!New(list, Len(list))
                /\ list[i] = 0 => Q!New(list, i) >= 1
<1> DEFINE new(i) == {k \in 1..i : list[k] = 0}
<1>1. \A i : Q!New(list, i) = Cardinality(new(i))
  BY SameSize DEF Q!New
<1>2. Len(list) \in Nat /\ DOMAIN list = 1..Len(list)
  OBVIOUS
<1>3. IsFiniteSet(new(Len(list))) /\ Cardinality(new(Len(list))) \in Nat
  <2>1. IsFiniteSet(1..Len(list))
    BY <1>2, FS_Interval
  <2>2. new(Len(list)) \subseteq 1..Len(list)
    OBVIOUS
  <2> QED
    BY <2>1, <2>2, FS_Subset, FS_CardinalityType
<1>4. ASSUME NEW i \in DOMAIN list
      PROVE  /\ Cardinality(new(i)) \in Nat /\ Cardinality(new(i)) <= Cardinality(new(Len(list)))
             /\ list[i] = 0 => Cardinality(new(i)) >= 1
  <2>1. i \in Nat /\ i >= 1 /\ i <= Len(list)
    BY <1>2
  <2>2. new(i) \subseteq new(Len(list))
    BY <1>2, <2>1
  <2>3. /\ IsFiniteSet(new(i)) /\ Cardinality(new(i)) \in Nat
        /\ Cardinality(new(i)) <= Cardinality(new(Len(list)))
    BY <1>3, <2>2, FS_Subset, FS_CardinalityType
  <2>4. ASSUME list[i] = 0
        PROVE  Cardinality(new(i)) # 0
    <3>1. i \in new(i)
      BY <2>1, <2>4
    <3> QED
      BY <2>3, <3>1, FS_EmptySet
  <2> HIDE DEF new
  <2> QED
    BY <2>3, <2>4
<1> QED
  BY <1>1, <1>3, <1>4

\* The options are saved: those with an id are the question's own, the others get ids that
\* no request and no answer has seen.
LEMMA AttachesOptions ==
    ASSUME QuestionsInv, NEW p \in Procs, UNCHANGED sjob, Q!AttachOptions(p)
    PROVE  QuestionsInv' /\ UNCHANGED question
<1> DEFINE j == qjob[p]
           id(i) == IF j.list[i] = 0 THEN drawn.option + Q!New(j.list, i) ELSE j.list[i]
           ids == {id(i) : i \in DOMAIN j.list}
<1>1. qpc[p] = "attach"
  BY DEF Q!AttachOptions
<1>2. CASE Q!Fail(p)
  BY <1>1, <1>2, QuestionFails DEF Saving
<1>3. CASE ~Q!Fail(p)
  <2>1. /\ j.list = <<>> \/ j.q \in Q!Present
        /\ ids \subseteq OptionIds
        /\ option' = [o \in OptionIds |->
                IF o \in ids
                THEN [of |-> j.q, order |-> CHOOSE i \in DOMAIN j.list : id(i) = o]
                ELSE option[o]]
        /\ drawn' = [drawn EXCEPT !.option = @ + Q!New(j.list, Len(j.list))]
        /\ Q!Goto(p, "idle", Q!NoJob)
        /\ UNCHANGED <<question, answers, loose, gapped>>
    BY <1>3 DEF Q!AttachOptions
  <2>2. /\ j.q \in QuestionIds /\ j.list \in Seq(OptionIds \cup {0})
        /\ j.row.kind \in Q!Selects => j.list # <<>>
        /\ j.q \in Q!Present \ loose => question[j.q].kind = j.row.kind
    BY <1>1 DEF QuestionsInv, Editing, Saving
  <2>3. /\ qpc' \in [Procs -> Q!PCs] /\ qjob' \in [Procs -> Q!Job] /\ qpc'[p] = "idle"
        /\ \A r \in Procs \ {p} : qpc'[r] = qpc[r] /\ qjob'[r] = qjob[r]
    <3>1. "idle" \in Q!PCs /\ Q!NoJob \in Q!Job
      BY NoQuestionJob DEF Q!PCs
    <3> QED
      BY <2>1, <3>1, QuestionGoes DEF QuestionsInv
  <2>4. /\ drawn.option \in Nat /\ drawn.question \in Nat /\ Q!New(j.list, Len(j.list)) \in Nat
        /\ drawn'.option = drawn.option + Q!New(j.list, Len(j.list))
        /\ drawn'.question = drawn.question /\ drawn' \in [question : Nat, option : Nat]
    <3>1. Q!New(j.list, Len(j.list)) \in Nat
      BY <2>2, NewEntries
    <3>2. /\ drawn.option \in Nat /\ drawn.question \in Nat
          /\ drawn = [question |-> drawn.question, option |-> drawn.option]
      BY QuestionTypes DEF QuestionsInv
    <3>3. drawn' = [question |-> drawn.question,
                    option |-> drawn.option + Q!New(j.list, Len(j.list))]
      BY <2>1, <3>2
    <3> QED
      BY <3>1, <3>2, <3>3
  <2>5. ASSUME NEW i \in DOMAIN j.list
        PROVE  /\ id(i) \in Nat /\ id(i) <= drawn'.option
               /\ id(i) > drawn.option \/ Claimed(id(i), j.q)
    <3>1. CASE j.list[i] = 0
      <4>1. /\ Q!New(j.list, i) \in Nat /\ Q!New(j.list, i) >= 1
            /\ Q!New(j.list, i) <= Q!New(j.list, Len(j.list))
        BY <2>2, <3>1, NewEntries
      <4> QED
        BY <2>4, <3>1, <4>1
    <3>2. CASE j.list[i] # 0
      <4>1. j.list[i] \in OptionIds
        BY <2>2, <3>2
      <4>2. Claimed(j.list[i], j.q)
        BY <1>1, <2>2 DEF Claimed, Handles
      <4>3. j.list[i] \in Nat /\ j.list[i] <= drawn.option
        BY <2>2, <4>1, <4>2, QuestionIdShape DEF QuestionsInv, Owned
      <4> QED
        BY <2>4, <3>2, <4>2, <4>3
    <3> QED
      BY <3>1, <3>2
  <2> HIDE DEF id
  <2>6. ASSUME NEW o \in ids
        PROVE  /\ o \in OptionIds /\ o <= drawn'.option
               /\ \A q \in QuestionIds : Claimed(o, q) => q = j.q
    <3>1. PICK i \in DOMAIN j.list : o = id(i)
      OBVIOUS
    <3>2. o \in OptionIds /\ o \in Nat
      BY <2>1, QuestionIdShape
    <3>3. ASSUME NEW q \in QuestionIds, Claimed(o, q)
          PROVE  q = j.q
      <4>1. o <= drawn.option /\ \A r \in QuestionIds : Claimed(o, r) => r = q
        BY <3>2, <3>3 DEF QuestionsInv, Owned
      <4> QED
        BY <2>2, <2>4, <2>5, <3>1, <3>2, <4>1
    <3> QED
      BY <2>5, <3>1, <3>2, <3>3
  <2>7. ASSUME NEW o \in ids
        PROVE  option'[o] \in Q!Option /\ option'[o].of = j.q
    <3>1. PICK i \in DOMAIN j.list : o = id(i)
      OBVIOUS
    <3>2. (CHOOSE n \in DOMAIN j.list : id(n) = o) \in DOMAIN j.list
      BY <3>1
    <3>3. DOMAIN j.list \subseteq Nat
      BY <2>2
    <3>4. option'[o] = [of |-> j.q, order |-> CHOOSE n \in DOMAIN j.list : id(n) = o]
      BY <2>1
    <3> QED
      BY <2>2, <3>2, <3>3, <3>4 DEF Q!Option
  <2>8. \A o \in OptionIds \ ids : option'[o] = option[o]
    BY <2>1
  <2>9. ids # {} => j.q \in Q!Present
    BY <2>1
  <2>10. DOMAIN option' = OptionIds /\ \A o \in OptionIds : option'[o] \in Q!Option
    <3>1. DOMAIN option' = OptionIds
      BY <2>1
    <3>2. \A o \in OptionIds : option[o] \in Q!Option
      BY QuestionTypes DEF QuestionsInv
    <3> QED
      BY <2>7, <2>8, <3>1, <3>2
  <2>11. j.list # <<>> => ids # {}
    BY <2>2
  <2>12. option' = [o \in OptionIds |-> option'[o]]
    BY <2>1
  <2> HIDE DEF ids
  <2>13. Q!Present' = Q!Present
    BY <2>1 DEF Q!Present
  <2>14. Q!QuestionTypeOK'
    <3>1. option' \in [OptionIds -> Q!Option]
      BY <2>10, <2>12
    <3>2. \A o \in OptionIds : option'[o].of # 0 => option'[o].of \in Q!Present
      BY <2>7, <2>8, <2>9 DEF QuestionsInv, Q!QuestionTypeOK
    <3> QED
      BY <2>1, <2>3, <2>4, <2>13, <3>1, <3>2 DEF QuestionsInv, Q!QuestionTypeOK
  <2>15. Q!AnswersFit'
    <3>1. ASSUME NEW a \in answers, a.option # 0
          PROVE  option'[a.option].of = a.question
      <4>1. a.option \in OptionIds /\ a.question \in QuestionIds
        BY <3>1 DEF QuestionsInv, Q!QuestionTypeOK, Q!Answer
      <4>2. option[a.option].of = a.question
        BY <3>1 DEF QuestionsInv, FormAnswerable, Q!AnswersFit
      <4>3. Claimed(a.option, a.question)
        BY <4>2 DEF Claimed
      <4> QED
        BY <2>6, <2>7, <2>8, <4>1, <4>2, <4>3
    <3> QED
      BY <2>1, <2>13, <3>1 DEF QuestionsInv, FormAnswerable, Q!AnswersFit
  <2>16. Q!ChoiceHasOptions'
    <3>1. ASSUME NEW q \in Q!Present \ loose, question[q].kind \in Q!Selects,
                 Q!Attaching(q)' = {}
          PROVE  Q!OptionsOf(q)' # {}
      <4>1. CASE q = j.q
        <5>1. PICK o \in ids : TRUE
          BY <2>2, <2>11, <3>1, <4>1
        <5> QED
          BY <2>6, <2>7, <4>1, <5>1 DEF Q!OptionsOf
      <4>2. CASE q # j.q
        <5>1. Q!Attaching(q) = {}
          BY <2>3, <3>1, <4>2 DEF Q!Attaching
        <5>2. PICK o \in Q!OptionsOf(q) : TRUE
          BY <3>1, <5>1 DEF QuestionsInv, FormAnswerable, Q!ChoiceHasOptions
        <5>3. o \in OptionIds /\ Claimed(o, q)
          BY <5>2 DEF Q!OptionsOf, Claimed
        <5>4. o \notin ids
          BY <2>6, <4>2, <5>3, QuestionIdShape
        <5> QED
          BY <2>8, <5>2, <5>3, <5>4 DEF Q!OptionsOf
      <4> QED
        BY <4>1, <4>2
    <3> QED
      BY <2>1, <2>13, <3>1 DEF Q!ChoiceHasOptions
  <2>17. ASSUME NEW o \in OptionIds, NEW q \in QuestionIds, Claimed(o, q)'
         PROVE  Claimed(o, q) \/ (o \in ids /\ q = j.q)
    <3>1. ASSUME NEW r \in Procs, Handles(r, o, q)'
          PROVE  Handles(r, o, q)
      <4>1. r # p
        BY <2>3, <3>1 DEF Handles
      <4> QED
        BY <2>3, <3>1, <4>1 DEF Handles
    <3> QED
      BY <2>7, <2>8, <2>17, <3>1 DEF Claimed, Answering
  <2>18. Owned'
    <3>1. ASSUME NEW o \in OptionIds, NEW q \in QuestionIds, Claimed(o, q)'
          PROVE  o <= drawn'.option /\ \A r \in QuestionIds : Claimed(o, r)' => r = q
      <4>1. CASE o \in ids
        BY <2>6, <2>17, <3>1, <4>1
      <4>2. CASE o \notin ids
        <5>1. o <= drawn.option /\ \A r \in QuestionIds : Claimed(o, r) => r = q
          BY <2>17, <3>1, <4>2 DEF QuestionsInv, Owned
        <5>2. o <= drawn'.option
          BY <2>4, <5>1, QuestionIdShape
        <5> QED
          BY <2>17, <4>2, <5>1, <5>2
      <4> QED
        BY <4>1, <4>2
    <3> QED
      BY <3>1 DEF Owned
  <2>19. Numbered'
    BY <2>1, <2>4, <2>13 DEF QuestionsInv, Numbered
  <2>20. Editing(p)'
    BY <2>3 DEF Editing, Saving
  <2>21. ASSUME NEW r \in Procs \ {p}
         PROVE  Editing(r)'
    <3>1. Editing(r)
      BY DEF QuestionsInv
    <3> QED
      BY <2>1, <2>3, <2>4, <2>13, <3>1 DEF Editing
  <2> QED
    BY <2>1, <2>14, <2>15, <2>16, <2>18, <2>19, <2>20, <2>21 DEF QuestionsInv, FormAnswerable
<1> QED
  BY <1>2, <1>3

\* The numbers a reordering gives: each question of the list its place, the others a number
\* out of the way, which no place meets.
LEMMA MovesQuestions ==
    ASSUME QuestionsInv, NEW p \in Procs, UNCHANGED sjob, Q!MoveQuestions(p)
    PROVE  /\ QuestionsInv'
           /\ Q!Present' = Q!Present
<1> DEFINE list == qjob[p].list
           listed == {list[i] : i \in DOMAIN list}
           number(q) == IF q \in listed THEN Q!Place(list, q) ELSE question[q].order + Q!Shift
<1>1. qpc[p] = "order"
  BY DEF Q!MoveQuestions
<1>2. CASE Q!Quit(p)
  <2>1. /\ Q!Goto(p, "idle", Q!NoJob)
        /\ UNCHANGED <<question, option, drawn, answers, gapped, loose>>
    BY <1>2 DEF Q!Quit, Q!Still
  <2>2. Q!Present' = Q!Present
    BY <2>1 DEF Q!Present
  <2> QED
    BY <1>1, <2>1, <2>2, QuestionQuits DEF Saving
<1>3. CASE ~Q!Quit(p)
  <2>1. /\ ~(\E i \in DOMAIN list, r \in Q!Present :
                question[r].order + Q!Shift = i /\ (r \in listed => Q!Place(list, r) > i))
        /\ question' = [q \in QuestionIds |->
                IF q \in Q!Present THEN [question[q] EXCEPT !.order = number(q)]
                ELSE question[q]]
        /\ gapped' = IF Q!Present = listed THEN gapped ELSE 1
        /\ Q!Goto(p, "idle", Q!NoJob)
        /\ UNCHANGED <<option, drawn, answers, loose>>
    BY <1>3 DEF Q!MoveQuestions
  <2>2. /\ list \in Seq(QuestionIds)
        /\ \A i, k \in DOMAIN list : list[i] = list[k] => i = k
    BY <1>1 DEF QuestionsInv, Editing
  <2>3. /\ qpc' \in [Procs -> Q!PCs] /\ qjob' \in [Procs -> Q!Job] /\ qpc'[p] = "idle"
        /\ \A r \in Procs \ {p} : qpc'[r] = qpc[r] /\ qjob'[r] = qjob[r]
    <3>1. "idle" \in Q!PCs /\ Q!NoJob \in Q!Job
      BY NoQuestionJob DEF Q!PCs
    <3> QED
      BY <2>1, <3>1, QuestionGoes DEF QuestionsInv
  <2>4. /\ Len(list) \in Nat /\ DOMAIN list = 1..Len(list)
    BY <2>2
  <2>5. \A q \in listed : Q!Place(list, q) \in DOMAIN list /\ list[Q!Place(list, q)] = q
    BY DEF Q!Place
  <2>6. ASSUME NEW q \in Q!Present
        PROVE  number(q) \in Nat /\ question[q] \in Q!Question /\ question[q].order \in Nat
    <3>1. question[q].order \in Nat /\ question[q] \in Q!Question
      BY QuestionTypes, QuestionIdShape DEF QuestionsInv
    <3>2. CASE q \in listed
      BY <2>4, <2>5, <3>1, <3>2
    <3>3. CASE q \notin listed
      BY <3>1, <3>3 DEF Q!Shift
    <3> QED
      BY <3>1, <3>2, <3>3
  <2>7. ASSUME NEW q \in Q!Present, NEW r \in Q!Present, q # r
        PROVE  number(q) # number(r)
    <3>1. question[q].order # question[r].order
      BY <2>7 DEF QuestionsInv, Q!QuestionTypeOK
    <3>2. CASE q \in listed /\ r \in listed
      BY <2>5, <2>7, <3>2
    <3>3. CASE q \notin listed /\ r \notin listed
      BY <2>6, <3>1, <3>3 DEF Q!Shift
    <3>4. CASE q \in listed /\ r \notin listed
      BY <2>1, <2>5, <3>4
    <3>5. CASE q \notin listed /\ r \in listed
      BY <2>1, <2>5, <3>5
    <3> QED
      BY <3>2, <3>3, <3>4, <3>5
  <2>8. \A q \in Q!Present : q \in listed => number(q) <= Len(list)
    BY <2>4, <2>5
  <2> HIDE DEF number
  <2>9. ASSUME NEW q \in Q!Present
        PROVE  /\ question'[q] \in Q!Question /\ question'[q].order = number(q)
               /\ question'[q].kind = question[q].kind /\ question'[q].there = 1
    <3>1. question'[q] = [question[q] EXCEPT !.order = number(q)]
      BY <2>1, QuestionIdShape
    <3>2. question[q].there = 1
      BY DEF Q!Present
    <3> QED
      BY <2>6, <3>1, <3>2 DEF Q!Question
  <2>10. \A q \in QuestionIds \ Q!Present : question'[q] = question[q]
    BY <2>1
  <2>11. question' = [q \in QuestionIds |-> question'[q]]
    BY <2>1
  <2>12. Q!Present' = Q!Present
    BY <2>9, <2>10 DEF Q!Present
  <2>13. gapped' \in {0, 1} /\ (gapped' = 0 => gapped = 0 /\ Q!Present = listed)
    BY <2>1, QuestionTypes DEF QuestionsInv
  <2>14. Q!QuestionTypeOK'
    <3>1. \A q \in QuestionIds : question'[q] \in Q!Question
      BY <2>9, <2>10, QuestionTypes DEF QuestionsInv
    <3>2. question' \in [QuestionIds -> Q!Question]
      BY <2>11, <3>1
    <3>3. \A q, r \in Q!Present : q # r => question'[q].order # question'[r].order
      BY <2>7, <2>9
    <3> QED
      BY <2>1, <2>3, <2>12, <2>13, <3>2, <3>3 DEF QuestionsInv, Q!QuestionTypeOK
  <2>15. Q!AnswersFit'
    BY <2>1, <2>12 DEF QuestionsInv, FormAnswerable, Q!AnswersFit
  <2>16. Q!ChoiceHasOptions'
    <3>1. ASSUME NEW q \in Q!Present \ loose, question'[q].kind \in Q!Selects,
                 Q!Attaching(q)' = {}
          PROVE  Q!OptionsOf(q)' # {}
      <4>1. Q!Attaching(q) = {}
        BY <1>1, <2>3, <3>1 DEF Q!Attaching
      <4> QED
        BY <2>1, <2>9, <3>1, <4>1
        DEF QuestionsInv, FormAnswerable, Q!ChoiceHasOptions, Q!OptionsOf
    <3> QED
      BY <2>1, <2>12, <3>1 DEF Q!ChoiceHasOptions
  <2>17. Owned'
    <3>1. ASSUME NEW o \in OptionIds, NEW q \in QuestionIds, Claimed(o, q)'
          PROVE  Claimed(o, q)
      <4>1. ASSUME NEW r \in Procs, Handles(r, o, q)'
            PROVE  Handles(r, o, q)
        BY <2>3, <4>1 DEF Handles
      <4> QED
        BY <2>1, <3>1, <4>1 DEF Claimed, Answering
    <3>2. drawn'.option \in Nat /\ drawn.option <= drawn'.option
      BY <2>1, QuestionTypes DEF QuestionsInv
    <3> QED
      BY <3>1, <3>2, StillOwned DEF QuestionsInv
  <2>18. Numbered'
    <3>1. ASSUME gapped' = 0, NEW q \in Q!Present
          PROVE  question'[q].order <= Cardinality(Q!Present)
      <4>1. Q!Present = listed
        BY <2>13, <3>1
      <4>2. list \in [1..Len(list) -> Q!Present]
        BY <2>2, <2>4, <4>1
      <4>3. IsFiniteSet(1..Len(list)) /\ Cardinality(1..Len(list)) = Len(list)
        BY <2>4, FS_Interval
      <4>4. Len(list) <= Cardinality(Q!Present)
        <5>1. IsInjective(list)
          BY <2>2 DEF IsInjective
        <5>2. list \in Injection(1..Len(list), Q!Present)
          BY <4>2, <5>1 DEF Injection
        <5> HIDE DEF list
        <5> QED
          BY <4>3, <5>2, QuestionIdShape, FS_Injection
      <4>5. number(q) <= Len(list) /\ number(q) \in Nat /\ Cardinality(Q!Present) \in Nat
        BY <2>6, <2>8, <4>1, QuestionIdShape
      <4> QED
        BY <2>4, <2>9, <4>4, <4>5
    <3> QED
      BY <2>1, <2>12, <3>1 DEF QuestionsInv, Numbered
  <2>19. Editing(p)'
    BY <2>3 DEF Editing, Saving
  <2>20. ASSUME NEW r \in Procs \ {p}
         PROVE  Editing(r)'
    <3>1. Editing(r) /\ drawn'.question \in Nat /\ drawn.question <= drawn'.question
      BY <2>1, QuestionTypes DEF QuestionsInv
    <3> QED
      BY <2>1, <2>3, <2>9, <2>12, <2>13, <3>1, StillEditing DEF QuestionsInv
  <2> QED
    BY <2>1, <2>12, <2>14, <2>15, <2>16, <2>17, <2>18, <2>19, <2>20
    DEF QuestionsInv, FormAnswerable
<1> QED
  BY <1>2, <1>3

\* A question goes with its options, and no answer named one of them.
LEMMA DeletesQuestion ==
    ASSUME QuestionsInv, NEW p \in Procs, NEW q \in QuestionIds, UNCHANGED sjob,
           Q!DeleteQuestion(p, q)
    PROVE  /\ QuestionsInv'
           /\ Q!Present' \subseteq Q!Present
<1>1. /\ q \in Q!Present /\ \A a \in answers : a.question # q
      /\ question' = [question EXCEPT ![q] = Q!NoQuestion]
      /\ option' = [o \in OptionIds |-> IF option[o].of = q THEN Q!NoOption ELSE option[o]]
      /\ gapped' = 1
      /\ UNCHANGED <<drawn, answers, qpc, qjob, loose>>
  BY DEF Q!DeleteQuestion
<1>2. /\ question' \in [QuestionIds -> Q!Question] /\ question'[q].there = 0
      /\ \A r \in QuestionIds \ {q} : question'[r] = question[r]
  BY <1>1, NoQuestionJob, QuestionTypes DEF QuestionsInv
<1>3. Q!Present' = Q!Present \ {q}
  BY <1>2 DEF Q!Present
<1>4. /\ option' \in [OptionIds -> Q!Option]
      /\ \A o \in OptionIds : option'[o].of # 0 => option'[o] = option[o] /\ option[o].of # q
      /\ \A o \in OptionIds : option[o].of # q => option'[o] = option[o]
  BY <1>1, NoQuestionJob, QuestionTypes DEF QuestionsInv
<1>5. Q!QuestionTypeOK'
  <2>1. \A o \in OptionIds : option'[o].of # 0 => option'[o].of \in Q!Present'
    BY <1>3, <1>4 DEF QuestionsInv, Q!QuestionTypeOK
  <2>2. \A r, s \in Q!Present' : r # s => question'[r].order # question'[s].order
    BY <1>2, <1>3, QuestionIdShape DEF QuestionsInv, Q!QuestionTypeOK
  <2> QED
    BY <1>1, <1>2, <1>4, <2>1, <2>2 DEF QuestionsInv, Q!QuestionTypeOK
<1>6. Q!AnswersFit'
  <2>1. ASSUME NEW a \in answers, a.option # 0
        PROVE  option'[a.option].of = a.question
    <3>1. a.option \in OptionIds
      BY <2>1 DEF QuestionsInv, Q!QuestionTypeOK, Q!Answer
    <3>2. option[a.option].of = a.question /\ a.question # q
      BY <1>1, <2>1 DEF QuestionsInv, FormAnswerable, Q!AnswersFit
    <3> QED
      BY <1>4, <3>1, <3>2
  <2> QED
    BY <1>1, <1>3, <2>1 DEF QuestionsInv, FormAnswerable, Q!AnswersFit
<1>7. Q!ChoiceHasOptions'
  <2>1. ASSUME NEW r \in Q!Present' \ loose, question'[r].kind \in Q!Selects,
               Q!Attaching(r)' = {}
        PROVE  Q!OptionsOf(r)' # {}
    <3>1. r \in Q!Present \ loose /\ r # q /\ question[r].kind \in Q!Selects
      BY <1>2, <1>3, <2>1, QuestionIdShape
    <3>2. Q!Attaching(r) = {}
      BY <1>1, <2>1 DEF Q!Attaching
    <3>3. PICK o \in Q!OptionsOf(r) : TRUE
      BY <3>1, <3>2 DEF QuestionsInv, FormAnswerable, Q!ChoiceHasOptions
    <3> QED
      BY <1>4, <3>1, <3>3 DEF Q!OptionsOf
  <2> QED
    BY <1>1, <2>1 DEF Q!ChoiceHasOptions
<1>8. Owned'
  <2>1. ASSUME NEW o \in OptionIds, NEW r \in QuestionIds, Claimed(o, r)'
        PROVE  Claimed(o, r)
    <3>1. \A s \in Procs : Handles(s, o, r)' => Handles(s, o, r)
      BY <1>1 DEF Handles
    <3>2. option'[o].of = r => option[o].of = r
      BY <1>4, QuestionIdShape
    <3> QED
      BY <2>1, <3>1, <3>2 DEF Claimed, Answering
  <2>2. drawn'.option \in Nat /\ drawn.option <= drawn'.option
    BY <1>1, QuestionTypes DEF QuestionsInv
  <2> QED
    BY <2>1, <2>2, StillOwned DEF QuestionsInv
<1>9. Numbered'
  BY <1>1, <1>3 DEF QuestionsInv, Numbered
<1>10. ASSUME NEW r \in Procs
       PROVE  Editing(r)'
  <2>1. Editing(r) /\ drawn'.question \in Nat /\ drawn.question <= drawn'.question
    BY <1>1, QuestionTypes DEF QuestionsInv
  <2>2. \A s \in Q!Present' \ loose' : s \in Q!Present \ loose /\ question'[s].kind = question[s].kind
    BY <1>1, <1>2, <1>3, QuestionIdShape
  <2> QED
    BY <1>1, <2>1, <2>2, StillEditing DEF QuestionsInv
<1> QED
  BY <1>3, <1>5, <1>6, <1>7, <1>8, <1>9, <1>10 DEF QuestionsInv, FormAnswerable

\* What administrators do to the questions keeps the invariant, and a question appears only
\* while the survey of the form exists.
LEMMA QuestionsMove ==
    ASSUME QuestionsInv, NEW p \in Procs, UNCHANGED sjob,
           Q!QuestionRequest(p) \/ Q!QuestionStep(p)
    PROVE  /\ QuestionsInv'
           /\ Q!Present' \subseteq Q!Present \/ survey[Main] # C!None
<1>1. CASE Q!QuestionRequest(p)
  <2>1. ASSUME NEW k \in Kinds, NEW list \in Q!Lists, Q!CreateQuestion(p, k[1], k[2], list)
        PROVE  QuestionsInv' /\ UNCHANGED question
    BY <2>1, CreatesQuestion
  <2>2. ASSUME NEW q \in QuestionIds, NEW k \in Kinds, NEW list \in Q!Lists, NEW given1 \in {0, 1},
               Q!UpdateQuestion(p, q, k[1], k[2], given1, list)
        PROVE  QuestionsInv' /\ UNCHANGED question
    BY <2>2, UpdatesQuestion
  <2>3. ASSUME NEW list \in Q!Orders, Q!ReorderQuestions(p, list)
        PROVE  QuestionsInv' /\ UNCHANGED question
    BY <2>3, ReordersQuestions
  <2>4. ASSUME NEW q \in QuestionIds, Q!DeleteQuestion(p, q)
        PROVE  QuestionsInv' /\ Q!Present' \subseteq Q!Present
    BY <2>4, DeletesQuestion
  <2>5. UNCHANGED question => Q!Present' = Q!Present
    BY DEF Q!Present
  <2> QED
    BY <1>1, <2>1, <2>2, <2>3, <2>4, <2>5 DEF Q!QuestionRequest
<1>2. CASE Q!QuestionStep(p)
  <2>1. UNCHANGED question => Q!Present' = Q!Present
    BY DEF Q!Present
  <2> QED
    BY <1>2, <2>1, InsertsQuestion, StoresQuestion, ReadsOptions, PrunesOptions,
       AttachesOptions, MovesQuestions DEF Q!QuestionStep
<1> QED
  BY <1>1, <1>2

-----------------------------------------------------------------------------
(* Form: submissions. *)

\* A valid answer that names an option names one of its question.
LEMMA ValidAnswer ==
    ASSUME Q!QuestionTypeOK, NEW A, Q!ValidAnswers(A), NEW a \in A, a.option # 0
    PROVE  a.question \in Q!Present /\ a.option \in Q!OptionsOf(a.question)
<1> DEFINE q == a.question
           mine == {b.option : b \in {b \in A : b.question = q}}
<1>1. q \in Q!Present
  BY DEF Q!ValidAnswers
<1>2. a.option \in mine
  OBVIOUS
<1>3. question[q].kind \in {"SUBJECTIVE", "SINGLE_SELECT", "MULTI_SELECT"}
  BY <1>1, QuestionTypes, QuestionIdShape DEF Q!Question, Q!Selects
<1>4. CASE question[q].kind = "SUBJECTIVE"
  BY <1>1, <1>2, <1>4 DEF Q!ValidAnswers
<1>5. CASE question[q].kind # "SUBJECTIVE"
  <2>1. mine \subseteq Q!OptionsOf(q)
    BY <1>1, <1>3, <1>5 DEF Q!ValidAnswers
  <2> QED
    BY <1>1, <1>2, <2>1
<1> QED
  BY <1>4, <1>5

\* A request that takes a submission: the options its answers name are known as options of
\* their questions.
LEMMA AnswersTaken ==
    ASSUME QuestionsInv, NEW p \in Procs, NEW j \in Submission, Take(p, j),
           sjob \in [Procs -> Submission],
           \A a \in j.answers : a.option # 0 => Claimed(a.option, a.question)
    PROVE  QuestionsInv'
<1>1. /\ UNCHANGED <<question, option, drawn, answers, qpc, qjob, loose, gapped>>
      /\ sjob' = [sjob EXCEPT ![p] = j]
  BY DEF Take, QuestionsStill, questions
<1>2. Q!Present' = Q!Present
  BY <1>1 DEF Q!Present
<1>3. Q!QuestionTypeOK' /\ Numbered'
  BY <1>1, <1>2 DEF QuestionsInv, Q!QuestionTypeOK, Numbered
<1>4. FormAnswerable'
  BY <1>1, <1>2 DEF QuestionsInv, FormAnswerable, Q!AnswersFit, Q!ChoiceHasOptions, Q!Attaching,
                    Q!OptionsOf
<1>5. \A r \in Procs : Editing(r)'
  BY <1>1, <1>2 DEF QuestionsInv, Editing
<1>6. Owned'
  <2>1. ASSUME NEW o \in OptionIds, NEW q \in QuestionIds, Claimed(o, q)'
        PROVE  Claimed(o, q)
    <3>1. ASSUME NEW r \in Procs, Answering(r, o, q)'
          PROVE  Claimed(o, q)
      <4>1. CASE r = p
        <5>1. \E a \in j.answers : a.question = q /\ a.option = o
          BY <1>1, <3>1, <4>1 DEF Answering
        <5> QED
          BY <5>1, QuestionIdShape
      <4>2. CASE r # p
        BY <1>1, <3>1, <4>2 DEF Answering, Claimed
      <4> QED
        BY <4>1, <4>2
    <3>2. ASSUME NEW r \in Procs, Handles(r, o, q)'
          PROVE  Claimed(o, q)
      BY <1>1, <3>2 DEF Handles, Claimed
    <3> QED
      BY <1>1, <2>1, <3>1, <3>2 DEF Claimed
  <2>2. drawn'.option \in Nat /\ drawn.option <= drawn'.option
    BY <1>1, QuestionTypes DEF QuestionsInv
  <2> QED
    BY <2>1, <2>2, StillOwned DEF QuestionsInv
<1> QED
  BY <1>3, <1>4, <1>5, <1>6 DEF QuestionsInv

\* The foreign keys let in answers to questions and options that are there; an option that
\* was one of the question when the submission was validated is one still.
LEMMA AnswersStored ==
    ASSUME QuestionsInv, NEW p \in Procs, Store(p), sjob \in [Procs -> Submission]
    PROVE  QuestionsInv'
<1> DEFINE j == sjob[p]
<1>1. /\ UNCHANGED <<question, option, drawn, qpc, qjob, loose, gapped>>
      /\ sjob' = [sjob EXCEPT ![p] = NoSubmission]
  BY DEF Store, questions
<1>2. \/ answers' = answers
      \/ Q!Answerable(j.answers) /\ answers' \subseteq answers \cup j.answers
  BY DEF Store, Replaced
<1>3. Q!Present' = Q!Present
  BY <1>1 DEF Q!Present
<1>4. j.answers \subseteq Q!Answer
  BY DEF Submission
<1>5. answers' \subseteq Q!Answer
  BY <1>2, <1>4, QuestionTypes DEF QuestionsInv
<1>6. Q!QuestionTypeOK' /\ Numbered'
  BY <1>1, <1>3, <1>5 DEF QuestionsInv, Q!QuestionTypeOK, Numbered
<1>7. Q!AnswersFit'
  <2>1. ASSUME NEW a \in answers'
        PROVE  a.question \in Q!Present /\ (a.option # 0 => option[a.option].of = a.question)
    <3>1. CASE a \in answers
      BY <3>1 DEF QuestionsInv, FormAnswerable, Q!AnswersFit
    <3>2. CASE a \notin answers
      <4>1. a \in j.answers /\ a.question \in Q!Present
            /\ (a.option # 0 => option[a.option].of # 0)
        BY <1>2, <2>1, <3>2 DEF Q!Answerable
      <4>2. ASSUME a.option # 0
            PROVE  option[a.option].of = a.question
        <5>1. a.option \in OptionIds /\ a.question \in QuestionIds
          BY <1>4, <4>1, <4>2 DEF Q!Answer
        <5>2. Claimed(a.option, a.question)
          BY <4>1 DEF Claimed, Answering
        <5>3. option[a.option].of \in QuestionIds
          BY <4>1, <4>2, <5>1, QuestionTypes DEF QuestionsInv
        <5>4. Claimed(a.option, option[a.option].of)
          BY DEF Claimed
        <5> QED
          BY <5>1, <5>2, <5>3, <5>4 DEF QuestionsInv, Owned
      <4> QED
        BY <4>1, <4>2
    <3> QED
      BY <3>1, <3>2
  <2> QED
    BY <1>1, <1>3, <2>1 DEF Q!AnswersFit
<1>8. Q!ChoiceHasOptions'
  BY <1>1, <1>3 DEF QuestionsInv, FormAnswerable, Q!ChoiceHasOptions, Q!Attaching, Q!OptionsOf
<1>9. \A r \in Procs : Editing(r)'
  BY <1>1, <1>3 DEF QuestionsInv, Editing
<1>10. Owned'
  <2>1. ASSUME NEW o \in OptionIds, NEW q \in QuestionIds, Claimed(o, q)'
        PROVE  Claimed(o, q)
    <3>1. ASSUME NEW r \in Procs, Answering(r, o, q)'
          PROVE  Answering(r, o, q)
      <4>1. r # p
        BY <1>1, <3>1 DEF Answering, NoSubmission
      <4> QED
        BY <1>1, <3>1, <4>1 DEF Answering
    <3>2. ASSUME NEW r \in Procs, Handles(r, o, q)'
          PROVE  Handles(r, o, q)
      BY <1>1, <3>2 DEF Handles
    <3> QED
      BY <1>1, <2>1, <3>1, <3>2 DEF Claimed
  <2>2. drawn'.option \in Nat /\ drawn.option <= drawn'.option
    BY <1>1, QuestionTypes DEF QuestionsInv
  <2> QED
    BY <2>1, <2>2, StillOwned DEF QuestionsInv
<1> QED
  BY <1>6, <1>7, <1>8, <1>9, <1>10 DEF QuestionsInv, FormAnswerable

\* Every request is counted once, when it begins.
LEMMA RequestsCounted ==
    ASSUME NEW p \in Procs
    PROVE  /\ Q!QuestionRequest(p) => requests < MaxRequests /\ requests' = requests + 1
           /\ Q!QuestionStep(p) => requests' = requests
           /\ C!CatalogueRequest(p) => requests < MaxRequests /\ requests' = requests + 1
           /\ \A asked : C!CatalogueStep(p, asked) => requests' = requests
<1>1. Q!QuestionRequest(p) => requests < MaxRequests /\ requests' = requests + 1
  BY DEF Q!QuestionRequest, Q!CreateQuestion, Q!UpdateQuestion, Q!ReorderQuestions,
         Q!DeleteQuestion, Q!Begin
<1>2. Q!QuestionStep(p) => requests' = requests
  <2>1. Q!Quit(p) \/ Q!Fail(p) => requests' = requests
    BY DEF Q!Quit, Q!Fail
  <2>2. Q!InsertQuestion(p) \/ Q!StoreQuestion(p) \/ Q!MoveQuestions(p) => requests' = requests
    BY <2>1 DEF Q!InsertQuestion, Q!StoreQuestion, Q!MoveQuestions
  <2>3. Q!ReadOptions(p) \/ Q!PruneOptions(p) \/ Q!AttachOptions(p) => requests' = requests
    BY <2>1 DEF Q!ReadOptions, Q!PruneOptions, Q!AttachOptions
  <2> QED
    BY <2>2, <2>3 DEF Q!QuestionStep
<1>3. C!CatalogueRequest(p) => requests < MaxRequests /\ requests' = requests + 1
  BY DEF C!CatalogueRequest, C!MealRequest, C!TransportRequest, C!SurveyRequest,
         C!RetreatRequest, C!CreateMeal, C!UpdateMeal, C!DeleteMeal, C!CreateTransport,
         C!UpdateTransport, C!DeleteTransport, C!CreateSurvey, C!UpdateSurveyPeriod,
         C!DeleteSurvey, C!CreateRetreat, C!UpdateRetreat, C!DeleteRetreat, C!Look, C!Begin
<1>4. ASSUME NEW asked, C!CatalogueStep(p, asked)
      PROVE  requests' = requests
  <2>1. C!Quit(p) \/ C!End(p) => requests' = requests
    BY DEF C!Quit, C!End
  <2> QED
    BY <1>4, <2>1 DEF C!CatalogueStep, C!InsertMeal, C!SaveMeal, C!RemoveMeal, C!InsertTransport,
       C!SaveTransport, C!RemoveTransport, C!InsertSurvey, C!SavePeriod, C!RemoveSurvey,
       C!SaveRetreat, C!RemoveRetreat
<1> QED
  BY <1>1, <1>2, <1>3, <1>4

\* What is left of the state, and the rule between the two parts: while the form has a
\* question its survey is there.
SubmissionsInv ==
    /\ spc \in [Procs -> {"idle", "write"}]
    /\ sjob \in [Procs -> Submission]
    /\ \A p \in Procs : spc[p] = "write" => sjob[p].user \in Users
    /\ requests \in 0..MaxRequests
    /\ Q!Present # {} => survey[Main] # C!None

FormInv == QuestionsInv /\ CatalogueInv /\ SubmissionsInv

LEMMA QuestionsUnchanged ==
    ASSUME QuestionsInv, UNCHANGED <<question, option, drawn, answers, qpc, qjob, loose, gapped, sjob>>
    PROVE  QuestionsInv' /\ Q!Present' = Q!Present
<1>1. Q!Present' = Q!Present
  BY DEF Q!Present
<1>2. Q!QuestionTypeOK' /\ Numbered'
  BY <1>1 DEF QuestionsInv, Q!QuestionTypeOK, Numbered
<1>3. FormAnswerable'
  BY <1>1 DEF QuestionsInv, FormAnswerable, Q!AnswersFit, Q!ChoiceHasOptions, Q!Attaching,
              Q!OptionsOf
<1>4. \A r \in Procs : Editing(r)'
  BY <1>1 DEF QuestionsInv, Editing
<1>5. Owned'
  BY DEF QuestionsInv, Owned, Claimed, Handles, Answering
<1> QED
  BY <1>1, <1>2, <1>3, <1>4, <1>5 DEF QuestionsInv

LEMMA CatalogueUnchanged ==
    ASSUME CatalogueInv, UNCHANGED <<retreat, survey, meal, ride, given, chosen, riding, applied,
                                     cpc, cjob, wanted, late, overwritten, edited, sjob>>
    PROVE  CatalogueInv'
<1>1. C!CatalogueTypeOK' /\ ChoicesHold' /\ PeriodsStand'
  BY DEF CatalogueInv, C!CatalogueTypeOK, C!Forms, ChoicesHold, PeriodsStand, C!ChosenExist,
         C!DirectionsMatch, C!PeriodsStand
<1>2. \A r \in Procs : Arranging(r)' /\ Boarding(r)'
  BY DEF CatalogueInv, Arranging, Boarding
<1> QED
  BY <1>1, <1>2 DEF CatalogueInv

\* A request that takes a submission.
LEMMA Taken ==
    ASSUME FormInv, NEW p \in Procs, NEW j \in Submission, Take(p, j), Free(p),
           j.user \in Users,
           \A a \in j.answers : a.option # 0 => Claimed(a.option, a.question),
           \A c \in j.rides :
                c.user = j.user /\ c.ride <= given.ride /\ c.direction = ride[c.ride].direction,
           \A c, d \in j.rides : c # d => c.direction # d.direction
    PROVE  FormInv'
<1>1. /\ spc' = [spc EXCEPT ![p] = "write"] /\ sjob' = [sjob EXCEPT ![p] = j]
      /\ requests' = requests + 1 /\ requests < MaxRequests
      /\ UNCHANGED <<question, survey>>
  BY DEF Take, QuestionsStill, questions, catalogue, Free
<1>2. sjob \in [Procs -> Submission] /\ requests \in 0..MaxRequests
  BY DEF FormInv, SubmissionsInv
<1>3. QuestionsInv'
  BY <1>2, AnswersTaken DEF FormInv
<1>4. CatalogueInv'
  <2>1. PICK u : u = j.user
    OBVIOUS
  <2> QED
    BY <1>2, RidesTaken DEF FormInv
<1>5. requests' \in 0..MaxRequests
  BY <1>1, <1>2, FormAssumption
<1>6. Q!Present' = Q!Present
  BY <1>1 DEF Q!Present
<1>7. /\ spc' \in [Procs -> {"idle", "write"}] /\ sjob' \in [Procs -> Submission]
      /\ \A r \in Procs : spc'[r] = "write" => sjob'[r].user \in Users
  BY <1>1 DEF FormInv, SubmissionsInv
<1> QED
  BY <1>1, <1>3, <1>4, <1>5, <1>6, <1>7 DEF FormInv, SubmissionsInv

LEMMA Submits ==
    ASSUME FormInv, NEW p \in Procs, NEW u \in Users, NEW A \in Sheets,
           NEW M \in SUBSET MealIds, NEW c \in SUBSET C!Command, C!ValidRides(c), Free(p),
           Submit(p, u, A, M, c)
    PROVE  FormInv'
<1> DEFINE mine == {[user |-> u, question |-> a.question, option |-> a.option] : a \in A}
           j == [user |-> u, parts |-> Parts, meals |-> M, rides |-> C!AsStored(u, c),
                 answers |-> mine]
<1>1. Q!ValidAnswers(A) /\ Take(p, j)
  BY DEF Submit
<1>2. /\ C!AsStored(u, c) \subseteq C!Riding
      /\ \A a \in C!AsStored(u, c) :
            a.user = u /\ a.ride <= given.ride /\ a.direction = ride[a.ride].direction
      /\ \A a, b \in C!AsStored(u, c) : a # b => a.direction # b.direction
  BY StoredRides DEF FormInv
<1>3. A \subseteq [question : QuestionIds, option : OptionIds \cup {0}]
  BY FormAssumption
<1>4. mine \subseteq Q!Answer
  BY <1>3 DEF Q!Answer
<1>5. ASSUME NEW b \in mine, b.option # 0
      PROVE  Claimed(b.option, b.question)
  <2>1. PICK a \in A : b = [user |-> u, question |-> a.question, option |-> a.option]
    OBVIOUS
  <2>2. a.option \in Q!OptionsOf(a.question)
    BY <1>1, <1>5, <2>1, ValidAnswer DEF FormInv, QuestionsInv
  <2> QED
    BY <2>1, <2>2 DEF Q!OptionsOf, Claimed
<1> HIDE DEF mine
<1>6. /\ j \in Submission /\ j.user = u /\ j.answers = mine /\ j.rides = C!AsStored(u, c)
  BY <1>2, <1>4 DEF Submission, Parts
<1> HIDE DEF j
<1> QED
  BY <1>1, <1>2, <1>5, <1>6, Taken

LEMMA AdminUpdates ==
    ASSUME FormInv, NEW p \in Procs, NEW u \in Users, NEW parts \in SUBSET {"meals", "rides"},
           NEW M \in SUBSET MealIds, NEW c \in SUBSET C!Command, C!ValidRides(c), Free(p),
           AdminUpdate(p, u, parts, M, c)
    PROVE  FormInv'
<1> DEFINE j == [NoSubmission EXCEPT !.user = u, !.parts = parts, !.meals = M,
                                     !.rides = C!AsStored(u, c)]
<1>1. Take(p, j)
  BY DEF AdminUpdate
<1>2. /\ C!AsStored(u, c) \subseteq C!Riding
      /\ \A a \in C!AsStored(u, c) :
            a.user = u /\ a.ride <= given.ride /\ a.direction = ride[a.ride].direction
      /\ \A a, b \in C!AsStored(u, c) : a # b => a.direction # b.direction
  BY StoredRides DEF FormInv
<1>3. /\ j \in Submission /\ j.user = u /\ j.answers = {} /\ j.rides = C!AsStored(u, c)
  BY <1>2 DEF Submission, NoSubmission, Parts
<1> HIDE DEF j
<1> QED
  BY <1>1, <1>2, <1>3, Taken

LEMMA Stores ==
    ASSUME FormInv, NEW p \in Procs, Store(p)
    PROVE  FormInv'
<1>1. /\ spc[p] = "write" /\ spc' = [spc EXCEPT ![p] = "idle"]
      /\ sjob' = [sjob EXCEPT ![p] = NoSubmission]
      /\ UNCHANGED <<question, survey, requests>>
  BY DEF Store, questions
<1>2. sjob \in [Procs -> Submission] /\ sjob[p].user \in Users
  BY <1>1 DEF FormInv, SubmissionsInv
<1>3. QuestionsInv' /\ CatalogueInv'
  BY <1>2, AnswersStored, ChoicesStored DEF FormInv
<1>4. Q!Present' = Q!Present
  BY <1>1 DEF Q!Present
<1>5. NoSubmission \in Submission
  BY DEF NoSubmission, Submission
<1>6. /\ spc' \in [Procs -> {"idle", "write"}] /\ sjob' \in [Procs -> Submission]
      /\ \A r \in Procs : spc'[r] = "write" => sjob'[r].user \in Users
  BY <1>1, <1>5 DEF FormInv, SubmissionsInv
<1> QED
  BY <1>1, <1>3, <1>4, <1>6 DEF FormInv, SubmissionsInv

\* The state at the start, whether empty or with a form in it.
LEMMA FormStarts ==
    ASSUME Q!QuestionInit, C!CatalogueInit, requests = 0, spc = [p \in Procs |-> "idle"],
           sjob = [p \in Procs |-> NoSubmission],
           survey \in [SurveyIds -> C!Periods \cup {C!None}],
           meal \in [MealIds -> Slots \cup {C!None}],
           ride \in [RideIds -> C!Ride], given \in [survey : Nat, meal : Nat, ride : Nat],
           question \in [QuestionIds -> Q!Question], option \in [OptionIds -> Q!Option],
           drawn \in [question : Nat, option : Nat], answers \subseteq Q!Answer,
           chosen \subseteq Users \X MealIds, riding \subseteq C!Riding,
           applied \in [Users -> SurveyIds \cup {0}], retreat \in {"unborn", "there"},
           retreat # "there" => \A s \in SurveyIds : survey[s] = C!None,
           \A t \in RideIds : ride[t].there = 1 => t <= given.ride,
           \A q \in Q!Present :
                /\ q <= drawn.question
                /\ question[q].order <= Cardinality(Q!Present)
                /\ question[q].kind \in Q!Selects => Q!OptionsOf(q) # {}
                /\ \A r \in Q!Present \ {q} : question[q].order # question[r].order,
           \A o \in OptionIds : option[o].of # 0 => option[o].of \in Q!Present /\ o <= drawn.option,
           Q!Present # {} => survey[Main] # C!None,
           Q!AnswersFit, C!ChosenExist,
           \A c \in riding : ride[c.ride].direction = c.direction,
           \A c, d \in riding : c # d => c.user # d.user \/ c.direction # d.direction
    PROVE  FormInv
<1>1. /\ qpc = [p \in Procs |-> "idle"] /\ qjob = [p \in Procs |-> Q!NoJob]
      /\ loose = {} /\ gapped = 0
  BY DEF Q!QuestionInit
<1>2. /\ cpc = [p \in Procs |-> "idle"] /\ cjob = [p \in Procs |-> C!NoJob]
      /\ wanted = survey /\ late = {} /\ overwritten = {} /\ edited = {}
  BY DEF C!CatalogueInit
<1>3. Q!QuestionTypeOK
  <2>1. qpc \in [Procs -> Q!PCs] /\ qjob \in [Procs -> Q!Job]
    BY <1>1, NoQuestionJob DEF Q!PCs
  <2> QED
    BY <1>1, <2>1 DEF Q!QuestionTypeOK
<1>4. QuestionsInv
  <2>1. FormAnswerable
    BY DEF FormAnswerable, Q!ChoiceHasOptions
  <2>2. ASSUME NEW o \in OptionIds, NEW q \in QuestionIds, Claimed(o, q)
        PROVE  option[o].of = q
    <3>1. \A r \in Procs : ~Handles(r, o, q) /\ ~Answering(r, o, q)
      BY <1>1 DEF Handles, Answering, NoSubmission
    <3> QED
      BY <2>2, <3>1 DEF Claimed
  <2>3. Owned
    BY <2>2, QuestionIdShape DEF Owned
  <2>4. Numbered
    BY DEF Numbered
  <2>5. \A p \in Procs : Editing(p)
    BY <1>1 DEF Editing, Saving
  <2> QED
    BY <1>3, <2>1, <2>3, <2>4, <2>5 DEF QuestionsInv
<1>5. CatalogueInv
  <2>1. cpc \in [Procs -> C!PCs] /\ cjob \in [Procs -> C!Job]
    BY <1>2, NoCatalogueJob DEF C!PCs
  <2>2. retreat # "there" => C!Forms = {}
    BY DEF C!Forms
  <2>3. C!CatalogueTypeOK
    BY <1>2, <2>1, <2>2 DEF C!CatalogueTypeOK
  <2>4. ChoicesHold /\ PeriodsStand
    BY <1>2 DEF ChoicesHold, PeriodsStand, C!DirectionsMatch, C!PeriodsStand
  <2>5. \A p \in Procs : Arranging(p) /\ Boarding(p)
    BY <1>2 DEF Arranging, Boarding, NoSubmission
  <2> QED
    BY <1>2, <2>3, <2>4, <2>5 DEF CatalogueInv
<1>6. SubmissionsInv
  <2>1. NoSubmission \in Submission
    BY DEF NoSubmission, Submission
  <2>2. requests \in 0..MaxRequests
    BY FormAssumption
  <2> QED
    BY <2>1, <2>2 DEF SubmissionsInv
<1> QED
  BY <1>4, <1>5, <1>6 DEF FormInv

LEMMA FormInitial ==
    ASSUME FormInit
    PROVE  FormInv
<1>1. /\ Q!QuestionInit /\ C!CatalogueInit /\ requests = 0
      /\ spc = [p \in Procs |-> "idle"] /\ sjob = [p \in Procs |-> NoSubmission]
  BY DEF FormInit
<1>2. ASSUME NEW f \in Filled, retreat = "there", survey = f.survey, meal = f.meal, ride = f.ride,
             given = f.given, question = f.question, option = f.option, drawn = f.drawn,
             answers = f.answers, chosen = f.chosen, riding = f.riding, applied = f.applied
      PROVE  FormInv
  <2>1. SoundForm(f)
    BY FilledAssumption
  <2>2. /\ Q!Present = {q \in QuestionIds : f.question[q].there = 1}
        /\ \A q : Q!OptionsOf(q) = {o \in OptionIds : f.option[o].of = q}
    BY <1>2 DEF Q!Present, Q!OptionsOf
  <2>3. /\ survey \in [SurveyIds -> C!Periods \cup {C!None}]
        /\ meal \in [MealIds -> Slots \cup {C!None}]
        /\ ride \in [RideIds -> C!Ride] /\ given \in [survey : Nat, meal : Nat, ride : Nat]
        /\ question \in [QuestionIds -> Q!Question] /\ option \in [OptionIds -> Q!Option]
        /\ drawn \in [question : Nat, option : Nat] /\ answers \subseteq Q!Answer
        /\ chosen \subseteq Users \X MealIds /\ riding \subseteq C!Riding
        /\ applied \in [Users -> SurveyIds \cup {0}]
    BY <1>2, <2>1 DEF SoundForm
  <2>4. /\ \A t \in RideIds : ride[t].there = 1 => t <= given.ride
        /\ \A c \in chosen : meal[c[2]] # C!None
        /\ \A c \in riding : ride[c.ride].there = 1 /\ ride[c.ride].direction = c.direction
    BY <1>2, <2>1 DEF SoundForm
  <2>5. \A c, d \in riding : c # d => c.user # d.user \/ c.direction # d.direction
    BY <1>2, <2>1 DEF SoundForm
  <2>6. \A q \in Q!Present :
            /\ q <= drawn.question
            /\ question[q].order <= Cardinality(Q!Present)
            /\ question[q].kind \in Q!Selects => Q!OptionsOf(q) # {}
            /\ \A r \in Q!Present \ {q} : question[q].order # question[r].order
    BY <1>2, <2>1, <2>2 DEF SoundForm
  <2>7. /\ \A q \in QuestionIds \ Q!Present : Q!OptionsOf(q) = {}
        /\ \A o \in OptionIds : option[o].of # 0 => o <= drawn.option
        /\ Q!Present # {} => survey[Main] # C!None
        /\ \A a \in answers :
            /\ a.question \in Q!Present
            /\ a.option # 0 => option[a.option].of = a.question
    BY <1>2, <2>1, <2>2 DEF SoundForm
  <2>8. ASSUME NEW o \in OptionIds, option[o].of # 0
        PROVE  option[o].of \in Q!Present
    <3>1. option[o].of \in QuestionIds
      BY <2>3, <2>8 DEF Q!Option
    <3>2. o \in Q!OptionsOf(option[o].of)
      BY DEF Q!OptionsOf
    <3> QED
      BY <2>7, <3>1, <3>2
  <2>9. Q!AnswersFit /\ C!ChosenExist
    BY <2>4, <2>7 DEF Q!AnswersFit, C!ChosenExist
  <2> QED
    BY <1>1, <1>2, <2>3, <2>4, <2>5, <2>6, <2>7, <2>8, <2>9, FormStarts
<1>3. ASSUME retreat = "unborn", survey = [s \in SurveyIds |-> "none"],
             meal = [m \in MealIds |-> "none"], ride = [t \in RideIds |-> C!NoRide],
             given = [survey |-> 0, meal |-> 0, ride |-> 0],
             question = [q \in QuestionIds |-> Q!NoQuestion],
             option = [o \in OptionIds |-> Q!NoOption], drawn = [question |-> 0, option |-> 0],
             answers = {}, chosen = {}, riding = {}, applied = [u \in Users |-> 0]
      PROVE  FormInv
  <2>1. /\ survey \in [SurveyIds -> C!Periods \cup {C!None}]
        /\ \A s \in SurveyIds : survey[s] = C!None
        /\ meal \in [MealIds -> Slots \cup {C!None}]
    BY <1>3 DEF C!None
  <2>2. ride \in [RideIds -> C!Ride] /\ \A t \in RideIds : ride[t].there # 1
    <3>1. C!NoRide.there = 0
      BY DEF C!NoRide
    <3> QED
      BY <1>3, <3>1, NoCatalogueJob
  <2>3. /\ given \in [survey : Nat, meal : Nat, ride : Nat]
        /\ drawn \in [question : Nat, option : Nat]
    BY <1>3
  <2>4. /\ question \in [QuestionIds -> Q!Question] /\ Q!Present = {}
        /\ option \in [OptionIds -> Q!Option] /\ \A o \in OptionIds : option[o].of = 0
    BY <1>3, NoQuestionJob DEF Q!Present
  <2>5. applied \in [Users -> SurveyIds \cup {0}]
    BY <1>3
  <2>6. Q!AnswersFit /\ C!ChosenExist
    BY <1>3 DEF Q!AnswersFit, C!ChosenExist
  <2>7. /\ answers \subseteq Q!Answer /\ chosen \subseteq Users \X MealIds
        /\ riding \subseteq C!Riding /\ retreat \in {"unborn", "there"}
        /\ \A c \in riding : ride[c.ride].direction = c.direction
        /\ \A c, d \in riding : c # d => c.user # d.user \/ c.direction # d.direction
    BY <1>3
  <2> QED
    BY <1>1, <2>1, <2>2, <2>3, <2>4, <2>5, <2>6, <2>7, FormStarts
<1> QED
  BY <1>2, <1>3 DEF FormInit

LEMMA FormSteps ==
    ASSUME FormInv, [FormNext]_formVars
    PROVE  FormInv'
<1>1. CASE UNCHANGED formVars
  BY <1>1, QuestionsUnchanged, CatalogueUnchanged
  DEF FormInv, SubmissionsInv, formVars, questions, catalogue, submissions
<1>2. ASSUME NEW p \in Procs, UNCHANGED <<catalogue, submissions>>,
             Q!QuestionRequest(p) \/ Q!QuestionStep(p)
      PROVE  FormInv'
  <2>1. /\ UNCHANGED <<retreat, survey, meal, ride, given, chosen, riding, applied, cpc, cjob,
                       wanted, late, overwritten, edited>>
        /\ UNCHANGED <<spc, sjob>>
    BY <1>2 DEF catalogue, submissions
  <2>2. QuestionsInv' /\ (Q!Present' \subseteq Q!Present \/ survey[Main] # C!None)
    BY <1>2, <2>1, QuestionsMove DEF FormInv
  <2>3. CatalogueInv'
    BY <2>1, CatalogueUnchanged DEF FormInv
  <2>4. requests' \in 0..MaxRequests
    BY <1>2, RequestsCounted, FormAssumption DEF FormInv, SubmissionsInv
  <2>5. Q!Present' # {} => survey'[Main] # C!None
    BY <2>1, <2>2 DEF FormInv, SubmissionsInv
  <2> QED
    BY <2>1, <2>2, <2>3, <2>4, <2>5 DEF FormInv, SubmissionsInv
<1>3. ASSUME NEW p \in Procs, QuestionsStill, UNCHANGED submissions,
             C!CatalogueRequest(p) \/ C!CatalogueStep(p, Asked)
      PROVE  FormInv'
  <2>1. UNCHANGED <<question, option, drawn, answers, qpc, qjob, loose, gapped, spc, sjob>>
    BY <1>3 DEF QuestionsStill, questions, submissions
  <2>2. PICK asked : asked = Asked
    OBVIOUS
  <2>3. C!CatalogueRequest(p) \/ C!CatalogueStep(p, asked)
    BY <1>3, <2>2
  <2>4. CatalogueInv' /\ (survey'[Main] = C!None => survey[Main] = C!None \/ Main \notin asked)
    BY <2>1, <2>3, CatalogueMoves DEF FormInv
  <2>5. QuestionsInv' /\ Q!Present' = Q!Present
    BY <2>1, QuestionsUnchanged DEF FormInv
  <2>6. requests' \in 0..MaxRequests
    BY <2>3, RequestsCounted, FormAssumption DEF FormInv, SubmissionsInv
  <2>7. Q!Present' # {} => survey'[Main] # C!None
    BY <2>2, <2>4, <2>5 DEF FormInv, SubmissionsInv, Asked
  <2> QED
    BY <2>1, <2>4, <2>5, <2>6, <2>7 DEF FormInv, SubmissionsInv
<1>4. ASSUME NEW p \in Procs, Free(p), Chooses(p)
      PROVE  FormInv'
  BY <1>4, Submits, AdminUpdates DEF Chooses
<1>5. ASSUME NEW p \in Procs, Store(p)
      PROVE  FormInv'
  BY <1>5, Stores
<1> QED
  BY <1>1, <1>2, <1>3, <1>4, <1>5 DEF FormNext, FormRequest, FormStep

\* Whatever administrators and applicants do at the same time, questions, options, numbers
\* and rows remembered by requests fit together.
THEOREM FormInvariant == FormSpec => []FormInv
<1>1. FormInit => FormInv
  BY FormInitial
<1>2. FormInv /\ [FormNext]_formVars => FormInv'
  BY FormSteps
<1> QED
  BY <1>1, <1>2, PTL DEF FormSpec

\* The tables of the form and what requests in flight remember have their shapes: foreign
\* keys and unique numbers hold, and a form with questions is not deleted
\* (question.service.ts, survey.service.ts:109-137).
THEOREM FormShape == FormSpec => []FormTypeOK
<1>1. FormInv => FormTypeOK
  BY DEF FormInv, QuestionsInv, CatalogueInv, SubmissionsInv, FormTypeOK, C!None
<1> QED
  BY <1>1, FormInvariant, PTL

\* However many administrators change the questions while applicants answer them, every
\* stored answer is to a question that is there, with an option of that question, and a
\* question with a choice offers one (question.service.ts:54-66, 125-129, 264-270,
\* upsert-my-application.usecase.ts:420-431).
THEOREM AnswersStayFit == FormSpec => []FormAnswerable
<1>1. FormInv => FormAnswerable
  BY DEF FormInv, QuestionsInv
<1> QED
  BY <1>1, FormInvariant, PTL

\* As long as nobody leaves a gap in the numbers, creating a question meets no number in
\* use, however many are created and reordered at once (question.service.ts:52, 149-166).
THEOREM NextNumberStaysFree == FormSpec => []NextNumberFree
<1>1. FormInv => NextNumberFree
  <2>1. SUFFICES ASSUME FormInv, gapped = 0, NEW r \in Q!Present
                 PROVE  question[r].order # Q!Cardinality(Q!Present) + 1
    BY DEF NextNumberFree, Q!NextNumberFree, Q!OrderFree
  <2>2. question[r].order <= Cardinality(Q!Present)
    BY <2>1 DEF FormInv, QuestionsInv, Numbered
  <2>3. question[r].order \in Nat /\ Cardinality(Q!Present) \in Nat
    BY <2>1, QuestionTypes, QuestionIdShape DEF FormInv, QuestionsInv
  <2>4. Q!Cardinality(Q!Present) = Cardinality(Q!Present)
    BY SameSize
  <2> QED
    BY <2>2, <2>3, <2>4
<1> QED
  BY <1>1, FormInvariant, PTL

\* However many requests choose, edit and delete at once, the meals and transports of
\* applications are there, one transport a direction, in the direction it goes unless an
\* administrator has changed that since (meal.delete.usecase.ts:35-47,
\* transport-delete.usecase.ts:31-41, upsert-my-application.usecase.ts:268-295).
THEOREM ChoicesStay == FormSpec => []ChoicesHold
<1>1. FormInv => ChoicesHold
  BY DEF FormInv, CatalogueInv
<1> QED
  BY <1>1, FormInvariant, PTL

\* Whatever the number of administrators and however their requests overlap, a form is
\* open, closed or deleted as the last accepted request wanted, until an update of the
\* retreat's title puts back the period it had loaded before another request wrote the
\* form (retreat.service.ts:84-146, survey.service.ts:92-129).
THEOREM PeriodsStayWanted == FormSpec => []PeriodsStand
<1>1. FormInv => PeriodsStand
  BY DEF FormInv, CatalogueInv
<1> QED
  BY <1>1, FormInvariant, PTL

=============================================================================
