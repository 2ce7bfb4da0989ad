----------------------------- MODULE Application -----------------------------
(***************************************************************************)
(* The life of the applications of one retreat: the use cases of           *)
(* src/modules/application that write the table Application.               *)
(*                                                                         *)
(* A process is one request in flight.  The upsert, cancel, event and      *)
(* admin-update use cases run in dataSource.transaction and lock the row   *)
(* of the applicant with SELECT ... FOR UPDATE, which reads the newest     *)
(* committed columns; check-in runs outside any transaction.  Plain reads  *)
(* of a transaction all see the snapshot its first plain read established  *)
(* (REPEATABLE READ).  manager.save reads the row once more with a plain   *)
(* read, compares, and writes only the columns in which the entity differs *)
(* from what that read returned.                                           *)
(***************************************************************************)
EXTENDS Integers, FiniteSets, Actors

CONSTANTS
    NoProc,       \* the owner of a row lock nobody holds
    Payments,     \* the payment statuses an administrator sets
    Pending,      \* the payment status a new application has
    Forms,        \* meal, transport and answer selections a request may carry
    NoForm,       \* no selection
    WinnerLimit   \* number of event winners after which nobody wins

ASSUME ConstantsAssumption ==
    /\ IsFiniteSet(Procs)
    /\ NoProc \notin Procs
    /\ IsFiniteSet(Users)
    /\ Users # {}
    /\ Pending \in Payments
    /\ NoForm \notin Forms
    /\ WinnerLimit \in Nat \ {0}

VARIABLES
    row,    \* the committed columns of each user's application
    form,   \* the committed selections of each user's application
    lock,   \* the process holding the lock of the user's row
    pc,     \* where each request stands
    job,    \* what each request remembers
    told,   \* history: the form of the last submission a user was told is
            \* accepted, forgotten when the user cancels or an administrator
            \* replaces the selections
    stale   \* history: users whose last accepted submission was saved against
            \* a snapshot in which the application had another status

vars == <<row, form, lock, pc, job, told, stale>>

-----------------------------------------------------------------------------
(* The shape of the data. *)

Statuses == {"none", "SUBMITTED", "CHECKED_IN", "CANCELED"}

Results == {"none", "WIN", "LOSE"}

\* The columns the properties tell apart.  event stands for eventResult and
\* eventParticipatedAt, always set together; status "none" means no row.
Row == [status : Statuses, checkedInAt : {"null", "set"}, payment : Payments,
        event : Results]

NoRow == [status |-> "none", checkedInAt |-> "null", payment |-> Pending,
          event |-> "none"]

NewRow == [NoRow EXCEPT !.status = "SUBMITTED"]

(* "submit" snapshot taken         (upsert)
   "save"   application locked     (upsert)
   "cancel" application locked     (delete)
   "play"   application locked     (play event)
   "draw"   winners counted        (play event)
   "scan"   application read       (check-in)
   "admin"  application locked     (admin update) *)
PCs == {"idle", "submit", "save", "cancel", "play", "draw", "scan", "admin"}

Locked == {"cancel", "play", "draw", "admin"}

Job == [user : Users, base : Row, seen : Row, form : Forms \cup {NoForm},
        chances : SUBSET {"WIN", "LOSE"}]

NoJob == [user |-> CHOOSE u \in Users : TRUE, base |-> NoRow, seen |-> NoRow,
          form |-> NoForm, chances |-> {}]

Init ==
    /\ row = [u \in Users |-> NoRow]
    /\ form = [u \in Users |-> NoForm]
    /\ lock = [u \in Users |-> NoProc]
    /\ pc = [p \in Procs |-> "idle"]
    /\ job = [p \in Procs |-> NoJob]
    /\ told = [u \in Users |-> NoForm]
    /\ stale = {}

-----------------------------------------------------------------------------
(* Helpers. *)

\* The request goes on at another point with what it remembers now.
Goto(p, point, j) ==
    /\ pc' = [pc EXCEPT ![p] = point]
    /\ job' = [job EXCEPT ![p] = j]

\* The end of a request: its transaction, if any, releases its row lock.
Finish(p) ==
    /\ Goto(p, "idle", NoJob)
    /\ lock' = [u \in Users |-> IF lock[u] = p THEN NoProc ELSE lock[u]]

\* Variant: findOne without lock mode.
LockRow_Unlocked(p, u) == row[u].status # "none" /\ UNCHANGED lock

\* SELECT ... FOR UPDATE finds the row of u and locks it.
LockRow(p, u) ==
    /\ row[u].status # "none"
    /\ lock[u] = NoProc
    /\ lock' = [lock EXCEPT ![u] = p]

\* manager.save of entity e when its own read of the row returns base.
Saved(u, e, base) ==
    [status |-> IF e.status # base.status THEN e.status ELSE row[u].status,
     checkedInAt |-> IF e.checkedInAt # base.checkedInAt THEN e.checkedInAt
                     ELSE row[u].checkedInAt,
     payment |-> IF e.payment # base.payment THEN e.payment ELSE row[u].payment,
     event |-> IF e.event # base.event THEN e.event ELSE row[u].event]

Winners == {u \in Users : row[u].event = "WIN"}

-----------------------------------------------------------------------------
(* UpsertMyApplicationUseCase.  The plain reads of user, retreat and survey
   come before the locking read, so the snapshot is older than the lock. *)

UpsertRead(p, u, f) ==
    /\ pc[p] = "idle"
    /\ Goto(p, "submit", [NoJob EXCEPT !.user = u, !.base = row[u], !.form = f])
    /\ UNCHANGED <<row, form, lock, told, stale>>

\* Variant: the status CHECKED_IN is not refused.
Editable_Always(u) == TRUE

Editable(u) == row[u].status # "CHECKED_IN"

\* Without a row FOR UPDATE locks a gap only, which other readers may lock too.
UpsertLock(p) ==
    /\ pc[p] = "submit"
    /\ LET u == job[p].user
       IN  /\ \/ LockRow(p, u)
              \/ row[u].status = "none" /\ UNCHANGED lock
           /\ Editable(u)
           /\ Goto(p, "save", [job[p] EXCEPT !.seen = row[u]])
    /\ UNCHANGED <<row, form, told, stale>>

\* Variant: the status of an existing application is left as it is.
Submitted_KeepStatus(e) == [e EXCEPT !.checkedInAt = "null"]

\* What the use case assigns to the entity it has read.
Submitted(e) == [e EXCEPT !.status = "SUBMITTED", !.checkedInAt = "null"]

\* A new application is inserted, unless the unique index (user, retreat)
\* refuses it.  An existing one is saved against the snapshot, and cannot be
\* when the snapshot lacks it: save then inserts, and the primary key refuses.
UpsertCommit(p) ==
    /\ pc[p] = "save"
    /\ LET j == job[p]
           u == job[p].user
       IN  /\ \/ /\ j.seen.status = "none"
                 /\ row[u].status = "none"
                 /\ row' = [row EXCEPT ![u] = NewRow]
              \/ /\ j.seen.status # "none"
                 /\ j.base.status # "none"
                 /\ row' = [row EXCEPT ![u] = Saved(u, Submitted(j.seen), j.base)]
           /\ form' = [form EXCEPT ![u] = j.form]
           /\ told' = [told EXCEPT ![u] = j.form]
           /\ stale' = IF j.base.status = j.seen.status THEN stale \ {u}
                       ELSE stale \cup {u}
    /\ Finish(p)

-----------------------------------------------------------------------------
(* DeleteMyApplicationUseCase: the first read is the locking one, so the save
   compares with the row as it was locked. *)

CancelLock(p, u) ==
    /\ pc[p] = "idle"
    /\ row[u].status = "SUBMITTED"
    /\ LockRow(p, u)
    /\ Goto(p, "cancel", [NoJob EXCEPT !.user = u, !.base = row[u], !.seen = row[u]])
    /\ UNCHANGED <<row, form, told, stale>>

Canceled(e) == [e EXCEPT !.status = "CANCELED", !.checkedInAt = "null"]

CancelCommit(p) ==
    /\ pc[p] = "cancel"
    /\ LET j == job[p]
       IN  /\ row' = [row EXCEPT ![j.user] = Saved(j.user, Canceled(j.seen), j.base)]
           /\ told' = [told EXCEPT ![j.user] = NoForm]
           /\ stale' = stale \ {j.user}
    /\ Finish(p)
    /\ UNCHANGED form

-----------------------------------------------------------------------------
(* PlayEventUseCase: the row of the player is locked, the winners among all
   rows are counted without a lock. *)

PlayLock(p, u) ==
    /\ pc[p] = "idle"
    /\ row[u].status = "CHECKED_IN"
    /\ row[u].event = "none"
    /\ LockRow(p, u)
    /\ Goto(p, "play", [NoJob EXCEPT !.user = u])
    /\ UNCHANGED <<row, form, told, stale>>

\* Variant: one winner too many.
Drawable_OffByOne(n) == n <= WinnerLimit

Drawable(n) == n < WinnerLimit

PlayCount(p) ==
    /\ pc[p] = "play"
    /\ Goto(p, "draw", [job[p] EXCEPT !.chances =
           {"LOSE"} \cup (IF Drawable(Cardinality(Winners)) THEN {"WIN"} ELSE {})])
    /\ UNCHANGED <<row, form, lock, told, stale>>

PlayCommit(p) ==
    /\ pc[p] = "draw"
    /\ \E result \in job[p].chances :
          row' = [row EXCEPT ![job[p].user].event = result]
    /\ Finish(p)
    /\ UNCHANGED <<form, told, stale>>

-----------------------------------------------------------------------------
(* CheckInApplicationUseCase: a plain read, then an UPDATE, each on its own. *)

CheckInRead(p, u) ==
    /\ pc[p] = "idle"
    /\ row[u].status # "none"
    /\ row[u].checkedInAt = "null"
    /\ Goto(p, "scan", [NoJob EXCEPT !.user = u])
    /\ UNCHANGED <<row, form, lock, told, stale>>

CheckInWrite(p) ==
    /\ pc[p] = "scan"
    /\ lock[job[p].user] = NoProc
    /\ row' = [row EXCEPT ![job[p].user].checkedInAt = "set",
                          ![job[p].user].status = "CHECKED_IN"]
    /\ Finish(p)
    /\ UNCHANGED <<form, told, stale>>

-----------------------------------------------------------------------------
(* UpdateAdminApplicationUseCase: any combination of the payment status, the
   check-in and the selections, at least one of them. *)

AdminLock(p, u) ==
    /\ pc[p] = "idle"
    /\ LockRow(p, u)
    /\ Goto(p, "admin", [NoJob EXCEPT !.user = u, !.base = row[u], !.seen = row[u]])
    /\ UNCHANGED <<row, form, told, stale>>

\* Application.changeCheckInStatus
ChangeCheckInStatus(e, in) ==
    [e EXCEPT !.status = IF in THEN "CHECKED_IN" ELSE "SUBMITTED",
              !.checkedInAt = IF in THEN "set" ELSE "null"]

\* The entities an accepted command makes of e.
Edited(e) ==
    {[f EXCEPT !.payment = pay] :
        pay \in Payments,
        f \in {e} \cup (IF e.status = "CANCELED" THEN {}
                        ELSE {ChangeCheckInStatus(e, in) : in \in BOOLEAN})}

AdminCommit(p) ==
    /\ pc[p] = "admin"
    /\ LET j == job[p]
           u == job[p].user
       IN  /\ \E e \in Edited(j.seen) :
                 row' = [row EXCEPT ![u] = Saved(u, e, j.base)]
           /\ \/ /\ \E f \in Forms : form' = [form EXCEPT ![u] = f]
                 /\ told' = [told EXCEPT ![u] = NoForm]
              \/ UNCHANGED <<form, told>>
    /\ Finish(p)
    /\ UNCHANGED stale

-----------------------------------------------------------------------------
(* A request that throws, times out on a lock, is chosen as a deadlock victim
   or dies with its process leaves nothing behind. *)

Abort(p) ==
    /\ pc[p] # "idle"
    /\ Finish(p)
    /\ UNCHANGED <<row, form, told, stale>>

\* PATCH and check-in of the administrators' controller.
AdminRequest(p, u) == CheckInRead(p, u) \/ AdminLock(p, u)

Request(p) ==
    \E u \in Users :
        \/ \E f \in Forms : UpsertRead(p, u, f)
        \/ CancelLock(p, u) \/ PlayLock(p, u) \/ AdminRequest(p, u)

Step(p) ==
    \/ UpsertLock(p) \/ UpsertCommit(p) \/ CancelCommit(p)
    \/ PlayCount(p) \/ PlayCommit(p) \/ CheckInWrite(p) \/ AdminCommit(p)

Next == \E p \in Procs : Request(p) \/ Step(p) \/ Abort(p)

Spec == Init /\ [][Next]_vars

-----------------------------------------------------------------------------
(* Properties. *)

Shape ==
    /\ row \in [Users -> Row]
    /\ form \in [Users -> Forms \cup {NoForm}]
    /\ lock \in [Users -> Procs \cup {NoProc}]
    /\ pc \in [Procs -> PCs]
    /\ job \in [Procs -> Job]
    /\ told \in [Users -> Forms \cup {NoForm}]
    /\ stale \subseteq Users

\* The request is past a locking read that found a row.
Holds(p) == pc[p] \in Locked \/ (pc[p] = "save" /\ job[p].seen.status # "none")

\* Every variable keeps its shape, and every request past its locking read holds
\* the lock of the row it read.
TypeOK == Shape /\ \A p \in Procs : Holds(p) => lock[job[p].user] = p

\* An application is CHECKED_IN exactly when it has a check-in time
\* (docs/specs/renew_application.spec.md:330), although the upsert writes the
\* two columns independently, against a snapshot older than its lock, and the
\* QR check-in takes no lock at all.
CheckInConsistent ==
    \A u \in Users : row[u].checkedInAt = "set" <=> row[u].status = "CHECKED_IN"

\* However plays interleave, no more than the limit plus the other requests in
\* flight win: the winners are counted before a win is committed.
WinnersBounded == Cardinality(Winners) <= WinnerLimit - 1 + Cardinality(Procs)

\* A result of the event is final: no second play, save or check-in of the same
\* application erases or replaces it.
ResultFinal ==
    [][\A u \in Users : row[u].event # "none" => row'[u].event = row[u].event]_vars

\* Nobody but an administrator takes an applicant out of CHECKED_IN: an upsert
\* or a cancellation that began before the check-in cannot overwrite it.
CheckInStands ==
    [][\A u \in Users :
          row[u].status = "CHECKED_IN" /\ row'[u].status # "CHECKED_IN"
             => \E p \in Procs : pc[p] = "admin" /\ pc'[p] = "idle" /\ job[p].user = u]_vars

\* The payment status changes in the commit of an administrator only: no save of
\* an entity read earlier brings an old payment status back.
PaymentStands ==
    [][\A u \in Users :
          row'[u].payment # row[u].payment
             => \E p \in Procs : pc[p] = "admin" /\ pc'[p] = "idle" /\ job[p].user = u]_vars

\* Whether an applicant stays checked in and whether he has paid is decided by
\* administrators only (upsert-my-application.usecase.ts:129-203,
\* check-in-application.usecase.ts:47-58).
AdminDecides == CheckInStands /\ PaymentStands

\* A submission the user was told is accepted is what the application holds, and
\* it is not a canceled one, unless it was saved against a stale snapshot.
SubmissionStands ==
    \A u \in Users :
        told[u] # NoForm =>
            /\ form[u] = told[u]
            /\ u \notin stale => row[u].status \in {"SUBMITTED", "CHECKED_IN"}

=============================================================================
