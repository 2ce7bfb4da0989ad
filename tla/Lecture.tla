------------------------------- MODULE Lecture -------------------------------
(***************************************************************************)
(* Seat booking of optional lectures: LectureService of                    *)
(* src/modules/lecture (lecture.service.ts) over the tables Lecture and    *)
(* LectureEnrollment.                                                      *)
(*                                                                         *)
(* A process is one request in flight on one API instance.  A request that *)
(* runs in dataSource.transaction takes the row lock of its lecture with   *)
(* SELECT ... FOR UPDATE and holds it until it commits or rolls back; what *)
(* it writes becomes visible at its commit.  FOR UPDATE locks every row the *)
(* statement joins, one after another: a drop locks the enrollment, the    *)
(* lecture and the user, a bulk enrollment the lecture and its term.  An   *)
(* INSERT shares the rows its foreign keys name, which only matters for    *)
(* the user of an enrollment and the term of a lecture.  updateLecture     *)
(* runs in no transaction of its own: repository.save reads the row again, *)
(* compares it column by column with the entity the request loaded earlier *)
(* and writes the columns that differ.                                     *)
(***************************************************************************)
EXTENDS Integers, FiniteSets

CONSTANTS
    Procs,       \* requests that may be in flight at once
    NoProc,      \* the owner of a row lock nobody holds
    Lectures,    \* the auto-increment ids a lecture may get
    Users,       \* user ids
    Terms,       \* term ids
    Capacities,  \* the maxCapacity values administrators send
    CheckedIn,   \* users with a CHECKED_IN application in the latest retreat
    MaxSaves     \* bound: how many updateLecture calls are made

ASSUME ConstantsAssumption ==
    /\ NoProc \notin Procs
    /\ Lectures \subseteq Nat \ {0}
    /\ Terms # {}
    /\ IsFiniteSet(Users)
    /\ CheckedIn \subseteq Users
    /\ Capacities \subseteq Int
    /\ MaxSaves \in Nat

VARIABLES
    exists,   \* the ids that have a row in Lecture
    row,      \* the committed columns of each row
    roster,   \* the users each lecture has a committed enrollment of
    lock,     \* the process holding the row lock of a lecture
    born,     \* the ids the auto-increment counter has passed
    pc,       \* where each request stands
    job,      \* what each request remembers
    staged,   \* enrollments a request has inserted and not committed
    saves,    \* updateLecture calls made so far
    rewound,  \* history: lectures whose currentCount column a save has written
    shrunk    \* history: lectures a save gave fewer seats than currentCount

vars == <<exists, row, roster, lock, born, pc, job, staged, saves, rewound, shrunk>>

-----------------------------------------------------------------------------
(* The shape of the data. *)

Row == [count : Int, cap : Int, code : Nat, term : Terms]

Columns == {"count", "cap"}

(* "create"   maximal code read, row not inserted    (createLecture)
   "reload"   entity loaded and edited, save pending (updateLecture)
   "write"    save compared the columns              (updateLecture)
   "enroll"   lecture row locked and read            (enrollLecture)
   "dropping" enrollment row locked                  (dropLecture)
   "dropuser" enrollment and lecture rows locked     (dropLecture)
   "drop"     enrollment, lecture, user rows locked  (dropLecture)
   "term"     lecture row locked and read            (enrollEligibleUsers)
   "eligible" lecture and term rows locked           (enrollEligibleUsers)
   "bulk"     capacity and eligibility checked       (enrollEligibleUsers)
   "list"     pool of users read                     (autoAssignLectures)
   "assign"   between two lectures of the loop       (autoAssignLectures)
   "fill"     next lecture locked and read           (autoAssignLectures) *)
PCs == {"idle", "create", "reload", "write", "enroll", "dropping", "dropuser",
        "drop", "term", "eligible", "bulk", "list", "assign", "fill"}

NoTerm == CHOOSE t \in Terms : TRUE

NoRow == [count |-> 0, cap |-> 0, code |-> 0, term |-> NoTerm]

Job == [lecture : Lectures \cup {0}, users : SUBSET Users, seen : Row,
        dirty : SUBSET Columns, todo : SUBSET Lectures]

NoJob == [lecture |-> 0, users |-> {}, seen |-> NoRow, dirty |-> {}, todo |-> {}]

Nobody == [l \in Lectures |-> {}]

Init ==
    /\ exists = {}
    /\ row = [l \in Lectures |-> NoRow]
    /\ roster = Nobody
    /\ lock = [l \in Lectures |-> NoProc]
    /\ born = {}
    /\ pc = [p \in Procs |-> "idle"]
    /\ job = [p \in Procs |-> NoJob]
    /\ staged = [p \in Procs |-> Nobody]
    /\ saves = 0
    /\ rewound = {}
    /\ shrunk = {}

-----------------------------------------------------------------------------
(* Helpers. *)

InTerm(t) == {l \in exists : row[l].term = t}

\* getEligibleUsersForTerm: plain reads on another connection, so only what is
\* committed is seen, whatever the caller has locked or inserted.
Eligible(t) == CheckedIn \ UNION {roster[l] : l \in InTerm(t)}

\* INSERT one enrollment per user of f[l] and increment currentCount by as many.
Book(f) ==
    /\ roster' = [l \in Lectures |-> roster[l] \cup f[l]]
    /\ row' = [l \in Lectures |-> [row[l] EXCEPT !.count = @ + Cardinality(f[l])]]

Only(l, S) == [m \in Lectures |-> IF m = l THEN S ELSE {}]

\* The request goes on at another point with what it remembers now.
Goto(p, point, j) ==
    /\ pc' = [pc EXCEPT ![p] = point]
    /\ job' = [job EXCEPT ![p] = j]

\* The end of a request: its transaction, if any, releases every row lock.
Finish(p) ==
    /\ Goto(p, "idle", NoJob)
    /\ staged' = [staged EXCEPT ![p] = Nobody]
    /\ lock' = [l \in Lectures |-> IF lock[l] = p THEN NoProc ELSE lock[l]]

\* Variant: findOne without lock mode.
LockRow_Unlocked(p, l) == l \in exists /\ UNCHANGED lock

\* SELECT ... FOR UPDATE on the row of l as the first statement of p.
LockRow(p, l) ==
    /\ l \in exists
    /\ lock[l] = NoProc
    /\ lock' = [lock EXCEPT ![l] = p]

(* The row locks beside those on lectures follow from where a request stands. *)

\* p has the enrollment of u in l locked for its drop.
HoldsEnrollment(p, l, u) ==
    pc[p] \in {"dropping", "dropuser", "drop"} /\ job[p].lecture = l /\ u \in job[p].users

\* p has the row of user u locked for its drop.
HoldsUser(p, u) == pc[p] = "drop" /\ u \in job[p].users

\* p shares the row of user u, of whom it has inserted an enrollment.
SharesUser(p, u) == \E l \in Lectures : u \in staged[p][l]

HoldsTerm(p, t) == pc[p] \in {"eligible", "bulk"} /\ job[p].seen.term = t

\* Request q keeps an INSERT of enrollments of S in l waiting: by the enrollment
\* already there, or by the user the foreign key of a new one names.
BlocksInsert(q, l, S) ==
    \/ \E u \in S \cap roster[l] : HoldsEnrollment(q, l, u)
    \/ \E u \in S \ roster[l] : HoldsUser(q, u)

-----------------------------------------------------------------------------
(* createLecture: the next code is read first and inserted later; the unique
   index (term, codeNumber) refuses the second of two equal codes. *)

TermCodes(t) == {row[l].code : l \in InTerm(t)}

CreateReadCode(p, t, cap) ==
    /\ pc[p] = "idle"
    /\ \E code \in {1} \cup {c + 1 : c \in TermCodes(t)} :
          /\ \A c \in TermCodes(t) : c < code
          /\ Goto(p, "create", [NoJob EXCEPT !.seen =
                 [count |-> 0, cap |-> cap, code |-> code, term |-> t]])
    /\ UNCHANGED <<exists, row, roster, lock, born, staged, saves, rewound, shrunk>>

CreateInsert(p) ==
    /\ pc[p] = "create"
    /\ job[p].seen.code \notin TermCodes(job[p].seen.term)
    /\ \A q \in Procs : ~HoldsTerm(q, job[p].seen.term)
    /\ \E l \in Lectures :
          /\ \A m \in born : m < l
          /\ born' = born \cup {l}
          /\ exists' = exists \cup {l}
          /\ row' = [row EXCEPT ![l] = job[p].seen]
    /\ Finish(p)
    /\ UNCHANGED <<roster, saves, rewound, shrunk>>

-----------------------------------------------------------------------------
(* updateLecture: findOne, mutate, then repository.save. *)

UpdateFind(p, l) ==
    /\ pc[p] = "idle"
    /\ saves < MaxSaves
    /\ l \in exists
    /\ \/ Goto(p, "reload", [NoJob EXCEPT !.lecture = l, !.seen = row[l]])
       \/ \E cap \in Capacities :
             /\ cap >= row[l].count
             /\ Goto(p, "reload", [NoJob EXCEPT !.lecture = l,
                                      !.seen = [row[l] EXCEPT !.cap = cap]])
    /\ saves' = saves + 1
    /\ UNCHANGED <<exists, row, roster, lock, born, staged, rewound, shrunk>>

\* save reads the row back.  A row deleted meanwhile would be inserted again
\* without its term, which the database refuses: that request aborts.
UpdateReload(p) ==
    /\ pc[p] = "reload"
    /\ LET l == job[p].lecture
           e == job[p].seen
       IN  /\ l \in exists
           /\ Goto(p, "write", [job[p] EXCEPT !.dirty =
                  {c \in Columns : \/ c = "count" /\ e.count # row[l].count
                                   \/ c = "cap"   /\ e.cap   # row[l].cap}])
    /\ UNCHANGED <<exists, row, roster, lock, born, staged, saves, rewound, shrunk>>

\* UPDATE Lecture SET <the differing columns> WHERE id = l.
UpdateWrite(p) ==
    /\ pc[p] = "write"
    /\ LET l == job[p].lecture
           e == job[p].seen
           d == job[p].dirty
           r == [row[l] EXCEPT !.count = IF "count" \in d THEN e.count ELSE @,
                               !.cap   = IF "cap"   \in d THEN e.cap   ELSE @]
       IN  /\ lock[l] = NoProc
           /\ IF l \in exists
              THEN /\ row' = [row EXCEPT ![l] = r]
                   /\ rewound' = IF "count" \in d THEN rewound \cup {l} ELSE rewound
                   /\ shrunk' = IF "cap" \in d /\ r.cap < r.count
                                THEN shrunk \cup {l} ELSE shrunk
              ELSE UNCHANGED <<row, rewound, shrunk>>
    /\ Finish(p)
    /\ UNCHANGED <<exists, roster, born, saves>>

-----------------------------------------------------------------------------
(* deleteLecture: one DELETE, whose foreign key cascades to the enrollments
   and so waits for the drops of the lecture. *)

Delete(l) ==
    /\ l \in exists
    /\ lock[l] = NoProc
    /\ \A q \in Procs, u \in roster[l] : ~HoldsEnrollment(q, l, u)
    /\ exists' = exists \ {l}
    /\ row' = [row EXCEPT ![l] = NoRow]
    /\ roster' = [roster EXCEPT ![l] = {}]
    /\ UNCHANGED <<lock, born, pc, job, staged, saves, rewound, shrunk>>

-----------------------------------------------------------------------------
(* enrollLecture *)

EnrollLock(p, l, u) ==
    /\ pc[p] = "idle"
    /\ LockRow(p, l)
    /\ Goto(p, "enroll", [NoJob EXCEPT !.lecture = l, !.users = {u}, !.seen = row[l]])
    /\ UNCHANGED <<exists, row, roster, born, staged, saves, rewound, shrunk>>

EnrollCommit(p) ==
    /\ pc[p] = "enroll"
    /\ LET j == job[p]
       IN  /\ j.users \cap roster[j.lecture] = {}
           /\ j.seen.count < j.seen.cap
           /\ \A q \in Procs : ~BlocksInsert(q, j.lecture, j.users)
           /\ Book(Only(j.lecture, j.users))
    /\ Finish(p)
    /\ UNCHANGED <<exists, born, saves, rewound, shrunk>>

(* dropLecture: findOne joins the enrollment with its lecture and its user and
   locks the three rows in that order. *)

DropEnrollment(p, l, u) ==
    /\ pc[p] = "idle"
    /\ u \in roster[l]
    /\ \A q \in Procs : ~HoldsEnrollment(q, l, u)
    /\ Goto(p, "dropping", [NoJob EXCEPT !.lecture = l, !.users = {u}])
    /\ UNCHANGED <<exists, row, roster, lock, born, staged, saves, rewound, shrunk>>

DropLecture(p) ==
    /\ pc[p] = "dropping"
    /\ LockRow(p, job[p].lecture)
    /\ Goto(p, "dropuser", job[p])
    /\ UNCHANGED <<exists, row, roster, born, staged, saves, rewound, shrunk>>

DropUser(p) ==
    /\ pc[p] = "dropuser"
    /\ \A q \in Procs, u \in job[p].users : ~HoldsUser(q, u) /\ ~SharesUser(q, u)
    /\ Goto(p, "drop", job[p])
    /\ UNCHANGED <<exists, row, roster, lock, born, staged, saves, rewound, shrunk>>

DropCommit(p) ==
    /\ pc[p] = "drop"
    /\ LET j == job[p]
       IN  /\ row' = [row EXCEPT ![j.lecture].count = @ - 1]
           /\ roster' = [roster EXCEPT ![j.lecture] = @ \ j.users]
    /\ Finish(p)
    /\ UNCHANGED <<exists, born, saves, rewound, shrunk>>

-----------------------------------------------------------------------------
(* enrollEligibleUsers: an administrator enrolls several users at once; the
   locking read joins the lecture's term. *)

BulkLock(p, l, S) ==
    /\ pc[p] = "idle"
    /\ S # {}
    /\ LockRow(p, l)
    /\ Goto(p, "term", [NoJob EXCEPT !.lecture = l, !.users = S, !.seen = row[l]])
    /\ UNCHANGED <<exists, row, roster, born, staged, saves, rewound, shrunk>>

BulkTerm(p) ==
    /\ pc[p] = "term"
    /\ \A q \in Procs : ~HoldsTerm(q, job[p].seen.term)
    /\ Goto(p, "eligible", job[p])
    /\ UNCHANGED <<exists, row, roster, lock, born, staged, saves, rewound, shrunk>>

Fits(j) == Cardinality(j.users) <= j.seen.cap - j.seen.count

BulkEligible(p) ==
    /\ pc[p] = "eligible"
    /\ LET j == job[p]
       IN  /\ Fits(j)
           /\ j.users \subseteq Eligible(j.seen.term)
    /\ Goto(p, "bulk", job[p])
    /\ UNCHANGED <<exists, row, roster, lock, born, staged, saves, rewound, shrunk>>

BulkCommit(p) ==
    /\ pc[p] = "bulk"
    /\ LET j == job[p]
       IN  /\ j.users \cap roster[j.lecture] = {}
           /\ \A q \in Procs : ~BlocksInsert(q, j.lecture, j.users)
           /\ Book(Only(j.lecture, j.users))
    /\ Finish(p)
    /\ UNCHANGED <<exists, born, saves, rewound, shrunk>>

-----------------------------------------------------------------------------
(* autoAssignLectures: the pool and the lectures with free seats are read
   before the transaction; inside it the lectures are locked in id order and
   each is filled from the shuffled pool with INSERT IGNORE. *)

AutoPool(p, t) ==
    /\ pc[p] = "idle"
    /\ Goto(p, "list", [NoJob EXCEPT !.users = Eligible(t),
                                     !.seen = [NoRow EXCEPT !.term = t]])
    /\ UNCHANGED <<exists, row, roster, lock, born, staged, saves, rewound, shrunk>>

AutoList(p) ==
    /\ pc[p] = "list"
    /\ Goto(p, "assign", [job[p] EXCEPT !.todo =
           {l \in InTerm(job[p].seen.term) : row[l].count < row[l].cap}])
    /\ UNCHANGED <<exists, row, roster, lock, born, staged, saves, rewound, shrunk>>

\* Variant: the lectures are listed without ORDER BY.
NextInLoop_AnyOrder(j, l) == j.users # {} /\ l \in j.todo

\* The lecture the loop turns to; it ends early when the pool is empty.
NextInLoop(j, l) ==
    /\ j.users # {}
    /\ l \in j.todo
    /\ \A m \in j.todo : l <= m

\* The next lecture of the loop, locked, or skipped when it is gone.
AutoLock(p) ==
    /\ pc[p] = "assign"
    /\ \E l \in Lectures :
          /\ NextInLoop(job[p], l)
          /\ \/ /\ LockRow(p, l)
                /\ Goto(p, "fill", [job[p] EXCEPT !.todo = @ \ {l}, !.lecture = l,
                                                  !.seen = row[l]])
             \/ /\ l \notin exists
                /\ Goto(p, "assign", [job[p] EXCEPT !.todo = @ \ {l}])
                /\ UNCHANGED lock
    /\ UNCHANGED <<exists, row, roster, born, staged, saves, rewound, shrunk>>

\* Variant: pool.slice instead of pool.splice.
Spliced_Slice(pool, selected) == pool

\* What pool.splice leaves in the pool.
Spliced(pool, selected) == pool \ selected

\* Variant: selected.length is added to the count.
Inserted_All(l, selected) == selected

\* affectedRows of INSERT IGNORE: rows of the unique index are left out.
Inserted(l, selected) == selected \ roster[l]

\* pool.splice(0, remaining) of a shuffled pool: any subset of that size.
AutoFill(p) ==
    /\ pc[p] = "fill"
    /\ LET j         == job[p]
           remaining == j.seen.cap - j.seen.count
       IN  \/ /\ remaining <= 0
              /\ Goto(p, "assign", j)
              /\ UNCHANGED staged
           \/ /\ remaining > 0
              /\ \E selected \in SUBSET j.users :
                    /\ Cardinality(selected) <= remaining
                    /\ selected # j.users => Cardinality(selected) = remaining
                    /\ \A q \in Procs : ~BlocksInsert(q, j.lecture, selected)
                    /\ Goto(p, "assign", [j EXCEPT !.users = Spliced(@, selected)])
                    /\ staged' = [staged EXCEPT ![p][j.lecture] =
                                     Inserted(j.lecture, selected)]
    /\ UNCHANGED <<exists, row, roster, lock, born, saves, rewound, shrunk>>

AutoCommit(p) ==
    /\ pc[p] = "assign"
    /\ job[p].users = {} \/ job[p].todo = {}
    /\ Book(staged[p])
    /\ Finish(p)
    /\ UNCHANGED <<exists, born, saves, rewound, shrunk>>

-----------------------------------------------------------------------------
(* A request that throws, is chosen as a deadlock victim, times out on a lock
   or dies with its process is rolled back: nothing it staged is kept. *)

Abort(p) ==
    /\ pc[p] # "idle"
    /\ Finish(p)
    /\ UNCHANGED <<exists, row, roster, born, saves, rewound, shrunk>>

Step(p) ==
    \/ CreateInsert(p)
    \/ UpdateReload(p) \/ UpdateWrite(p)
    \/ EnrollCommit(p)
    \/ DropLecture(p) \/ DropUser(p) \/ DropCommit(p)
    \/ BulkTerm(p) \/ BulkEligible(p) \/ BulkCommit(p)
    \/ AutoList(p) \/ AutoLock(p) \/ AutoFill(p) \/ AutoCommit(p)

Request(p) ==
    \/ \E t \in Terms, cap \in Capacities : CreateReadCode(p, t, cap)
    \/ \E l \in Lectures : UpdateFind(p, l)
    \/ \E l \in Lectures, u \in Users : EnrollLock(p, l, u) \/ DropEnrollment(p, l, u)
    \/ \E l \in Lectures, S \in SUBSET Users : BulkLock(p, l, S)
    \/ \E t \in Terms : AutoPool(p, t)

Next ==
    \/ \E p \in Procs : Request(p) \/ Step(p) \/ Abort(p)
    \/ \E l \in Lectures : Delete(l)

Spec == Init /\ [][Next]_vars

-----------------------------------------------------------------------------
(* Properties. *)

\* Every variable keeps its shape, and only a row that exists is locked: a
\* lecture cannot be deleted under a booking that is under way.
TypeOK ==
    /\ exists \subseteq Lectures
    /\ row \in [Lectures -> Row]
    /\ roster \in [Lectures -> SUBSET Users]
    /\ lock \in [Lectures -> Procs \cup {NoProc}]
    /\ born \subseteq Lectures
    /\ pc \in [Procs -> PCs]
    /\ job \in [Procs -> Job]
    /\ staged \in [Procs -> [Lectures -> SUBSET Users]]
    /\ saves \in 0 .. MaxSaves
    /\ rewound \subseteq Lectures
    /\ shrunk \subseteq Lectures
    /\ \A l \in Lectures \ exists : lock[l] = NoProc

\* currentCount is the number of enrollments of the lecture, across concurrent
\* self-enrollment, drops, bulk enrollment and automatic assignment, as long as
\* no updateLecture save has written the currentCount column back.
CountAccurate ==
    \A l \in exists \ rewound : row[l].count = Cardinality(roster[l])

\* A lecture somebody attends has at most maxCapacity enrollments, unless a save
\* rewound its count or lowered its capacity below the count (updateLecture
\* checks the capacity against a count it read without a lock).
NoOverbooking ==
    \A l \in exists \ (rewound \cup shrunk) :
        roster[l] # {} => Cardinality(roster[l]) <= row[l].cap

\* Whatever saves did before, the step that adds enrollments to a lecture leaves
\* currentCount at no more than the capacity stored at that moment.
BookingWithinCapacity ==
    [][\A l \in Lectures :
          ~(roster'[l] \subseteq roster[l]) => row'[l].count <= row'[l].cap]_vars

\* One run of autoAssignLectures puts a user in at most one lecture, although it
\* inserts lecture by lecture and skips users already enrolled.
AssignedOncePerRun ==
    \A p \in Procs : \A l, m \in Lectures :
        l # m => staged[p][l] \cap staged[p][m] = {}

\* Request p, which keeps rows locked itself, waits for a row that q has locked.
WaitsFor(p, q) ==
    LET j == job[p]
    IN  \/ pc[p] = "assign" /\ \E l \in Lectures : NextInLoop(j, l) /\ lock[l] = q
        \/ pc[p] = "dropping" /\ lock[j.lecture] = q
        \/ pc[p] = "dropuser" /\ \E u \in j.users : HoldsUser(q, u) \/ SharesUser(q, u)
        \/ /\ pc[p] \in {"enroll", "bulk", "fill"}
           /\ pc[p] # "fill" => j.users \cap roster[j.lecture] = {}
           /\ BlocksInsert(q, j.lecture, j.users)
        \/ pc[p] = "term" /\ HoldsTerm(q, j.seen.term)

\* Requests that all wait for one another: nobody goes on until the database
\* rolls one of them back.
Circle(D) == D # {} /\ \A p \in D : \E q \in D : WaitsFor(p, q)

\* autoAssignLectures keeps the lectures it has filled, and shares the users it
\* has put in them, while it waits for the next lecture; a bulk enrollment waits
\* for the term with its lecture locked.  Even so enrollments of the three kinds
\* never wait for one another in a circle: a circle takes a dropLecture that waits
\* with its enrollment or its lecture locked, since only its joined SELECT takes
\* enrollment, lecture and user in an order of its own.
CircleTakesDrop ==
    \A D \in SUBSET Procs :
        Circle(D) => \E p \in D : pc[p] \in {"dropping", "dropuser"}

\* What ADR 0003 (docs/adr/0003-pessimistic-lock-for-concurrency.md:24) promises
\* of the lecture booking: no lecture ever has more enrollments than seats.
\* Lectures an administrator shrank below their count are left out.
NeverOversold ==
    \A l \in exists \ shrunk :
        roster[l] # {} => Cardinality(roster[l]) <= row[l].cap

\* Lecture booking behaves as a ledger in which every request is one atomic step.
Ledger == INSTANCE LectureLedger WITH exists <- exists, row <- row, roster <- roster
LedgerSpec == Ledger!Spec
=============================================================================
