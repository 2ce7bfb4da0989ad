# cba_was_renewal in TLA+

A verification project for the NestJS backend of the CBA retreat application
(`src/`, `apps/`): TLA+ modules of the parts in which requests, transactions and
messages interleave, TLC configurations that check them on small instances, and
theorems about them with proofs for TLAPS. `PROJECT.json` is the machine-readable
index: which definition models which lines, which run checks which property,
which property each hazard of the code is covered by.

Paths below are relative to the repository root.

## 1. The system

One API process (NestJS, TypeORM on MySQL with REPEATABLE READ, Redis, RabbitMQ),
possibly in several instances, and two worker processes that consume RabbitMQ
queues. The parts and how they meet:

| Component | State | Operations | Meets | Module |
|---|---|---|---|---|
| Lecture booking (`src/modules/lecture`) | tables Lecture (`currentCount`, `maxCapacity`, `codeNumber`), LectureEnrollment | create, update, delete, enroll, drop, bulk-enroll, auto-assign | reads Application.status (CHECKED_IN) for eligibility | `Lecture` |
| Applications (`src/modules/application`) | table Application with meals, transports, answers | upsert, cancel, play event, QR check-in, admin update | catalogue, survey, user | `Application`, `Form` |
| Surveys and questions (`application/services`) | Survey, Question, QuestionOption | create, update, reorder, delete | answers of applications | `Questionnaire`, `Catalogue`, `Form` |
| Retreats, meals, transports (`src/modules/retreat`) | the catalogue applications select from | create, update, delete | selections of applications through foreign keys | `Catalogue`, `Form` |
| Queue workers (`apps/push-worker`, `apps/email-worker`) | Redis keys done, lock, status, retry per job | handle a message, fail and retry | RabbitMQ, Expo, SMTP | `JobWorker` |
| RabbitMQ producer (`src/infrastructure/rabbitmq`) | cached connection, channel, queue setups | publish | all publishers, workers | `JobWorker`, `Auth` (partly) |
| Push reservations (`push-notification`, scheduler) | Redis sorted set, hashes, a counter | reserve, cancel, list, pop due and send | push tokens, Expo | `Reservation` |
| Push tokens (`push-token`) | table PushToken | register, delete | users, senders | `Records` |
| Carpool (`src/modules/carpool`) | CarpoolRoom (`seatsLeft`, `status`, `isArrived`), CarpoolMember | create, update, delete, join, leave, status, start, two cron jobs | producer, users | `Carpool` |
| Auth (`src/modules/auth`) | Redis refresh tokens and verification codes | login, logout, refresh, send and verify e-mail | e-mail worker | `Auth` |
| Users (`src/modules/user`, registration and reset in `auth.service.ts`) | table User | register, reset password, edit profile and address, admin update, delete | what Auth proves of an address | `Account` |
| Terms, notices, consents, system settings | one table each | find, change, save | retreats (current retreat) | `Records` |
| Dashboard, queries, mappers | none | reads | - | - |
| Chat, pray, youtube | entities without operations | - | - | - |

What is hard in this code:

- *Transactions and the ORM.* `SELECT ... FOR UPDATE` reads the newest committed
  row, plain reads of a transaction see the snapshot of its first plain read, and
  `save` writes only the columns in which the entity differs from a read of its
  own. Where two of these meet in one request, the request decides on one state
  and writes against another.
- *Find, await, save.* Many services read an entity, await something and save it
  without a transaction. A `save` that finds the row gone inserts it again.
- *Workers.* A lock with a time to live, a done marker, acknowledgements, requeues
  and two delayed retry queues, under crashes, lost channels and errors.
- *Redis commands one after another.* A code is read, compared and deleted, a
  reservation is listed, loaded and removed in calls of their own, under a clock.
- *Several steps, no transaction.* A question and its options are saved in separate
  commits, beside submissions that validate against them.

What makes each component correct: no lecture oversold, counts that match
rosters, nobody assigned twice in a run; check-in status and time agree, accepted
submissions survive, results and payments are never undone; answers and choices
that refer to what exists; no job lost, none sent by two workers at once, all jobs
settled; reservations sent once or canceled, none forgotten; codes redeemed
once; one account to an address, a stamp that belongs to it; rows that are as
the last accepted request wanted them; seats of a ride that match its members,
drivers reminded once by each instance.

## 2. The modules

Each component is a module with its state as variables, one action per operation
or per step between two awaits, and its properties at the end. A process (`Procs`,
`Callers`, `Runs`, `Workers`) is a request, a run of a cron job or a handler slot;
`pc` tells between which two statements of the code it stands and `job` what it
remembers. The `MC` modules give constants their values for TLC. Definitions with
a suffix (`Referable_Any`, ...) are variants a plausible mistake would lead to; they
are used by no action and are there to show that a property tells them apart.

### Lecture, LectureLedger

`Lecture.tla` models every writing operation of `lecture.service.ts`. A transaction
with `pessimistic_write` is an action that takes the row lock (`LockRow`) and one
that commits; what auto-assignment inserts before its commit is `staged`.
`FOR UPDATE` locks each row the statement joins: a drop takes the enrollment, the
lecture and the user, one action each (`DropEnrollment`, `DropLecture`, `DropUser`), a
bulk enrollment the lecture and its term (`BulkLock`, `BulkTerm`). The locks beside
those on lectures follow from where a request stands (`HoldsEnrollment`, `HoldsUser`,
`HoldsTerm`). An INSERT shares the rows its foreign keys name and waits for whoever
has them or an enrollment like its own (`SharesUser`, `BlocksInsert`).
`updateLecture` is three steps: load (`UpdateFind`), the re-read inside `save` that
decides which columns are dirty (`UpdateReload`) and the UPDATE (`UpdateWrite`), which
waits for a row lock but does not re-validate. Eligibility (`getEligibleUsersForTerm`)
reads committed enrollments on another connection. `Abort` is any rollback: an
exception, a deadlock victim, a lock timeout or the death of the process.

History variables name the two known ways to break a count: `rewound` (a save
wrote `currentCount`) and `shrunk` (a save put the capacity under the count).
`CountAccurate` and `NoOverbooking` are stated for all other lectures;
`BookingWithinCapacity` and `LedgerSpec` hold without exception.

Requests can deadlock: an assignment that has inserted an enrollment of a user, and
so shares the row of the user, waits for the next lecture, while a drop of that user
has this lecture locked and waits for the user; or it inserts once more an enrollment
that a drop has locked, while the drop waits for the lecture. MySQL rolls one
of them back (`Abort`), a risk `docs/adr/0003-pessimistic-lock-for-concurrency.md` line 29
accepts. `CircleTakesDrop` says how far it goes: a circle of requests that wait for one
another (`Circle`) always has a drop in it, waiting for its second or third row;
enrollments of the three kinds, which all take the lectures in order and the rest after,
never form one by themselves.

`LectureLedger.tla` is the abstract specification: each booking, release,
opening, closing and edit is one atomic step, and a booking never takes the
displayed count past the displayed capacity. `Lecture` implements it with the
identity mapping on `exists`, `row`, `roster`.

### Application

`Application.tla` models the five use cases that write an application. The two
reads an upsert makes of the same row are kept apart: `base`, the snapshot taken
by the first plain read, and `seen`, the newest row the locking read returns;
`Saved` writes the columns in which the entity differs from the read of `save`.
Cancellation and the administrative update read the row with the lock first, so
their `base` equals their `seen`. The event use case counts winners without a
lock (`PlayCount`) before it writes the result. Check-in is a read and an UPDATE in
no transaction. The history variable `told` is the last accepted submission of a
user, `stale` marks those accepted against a snapshot in which the application had
another status.

Meals, transports and answers are one value here, the form: the properties need to
tell two submissions apart, and a refused one is an `Abort`; what is in the form is
the subject of `Form`. The status "none" stands for the absence of a row. The group
column of the user, which a submission also saves, is left out.

### Questionnaire, Catalogue, Form

`Questionnaire.tla` models `question.service.ts`. Creating a question is the check of
options with the count of questions, the INSERT, and then the synchronisation of the
options in three statements (`ReadOptions`, `PruneOptions`, `AttachOptions`); a failure
in between leaves the question saved (`Fail`, history `loose`). Reordering and deleting
are transactions. The unique indexes and foreign keys are guards of the writes.
Titles and labels are left out, and the saving of a question is one step.

`Catalogue.tla` models the retreat with its forms, the meals and the transports:
lookup and write apart for each, deletion after a count of the choices, refused by
the foreign key when a choice has come meanwhile, and the save of a form loaded
earlier (history `late`, `overwritten`). Periods are open or closed, which stands for
the two dates; menus, places and times are left out. There is one retreat, and
questions belong to its form 1 (`Main`). A form is deleted unless applications or questions
of its own refer to it (`RemoveSurvey`, to which `Form` passes the forms with questions,
`Asked`). `PeriodsStand` makes one exception, for a form that an update of the retreat's
title saved after another request wrote it: that update asks for no period and writes the
one it had loaded. Requests that do ask for a period, create or delete a form are
excepted nowhere, however they overlap.

`Form.tla` composes the two over shared tables with the submissions: a submission
validates meals, transports and answers against one snapshot and stores them at its
commit, beside every request of an administrator. It instantiates both modules, and
its properties are stated by them. `Actors.tla` declares the requests and users that
`Form` has in common with `Application`, so that one module can hold the theorems of
both; what a `Filled` form may be at the start is the assumption `SoundForm`.

Two details came out of the proofs of section 4 and not of the instance that is run:
a deleted transport keeps its columns (`RemoveTransport`), since an edit that was
loaded before the deletion brings the row back and is compared with what it was; and a
reordering may meet a number in use among its own places (`crowded`) once there are more
than `Shift` of them.

Some behaviour of the code that these modules make visible: a reordering that
leaves questions out keeps the temporary numbers (plus 1000) of those, and a later
one may collide with them; moving existing options always fails on the unique index
of the number, although the comment at `question.service.ts` line 230 lists their order
among what the synchronisation handles; a question created after a deletion that was
not the last is refused, since the number is a count plus one (line 52); a change of the
title of a retreat writes back the period of the form as it was loaded.

### JobWorker, JobPromise

`JobWorker.tla` models the handler both workers share, statement by statement:
done marker, `SET NX` of the lock, side effect, `MULTI` that marks and unlocks,
ack; in the catch block the unlock, the republication and the ack. A worker of
the model is one of the five handler slots of a process. The broker keeps the
number of copies of every message in the request queue and in the queue its retry
count selects; `Deliver` takes any of them. Faults, at most `MaxFaults` of them:
an awaited call throws, with or without its effect (`Throw`, `FailureThrows`), the
process dies (`Crash`), the channel closes under a running handler
(`Disconnect`), the lock key expires under a live holder (`LockExpiresEarly`).
The ordinary expiry of an abandoned lock is not a fault.

Left out: the status and retry keys, which no code reads; the expiry of the done
marker, 24 hours against at most six minutes of retries; the distinction of
notice and message pushes, which only selects queue names.

`JobPromise.tla` is what a publisher may rely on: a job waits until it is
recorded as sent or lies in the dead-letter queue, and is recorded only after it
was sent. `phase` in `JobWorker` is the refinement mapping.

### Reservation, ReservationPromise

`Reservation.tla` models `reserve-push`, `cancel-reservation` and `pop-due-reservations`
over the sorted set (`due`) and the hashes (`data`), the minute job that sends what is
due, and the chunks of `expo-notification.service.ts`. Each Redis command or MULTI
block, query and request to Expo is a step. A run reads the members due, then the
hashes, removes both keys in one MULTI, and then takes one reservation after another:
its tokens, its chunks. Several runs overlap: cron starts the next one while a slow
one sends, and each server has its own. A run may die anywhere, the query of tokens
may fail (both leave what the run held to `dropped`), and a chunk may be refused, which
the code logs and passes over (`refused`). The title of a reservation is 0 or 1: a
hash without one counts as missing and is removed unsent.

History: `crossed` (cancellations a run was ahead of), `overlaps` (reservations a run
read while another held them), `closed` (dealt with by a run).

`ReservationPromise.tla` is what reserving promises: a reservation is picked up only
while it is booked, and each run that picked it up owes it once to every receiver.
The mapping computes `owed` from what the runs hold (`OwedBy`) and `phase` from the
keys (`PhaseOf`).

### Auth, EmailProof

`Auth.tla` models the part of `auth.service.ts` that lives in Redis: codes and refresh
tokens with their time to live, under a clock of minutes. Sending a code is the
lookup, the SET and the publication, which may fail; the mail is a job that arrives
or fails and waits one and then five minutes (`Delay`), which abstracts `JobWorker`.
Verification is the GET with the comparison, and the DEL with the signature. Login
signs a token and stores it in two steps; refresh compares the token and then looks
the user up. Codes are numbered in the order they are drawn and never guessed: a
verification gives a code back that arrived by mail.

`EmailProof.tla` is the interface between `Auth` and `Account`: an address is proven only
after a code was asked for it, and for a while. `Auth` implements it (`asked` are
the addresses codes were drawn for, `proven` those of live verification tokens), and
`Account` builds on it.

### Account

`Account.tla` models the table of users: registration (address free, userId free, INSERT
under both unique indexes), password reset by address, and the use cases of
`src/modules/user`. Each edit is load, edit in memory, the read of `save` and its
write of the columns that differ. The stamp `emailVerifiedAt` is the address it was
set for; name, group, phone, rank and the rest of the profile are one column. An
administrator may set profile, password and address in one request (`AdminUpdate`).
`late` are the requests whose entity another one has written since. When such a request
saves, `overwritten` takes the columns, and only those, that it writes without having
edited them, or does not write though it did (`Mislaid`); `EditsStand` is about every
other column of every row, those of the late request's own edits included. `crossed` are
the rows written between the read and the write of a save.

### Records

`Records.tla` models the services over single rows: notices, terms, consents, push
tokens and the system configuration, all of them find, edit, `save` with its read and its
write apart; removal by one statement. The row `Config` is created by the first
request that misses it. The selected term and retreat are validated first, the removal of
the retreat may overlap, and the foreign key refuses the save or clears the selection
(`Cleared`).

`Updated` follows TypeORM: a selection that was loaded together with its object
(`get-system-config.query.ts` lines 16-19) is saved from the object and not from the column
that was set, so that PUT admin/system can write a term or a retreat only where none is
selected (`Effective`). `RecordsStand` covers both columns, with this reading of what a PUT
asks for: the first selection stands against every later PUT until its retreat is removed.
That an accepted PUT changes nothing is listed with the other differences from the documents
below.

### Carpool

`Carpool.tla` models every writing operation of `carpool.service.ts` and the two
jobs of `carpool.schedule.service.ts`. The transactions of this service start
with plain reads of a snapshot and then write without having locked anything
first: the reads are one action (`JoinCheck`, `LeaveCheck`, `DeleteCheck`,
`StatusFind`), the writing statements with the commit another (`JoinCommit`, ...).
The writes of one transaction may be one action because each acts on the latest
committed row under a lock it keeps to the commit, so that they are as if they
happened at the commit; a transaction that loses a deadlock is `Abort`.
`updateCarpoolRoom` has no transaction and is four actions: load, the read of
`save`, its UPDATE (`UpdateWrite`) or, for a room that is gone, its INSERT with the
old id (`UpdateInsert`), and the read of the members to notify.

A notice is the set of users it goes to (`to`); publishing it is the last step of a
request, and a failure of the queue is swallowed by the code. The clock counts in
units of which the reminder job has `Period` between two runs and looks `Lead`
ahead. Every instance of the API (`Servers`) registers the job for itself, and nothing
tells one that another has run: `Tick` fires it on each, and the run of an instance
reads the rooms some time later (`ReadyCheck`), or fails before, while or after it reminds
some of the drivers (`ReadyFail`). `isArrived` is the 0 or 1 of the column.

History variables: `edited` (a save wrote a seat column, or inserted the room
again), `phantom` (a leave that removed no membership), `gone` (deleted rooms),
`since` (the last change of departure or arrival), `skipped` (failed runs of the
job). `SeatsAddUp` holds as an inequality for every unedited room and as an
equation for those without a phantom leave.

### Where the code goes on other than its documents say

One such behaviour is checked as a violation (`LectureOversold`). The others show in
the history variables and exceptions of the properties:

- A resubmission accepted against a snapshot in which the row was not yet canceled
  leaves it CANCELED (`stale` in `Application`);
  `docs/specs/renew_application.spec.md` line 545 wants it restored to SUBMITTED.
- Concurrent players can exceed the number of winners (`WinnersBounded` says by how
  much); `docs/adr/0003-pessimistic-lock-for-concurrency.md` line 24 excludes it.
- The QR check-in does not look for CANCELED; `docs/specs/back-office-functional.spec.md`
  line 210 forbids it.
- A term or a retreat that is selected can neither be changed nor cleared by PUT
  admin/system, which answers with success (`Updated` in `Records`);
  `docs/specs/system-settings.spec.md` lines 51 and 75 and
  `update-system-config.usecase.spec.ts` line 66 speak of changing it.
- With several instances of the API a driver is reminded once by each of them
  (`ReadyOncePerInstance`), since each runs the job (`carpool.schedule.service.ts` line 13).
- Two overlapping leaves of one member both succeed and add two seats (`phantom` in
  `Carpool`); the 409 of `carpool.controller.ts` line 169 is for non-members.
- A deletion that commits between the load and the `save` of an update of a room is
  undone by it (`UpdateInsert`), although the route promises a 404
  (`carpool.controller.ts` line 139).
- Somebody who joins between the read of the members (`ListMembers`) and the deletion
  loses the ride without a notice, although the comment at `carpool.service.ts` line
  433 names all members but the driver.

## 3. The runs

| Run | Bounds | Distinct states | Shows |
|---|---|---|---|
| `Lecture` | 2 requests, 2 lecture ids, 3 users (2 eligible), 1 term, capacities 1 and 2, 1 update | 1 888 614 | counts, capacities, single assignment, circles of locks only with a drop, refinement of the ledger |
| `LectureOversold` | 2 requests, 2 users | - | *violation*: ADR 0003 line 24 promises that the lock excludes over-booking; `updateLecture` defeats it |
| `Application` | 1 user, 3 requests, 2 payments, 2 forms | 194 453 | check-in columns agree, submissions stand, check-ins and payments are undone by administrators only |
| `ApplicationEvent` | 3 users, 2 requests, limit 1 | 2 050 683 | winners bounded by limit + requests - 1, results final |
| `JobWorker` | 1 job, 2 handlers, 4 faults, fair | 327 130 | no loss, single sender, bounded sends, `JobPromise` kept, the job settles |
| `Carpool` | 1 room, 3 users, 2 requests, 2 seats, 1 update | 852 542 | seats and members add up, deletions are announced afterwards |
| `CarpoolClock` | 1 room, its driver, 2 instances, 1 request, 2 departures, 5 instants, 1 update, fair | 1 312 310 | reminders exactly once by each instance, old rides arrive |
| `Reservation` | 2 ids, 2 overlapping runs, 1 administrator, 2 users with 3 tokens (one no Expo token), chunks of one, 2 instants, 1 fault, fair | 286 588 | nothing sent after a cancellation, twice or never but for the named reasons; `ReservationPromise` kept; every reservation is dealt with |
| `Auth` | 2 requests, 2 codes, 2 addresses, 2 logins of 1 user, 7 minutes | 4 074 776 | codes redeemed once, the newest stands, the last retry is in vain, `EmailProof` kept |
| `Account` | 2 requests at once, 3 in all, an old row and a new one, 2 userIds, 2 addresses, 2 texts | 536 472 | no twins, stamps match addresses, edits stand |
| `Records` | 2 requests at once, 3 in all, a notice, a term, a token, 2 users, 2 retreats, 2 values | 1 521 338 | rows and selections stand unless a late save comes, no dangling selection |
| `Form` | 2 requests at once, 3 in all, an empty and a filled form, 3 questions, 3 options, 2 forms, 2 meals, 3 transports, 1 applicant | 1 255 951 | stored answers and choices fit, the next number is free, periods stand |

Why the bounds are enough. A lecture interacts with another one only through the
eligibility of users and the lock order of auto-assignment, so two suffice; each
wrong interleaving known is one of two requests, and the third user makes a
self-enrollment of somebody outside the pool possible. For applications of one
user three requests let a snapshot, a lock and a second writer overlap; the
event needs as many users as can exceed the limit, which two requests reach at
limit 1 with a third applicant left over. A job has at most four attempts, so
four faults reach the dead-letter queue with one to spare for a crash or a
channel loss. Rooms of a carpool do not interact at all; with two seats and three
users the last seat is contended. In `CarpoolClock` the runs of minutes 2 and 4 look at
the intervals 3 to 5 and 5 to 7, so that one departure begins each of them and the later
one is on the boundary of both; an update moves the room from one to the other, a
departure in 3 grows old, and two instances may run any of this late or in the other order.

Two runs of the scheduler are what overlaps, two reservations let one be held
while the next is sent, and chunks of one put a refused chunk before others. Two
codes of one address are an old and a new one, and seven minutes pass the life of a
code (three) and the delays of its mail (one, then five). Where rows are found, edited
and saved, two requests make one late and the third finds what it left; one row of
each table is enough because the tables meet only where the run has both (the
configuration with the term and the retreats, the users and the unique indexes); two
retreats let a PUT change a selection, the one term lets it be cleared. In `Form` the
filled start saves the requests that would fill the form, so that three are left
to disturb it; answers in words and one kind of choice stand for the three kinds,
since `SINGLE_SELECT` differs by the number of options in an answer only. The
theorems below remove the bounds for everything proved.

The bounds in the guards are `MaxSaves` (updates), `MaxFaults`, `MaxTime` (the
clock), `MaxLeft`, up to which phantom leaves may raise `seatsLeft`, `MaxCodes`,
`MaxLogins`, `MaxOptions` and `MaxRequests`, and the sets of ids.

`JobWorker` does not check deadlock: the system rests once the job has settled. `Carpool`
rests when the room ids of the instance are used up, all rooms are deleted and the
clock stands; `Auth` when codes, logins and minutes are used up; `Account`, `Records`
and `Form` when `MaxRequests` requests have ended. All other runs check it.

Type invariants are proved (section 4) rather than run, except that of `Form`, which is
both: it contains the foreign keys and unique indexes.

Fairness. `FairSpec` of `JobWorker`: every awaited call returns or throws (weak
fairness of each handler), keys and delayed messages expire (weak fairness), and
a message that is requested again and again is eventually delivered (strong
fairness of delivery per message, since a slot may be busy and a requeued message
returns to the head of the queue). Faults are not fair, and there are finitely
many. A message whose failure handling threw keeps its slot until the channel
closes, which nothing forces; `Settles` says so. `FairSpec` of `Carpool` asks for the
hourly job only (weak fairness of `OldArrive`): cron starts it again and again.
`FairSpec` of `Reservation`: time passes (`Tick`), cron fires the minute job in every
run that is idle (`Fire`), and each awaited call of a run returns or throws (`Work`);
administrators and faults are not fair. It is what `EveryoneServed` needs: what is
due leaves the book and the hands of the runs.

## 4. What is proved

Theorems are in eight modules, `LectureProofs`, `ApplicationProofs`,
`JobWorkerProofs`, `CarpoolProofs`, `ReservationProofs`, `AuthProofs`, `AccountProofs`
and `RecordsProofs`, for any number of requests, rows, ids, users, handlers, runs and
faults, from the named assumptions on the constants of each module
(`ConstantsAssumption`, `RecordsAssumption`, `FormAssumption`: finite sets where sets are
counted, ids that are positive numbers, a placeholder outside the set it stands for; and
`FilledAssumption`: a form at the start is one requests leave that have all ended). None
of the invariants is inductive: each needs what a request in flight remembers. `IInv` of a
module (`FormInv` of `Form`) adds that, one clause per point of a request. Every invariant
and every safety action property a passing run checks has its theorem.

- `Lecture`: type correctness, `CountAccurate`, `NoOverbooking`,
  `AssignedOncePerRun`, `BookingWithinCapacity`, `LedgerSpec` and `CircleTakesDrop`. A commit adds what
  its request read and staged earlier, so `IInv` adds `RequestInv`, which says that a
  request past its locking read holds the lock and that what it remembers is what the
  row still holds, and `TablesInv` for what the tables say of one another. A lemma per
  kind of step shows that the requests that do not move keep their clause, because
  nobody writes a row another request has locked. `CircleTakesDrop` has an
  invariant of its own, `OrderInv`: a request holds no lecture outside a booking, and a
  run of the assignment none of those it has still to come to. In a circle without a
  waiting drop only runs of the assignment are left, since whoever has an enrollment, a
  user or a term locked waits for nobody (`OnlyAssignmentsCircle`); there whoever waits for
  a lecture is waited for at a later one, and among finitely many there is a last
  (`NoOtherCircle`).
- `Application`: type correctness, `CheckInConsistent`, `WinnersBounded`,
  `SubmissionStands`, `ResultFinal`, and `AdminDecides` with its halves `CheckInsStand` and
  `PaymentsStand`. The heart of `IInv` is how an old snapshot relates to the locked row:
  both are consistent rows, so writing the columns that differ leaves a consistent
  one, and a request between its locking read and its commit sees the row unchanged
  but for columns it does not write. `WinnersBounded` rests on a count of the draws
  under way: each may win only if the winners, with those drawn since it counted,
  leave room for it.
- `Form` (in `ApplicationProofs`): `FormTypeOK`, `FormAnswerable`, `NextNumberFree`,
  `ChoicesHold` and `PeriodsStand`, each from the one invariant `FormInv`. What is stored
  is protected by the foreign keys only, and they do not say whose an option is: `Owned`
  does, for rows and for what requests remember (`Claimed`), so that an option deleted
  under a request in flight never becomes one of another question, and an answer valid
  against an old snapshot is valid when it is stored, or refused. `Numbered` bounds the
  numbers by their count until there is a gap, whence the next one is free; for a
  reordering this is the pigeonhole principle. `Editing` and `Arranging` say what a
  request of an administrator remembers at each point, `Boarding` what transports a
  submission will store; a question two requests write at once is `loose` before the
  slower one can leave it without options. A lemma per action shows that the others'
  clauses stay (`StillEditing`, `StillOwned`); and the removal of a form is refused as long as it has questions, as their
  insertion is once it has gone.
- `JobWorker`: type correctness, `SingleSender`, `NoLoss`, `SendsBounded` and `PromiseSpec`. `IInv`
  adds that a sender holds the lock key unless it was taken away, that what is
  queued or handled was published, that marking follows sending, and `Kept`: a
  copy of the job that outlasts the acknowledgement of every handler about to give
  its message up. `NoLoss` follows because only the dead-letter queue holds
  messages that never come back, and the refinement because a step touches the
  copies of one job only (`Only`). `SendsBounded` counts: the sends of a job and the
  `Chances` left to send it once more, its waiting copies and the handlers that have it in
  hand, never exceed one more than the faults so far (`Budget`); a retry gives one chance
  up for another, and the done marker takes those of the copies away.
- `Carpool`: type correctness with membership in existing rooms, `SeatsAddUp`,
  `DeletionAnnouncedAfter`, `ReadyOncePerInstance` and `ReadyNotMissed`. `IInv` adds what a request knows at each point (`Fit`):
  its room has an id that was taken, a deletion reaches its notice only past its
  commit, and a change of status writes no other column; and `Accounted`, that every
  id taken is that of a room or of a deleted one. Two lemmas carry the steps: a step
  that leaves the tables alone (`MoveOn`), and one that changes one room and its
  members (`OneRoom`), where the arithmetic of a join or a leave is done. For the
  reminders, `ReminderInv` says that each was sent by a run of the job for a departure in
  its window: two runs less than a period apart are one (`SameRun`, over remainders by a
  parameter), on whatever instance, so the windows do not overlap, and they leave no gap because a step that
  changes a departure or a flag dates the room (`Dated`).
- `Reservation`: type correctness, `OnceUnlessOverlap`, `CancelHolds`, `NothingLost`,
  `EveryReceiverTried`, and `PromiseSpec`; besides them `KeysAgree` (the two keys hold
  the same ids) and `NotEarly` (nothing is sent before its time). `IInv` relates the two
  keys and the counter (`Books`), what requests and runs know at each point (`Asks`,
  `Knows`, `Lists`), which receivers a run has tried (`Tries`), and counts the sends of
  an id that only one run ever held: untouched, in its hands, or sent once to those it
  no longer has among its receivers (`Alone`, `Untouched`, `Sent`). The refinement computes
  what each run owes; a step changes what one run owes for one id.
- `Auth`: type correctness, `RedeemedOnce`, `NewestStands`, `LastRetryInVain` and
  `ProofSpec`. Codes are drawn in order (`InOrder`), so a new one is the newest and was
  never used; a redeemed code is stored nowhere (`Single`); and a mail's next attempt is
  as late after the start of its code's life as the delays so far (`Timed`).
  `LastRetryInVain` follows for all delays that add up to the life of a code, which is
  the assumption of `LastRetryTooLate`.
- `Account`: type correctness, `NoTwins`, `VerifiedMatches`, `EditsStand`. A row to be
  inserted, and each entity in memory, is stamped for its own address (`Stamped`); an
  entity nobody was ahead of agrees with its row outside the columns it touches (`Fit`).
  A save that was overtaken differs from what was wanted in the columns of `Mislaid` only.
- `Records`: type correctness, `RecordsStand`, `ConfigSelectsExisting`. `Alone` is a request
  nobody was ahead of on a row no late request has written; `Fit` says that its entity
  agrees with the row outside the fields it touches, so that the write leaves what
  was wanted; `Plain` that a row without an id has no content and a consent refers to nothing. One lemma (`Puts`)
  carries every statement that writes a row.

Only model-checked: the liveness properties `Settles` of `JobWorker`, `EveryoneServed` of
`Reservation` and `OldRoomsArrive` of `Carpool`, which rest on fairness and are out of the
prover's reach; and the violation `NeverOversold`.

## 5. What is not modelled

Read-only queries and the dashboard, mappers, guards and filters, migrations and
scripts, entities without operations, configuration and the adapters of mail and
push: they keep no state a property here is about. MySQL, Redis, RabbitMQ and TypeORM
are modelled as far as the code relies on them. `DeleteInvalidPushTokensUseCase` is
called by nobody; the lists of reservations only read.

What the models leave open, with the hazards it concerns:

- The cached connection and queue-setup promises of the RabbitMQ producer: a
  publication that fails is modelled where a request makes one, not why.
- The pool of database connections (`enrollEligibleUsers` asks for a second one while it
  holds a lock): transactions here get a connection whenever they ask.
- Which check-in time two scans of one code leave: `Application` keeps whether one is set.
- An access token answered to a refresh beside a newer login: it runs out by itself,
  and nothing in the code or its documents excludes it.
- The immediate pushes (`SendNoticePush`, `SendPushMessage`) beyond their publication,
  which is `JobWorker`'s; and the group column of the user a submission also saves.

What can be added: an abstract specification of a carpool room and of the questions of
a form, with their refinements.
