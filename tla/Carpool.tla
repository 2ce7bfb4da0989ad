------------------------------- MODULE Carpool -------------------------------
(***************************************************************************)
(* Shared rides: CarpoolService and CarpoolSchedulerService of             *)
(* src/modules/carpool over the tables CarpoolRoom and carpool_members.    *)
(*                                                                         *)
(* A process is one request in flight.  joinCarpoolRoom, leaveCarpoolRoom, *)
(* deleteCarpoolRoom and updateCarpoolStatus run in a transaction at       *)
(* MySQL's REPEATABLE READ: their plain reads see the snapshot of the      *)
(* first one, a step of its own here ("...Check"); their UPDATE, INSERT    *)
(* and DELETE statements act on the latest committed rows under locks held *)
(* to the commit, which serializes them: all of them and the commit are    *)
(* one step ("...Commit").  updateCarpoolRoom has no transaction: findOne, *)
(* the read and the write of repository.save, and the read of the members  *)
(* are four steps.  Every instance of the API registers both cron jobs for *)
(* itself when it starts; nothing tells one that another has run.          *)
(***************************************************************************)
EXTENDS Integers, FiniteSets

CONSTANTS
    Procs,       \* requests that may be in flight at once
    Servers,     \* instances of the API, each with its own cron jobs
    Rooms,       \* the auto-increment ids a room may get
    Users,       \* user ids
    SeatCounts,  \* the seatsTotal and seatsLeft values clients send
    Departures,  \* the departure times clients send
    Lead,        \* how long before departure the driver is reminded (an hour)
    Period,      \* the period of the reminder cron job (five minutes)
    Day,         \* the age at which a ride counts as over (a day)
    MaxTime,     \* bound: where the clock stops
    MaxSaves,    \* bound: how many updateCarpoolRoom calls are made
    MaxLeft      \* bound: up to which seatsLeft second leaves are let through

ASSUME ConstantsAssumption ==
    /\ Rooms \subseteq Nat \ {0}
    /\ IsFiniteSet(Users)
    /\ Users # {}
    /\ SeatCounts \subseteq Int
    /\ Departures \subseteq Nat
    /\ Lead \in Nat
    /\ Period \in Nat \ {0}
    /\ Day \in Nat
    /\ MaxTime \in Nat
    /\ MaxSaves \in Nat
    /\ MaxLeft \in Int

VARIABLES
    exists,   \* the ids that have a row in CarpoolRoom
    room,     \* the committed columns of each row
    members,  \* the users each room has a committed carpool_members row of
    born,     \* the ids the auto-increment counter has passed
    pc,       \* where each request stands
    job,      \* what each request remembers
    now,      \* the clock
    due,      \* runs of the reminder job that fired and have not read the rooms:
              \* <<instance, time>>
    readied,  \* reminders handed to the push queue: <<room, departure, instance, time>>
    skipped,  \* history: runs of the reminder job that failed
    since,    \* history: when departureTime or isArrived of a room last changed
    saves,    \* updateCarpoolRoom calls made so far
    edited,   \* history: rooms a save wrote a seat column of, or inserted again
    phantom,  \* history: rooms somebody left without being a member any more
    gone      \* history: rooms that were deleted

tables == <<exists, room, members, born>>
requests == <<pc, job>>
clock == <<now, due, readied, skipped>>
history == <<since, saves, edited, phantom, gone>>
vars == <<tables, requests, clock, history>>

-----------------------------------------------------------------------------
(* The shape of the data. *)

Statuses == {"before_departure", "in_transit", "arrived"}

\* isArrived is a TINYINT(1).
Row == [driver : Users, total : Int, left : Int, depart : Nat,
        arrived : {0, 1}, status : Statuses]

Columns == {"total", "left", "depart", "arrived", "status"}

Kinds == {"join", "leave", "update", "delete", "start"}

(* "reload"  entity loaded and edited, save pending     (updateCarpoolRoom)
   "write"   save found the row and compared columns    (updateCarpoolRoom)
   "insert"  save found no row                          (updateCarpoolRoom)
   "list"    about to read the members                  (update, delete, start)
   "check"   members read, transaction not begun        (deleteCarpoolRoom)
   "remove"  room seen in the transaction               (deleteCarpoolRoom)
   "join"    room seen, user not a member of it         (joinCarpoolRoom)
   "leave"   room seen, user a member of it             (leaveCarpoolRoom)
   "status"  room loaded in the transaction             (updateCarpoolStatus)
   "name"    members read, driver not looked up         (startCarpool)
   "push"    done but for the notice                    (publishCarpoolPush) *)
PCs == {"idle", "reload", "write", "insert", "list", "check", "remove",
        "join", "leave", "status", "name", "push"}

SomeUser == CHOOSE u \in Users : TRUE

NoRow == [driver |-> SomeUser, total |-> 0, left |-> 0, depart |-> 0,
          arrived |-> 0, status |-> "before_departure"]

Job == [kind : Kinds \cup {"none"}, room : Rooms \cup {0}, user : Users, seen : Row,
        dirty : SUBSET Columns, to : SUBSET Users]

NoJob == [kind |-> "none", room |-> 0, user |-> SomeUser, seen |-> NoRow,
          dirty |-> {}, to |-> {}]

Init ==
    /\ exists = {}
    /\ room = [r \in Rooms |-> NoRow]
    /\ members = [r \in Rooms |-> {}]
    /\ born = {}
    /\ pc = [p \in Procs |-> "idle"]
    /\ job = [p \in Procs |-> NoJob]
    /\ now = 0
    /\ due = {}
    /\ readied = {}
    /\ skipped = {}
    /\ since = [r \in Rooms |-> 0]
    /\ saves = 0
    /\ edited = {}
    /\ phantom = {}
    /\ gone = {}

-----------------------------------------------------------------------------
(* Helpers. *)

\* The request goes on at another point with what it remembers now.
Goto(p, point, j) ==
    /\ pc' = [pc EXCEPT ![p] = point]
    /\ job' = [job EXCEPT ![p] = j]

Finish(p) == Goto(p, "idle", NoJob)

\* What p still has to know once its columns are written.
Rest(p) == [NoJob EXCEPT !.kind = job[p].kind, !.room = job[p].room]

\* All that is left to do is to tell the users in S.
Tell(p, S) == Goto(p, "push", [Rest(p) EXCEPT !.to = S])

\* A request that is refused, or ends without a notice.
Quit(p) == Finish(p) /\ UNCHANGED <<tables, clock, history>>

\* since, when the row of r becomes e.
Since(r, e) ==
    since' = IF e.depart = room[r].depart /\ e.arrived = room[r].arrived
             THEN since ELSE [since EXCEPT ![r] = now]

-----------------------------------------------------------------------------
(* createCarpoolRoom: the room and the driver's membership, in one commit. *)

Create(p, u, n, d) ==
    /\ pc[p] = "idle"
    /\ \E r \in Rooms :
          /\ \A s \in born : s < r
          /\ born' = born \cup {r}
          /\ exists' = exists \cup {r}
          /\ room' = [room EXCEPT ![r] =
                 [NoRow EXCEPT !.driver = u, !.total = n, !.left = n - 1, !.depart = d]]
          /\ members' = [members EXCEPT ![r] = {u}]
          /\ since' = [since EXCEPT ![r] = now]
    /\ UNCHANGED <<requests, clock, saves, edited, phantom, gone>>

-----------------------------------------------------------------------------
(* updateCarpoolRoom: findOne, assign the fields sent, repository.save. *)

\* A field the client left out keeps its value in the entity.
UpdateFind(p, r) ==
    /\ pc[p] = "idle"
    /\ saves < MaxSaves
    /\ r \in exists
    /\ \E n \in SeatCounts \cup {room[r].total}, m \in SeatCounts \cup {room[r].left},
          d \in Departures \cup {room[r].depart}, a \in {0, 1} :
          Goto(p, "reload", [NoJob EXCEPT !.kind = "update", !.room = r, !.seen =
              [room[r] EXCEPT !.total = n, !.left = m, !.depart = d, !.arrived = a]])
    /\ saves' = saves + 1
    /\ UNCHANGED <<tables, clock, since, edited, phantom, gone>>

\* save reads the row back, to compare, or to learn that there is none.
UpdateReload(p) ==
    /\ pc[p] = "reload"
    /\ LET r == job[p].room
           e == job[p].seen
       IN  IF r \in exists
           THEN Goto(p, "write", [job[p] EXCEPT !.dirty =
                    {c \in Columns : e[c] # room[r][c]}])
           ELSE Goto(p, "insert", job[p])
    /\ UNCHANGED <<tables, clock, history>>

\* The row e with the columns of d taken from the entity s.
Saved(e, s, d) ==
    [e EXCEPT !.total   = IF "total"   \in d THEN s.total   ELSE @,
              !.left    = IF "left"    \in d THEN s.left    ELSE @,
              !.depart  = IF "depart"  \in d THEN s.depart  ELSE @,
              !.arrived = IF "arrived" \in d THEN s.arrived ELSE @,
              !.status  = IF "status"  \in d THEN s.status  ELSE @]

\* UPDATE CarpoolRoom SET <the differing columns> WHERE id = r.
UpdateWrite(p) ==
    /\ pc[p] = "write"
    /\ LET r == job[p].room
           d == job[p].dirty
           e == Saved(room[r], job[p].seen, d)
       IN  IF r \in exists
           THEN /\ room' = [room EXCEPT ![r] = e]
                /\ Since(r, e)
                /\ edited' = IF d \cap {"total", "left"} = {} THEN edited
                             ELSE edited \cup {r}
           ELSE UNCHANGED <<room, since, edited>>
    /\ Goto(p, "list", Rest(p))
    /\ UNCHANGED <<exists, members, born, clock, saves, phantom, gone>>

\* INSERT INTO CarpoolRoom with the id of the entity: a duplicate key when
\* another save was faster.
UpdateInsert(p) ==
    /\ pc[p] = "insert"
    /\ LET r == job[p].room
       IN  IF r \in exists
           THEN Quit(p)
           ELSE /\ exists' = exists \cup {r}
                /\ room' = [room EXCEPT ![r] = job[p].seen]
                /\ since' = [since EXCEPT ![r] = now]
                /\ edited' = edited \cup {r}
                /\ Goto(p, "list", Rest(p))
                /\ UNCHANGED <<members, born, clock, saves, phantom, gone>>

-----------------------------------------------------------------------------
(* Notices. *)

\* Variant: a deletion announces itself before it begins.
ListMembers_PushFirst(p) ==
    /\ pc[p] = "list"
    /\ LET r == job[p].room
       IN  Goto(p, IF job[p].kind = "start" THEN "name" ELSE "push",
                [job[p] EXCEPT !.to = members[r] \ {room[r].driver}])
    /\ UNCHANGED <<tables, clock, history>>

\* getCarpoolMembers, without the driver.
ListMembers(p) ==
    /\ pc[p] = "list"
    /\ LET r == job[p].room
       IN  Goto(p, CASE job[p].kind = "delete" -> "check"
                     [] job[p].kind = "start"  -> "name"
                     [] OTHER                  -> "push",
                [job[p] EXCEPT !.to = members[r] \ {room[r].driver}])
    /\ UNCHANGED <<tables, clock, history>>

\* publishCarpoolPush: the notice job[p].to leaves for the push queue.  A queue
\* that refuses it is logged and forgotten, so that the request ends either way.
Push(p) == pc[p] = "push" /\ Quit(p)

-----------------------------------------------------------------------------
(* deleteCarpoolRoom *)

DeleteFind(p, r) ==
    /\ pc[p] = "idle"
    /\ r \in exists
    /\ Goto(p, "list", [NoJob EXCEPT !.kind = "delete", !.room = r])
    /\ UNCHANGED <<tables, clock, history>>

DeleteCheck(p) ==
    /\ pc[p] = "check"
    /\ IF job[p].room \in exists THEN Goto(p, "remove", job[p]) ELSE Finish(p)
    /\ UNCHANGED <<tables, clock, history>>

\* The members, then the room; a room another deletion took away is no error.
DeleteCommit(p) ==
    /\ pc[p] = "remove"
    /\ members' = [members EXCEPT ![job[p].room] = {}]
    /\ exists' = exists \ {job[p].room}
    /\ gone' = gone \cup (exists \cap {job[p].room})
    /\ Goto(p, "push", job[p])
    /\ UNCHANGED <<room, born, clock, since, saves, edited, phantom>>

-----------------------------------------------------------------------------
(* joinCarpoolRoom *)

JoinCheck(p, r, u) ==
    /\ pc[p] = "idle"
    /\ r \in exists
    /\ u \notin members[r]
    /\ Goto(p, "join", [NoJob EXCEPT !.kind = "join", !.room = r, !.user = u])
    /\ UNCHANGED <<tables, clock, history>>

\* Variant: the insert ignores a membership that is there already.
JoinCommit_Ignore(p) ==
    /\ pc[p] = "join"
    /\ LET r == job[p].room
       IN  IF r \in exists /\ room[r].left > 0
           THEN /\ room' = [room EXCEPT ![r].left = @ - 1]
                /\ members' = [members EXCEPT ![r] = @ \cup {job[p].user}]
                /\ Tell(p, {room[r].driver})
                /\ UNCHANGED <<exists, born, clock, history>>
           ELSE Quit(p)

\* UPDATE seatsLeft = seatsLeft - 1 WHERE seatsLeft > 0, then the INSERT of the
\* membership, whose primary key refuses a second one and undoes the UPDATE.
JoinCommit(p) ==
    /\ pc[p] = "join"
    /\ LET r == job[p].room
       IN  IF r \in exists /\ room[r].left > 0 /\ job[p].user \notin members[r]
           THEN /\ room' = [room EXCEPT ![r].left = @ - 1]
                /\ members' = [members EXCEPT ![r] = @ \cup {job[p].user}]
                /\ Tell(p, {room[r].driver})
                /\ UNCHANGED <<exists, born, clock, history>>
           ELSE Quit(p)

-----------------------------------------------------------------------------
(* leaveCarpoolRoom *)

LeaveCheck(p, r, u) ==
    /\ pc[p] = "idle"
    /\ r \in exists
    /\ u \in members[r]
    /\ Goto(p, "leave", [NoJob EXCEPT !.kind = "leave", !.room = r, !.user = u])
    /\ UNCHANGED <<tables, clock, history>>

\* Neither the DELETE nor the UPDATE looks at how many rows it met, and the
\* snapshot still shows the room when both met none.
LeaveCommit(p) ==
    /\ pc[p] = "leave"
    /\ LET r == job[p].room
           e == [room[r] EXCEPT !.left = @ + 1, !.arrived = 0]
       IN  /\ job[p].user \in members[r] \/ room[r].left < MaxLeft
           /\ members' = [members EXCEPT ![r] = @ \ {job[p].user}]
           /\ IF r \in exists
              THEN /\ room' = [room EXCEPT ![r] = e]
                   /\ Since(r, e)
                   /\ phantom' = IF job[p].user \in members[r] THEN phantom
                                 ELSE phantom \cup {r}
              ELSE UNCHANGED <<room, since, phantom>>
           /\ Tell(p, {room[r].driver})
    /\ UNCHANGED <<exists, born, clock, saves, edited, gone>>

-----------------------------------------------------------------------------
(* updateCarpoolStatus, alone or called by startCarpool.  save compares with the
   snapshot of the transaction, so that status alone can differ. *)

StatusFind(p, r, s, kind) ==
    /\ pc[p] = "idle"
    /\ r \in exists
    /\ kind = "start" => s = "in_transit"
    /\ Goto(p, "status", [NoJob EXCEPT !.kind = kind, !.room = r,
                !.seen = [NoRow EXCEPT !.status = s],
                !.dirty = IF room[r].status = s THEN {} ELSE {"status"}])
    /\ UNCHANGED <<tables, clock, history>>

\* UPDATE CarpoolRoom SET status WHERE id = r, if any.
StatusCommit(p) ==
    /\ pc[p] = "status"
    /\ LET r == job[p].room
       IN  room' = IF r \in exists
                   THEN [room EXCEPT ![r] = Saved(@, job[p].seen, job[p].dirty)]
                   ELSE room
    /\ IF job[p].kind = "start" THEN Goto(p, "list", Rest(p)) ELSE Finish(p)
    /\ UNCHANGED <<exists, members, born, clock, history>>

\* getDriverName fails for a room that is gone.
StartName(p) ==
    /\ pc[p] = "name"
    /\ IF job[p].room \in exists THEN Goto(p, "push", job[p]) ELSE Finish(p)
    /\ UNCHANGED <<tables, clock, history>>

-----------------------------------------------------------------------------
(* The clock and the cron jobs. *)

\* cron: the reminder job fires on every instance each Period and takes the time,
\* of which checkCarpoolReady drops the seconds.
Tick ==
    /\ now < MaxTime
    /\ now' = now + 1
    /\ due' = IF now' % Period = 0 THEN due \cup (Servers \X {now'}) ELSE due
    /\ UNCHANGED <<tables, requests, readied, skipped, history>>

\* Variants: one bound of the interval is on the wrong side.
InWindow_Closed(d, t) == t + Lead <= d /\ d <= t + Lead + Period
InWindow_Open(d, t) == t + Lead < d /\ d < t + Lead + Period

\* departureTime is between an hour and an hour and five minutes from t.
InWindow(d, t) == t + Lead <= d /\ d < t + Lead + Period

\* The rooms checkCarpoolReady finds for time t.
Leaving(t) == {r \in exists : InWindow(room[r].depart, t) /\ room[r].arrived = 0}

\* The run of instance i for time t reads the rooms and reminds the drivers of S.
Remind(i, t, S) ==
    /\ <<i, t>> \in due
    /\ due' = due \ {<<i, t>>}
    /\ readied' = readied \cup {<<r, room[r].depart, i, t>> : r \in S}

ReadyCheck(i, t) ==
    /\ Remind(i, t, Leaving(t))
    /\ UNCHANGED <<tables, requests, now, skipped, history>>

\* The query fails, the queue refuses some of the reminders, or the instance is
\* down or dies on the way: nothing repeats the run.
ReadyFail(i, t) ==
    /\ \E S \in SUBSET Leaving(t) : Remind(i, t, S)
    /\ skipped' = skipped \cup {<<i, t>>}
    /\ UNCHANGED <<tables, requests, now, history>>

OldRooms == {r \in exists : room[r].depart + Day <= now}

\* Variant: the job sets the status and forgets the flag.
OldArrive_StatusOnly ==
    LET S == {r \in OldRooms : room[r].arrived = 0}
    IN  /\ \E r \in S : room[r].status # "arrived"
        /\ room' = [r \in Rooms |->
               IF r \in S THEN [room[r] EXCEPT !.status = "arrived"] ELSE room[r]]
        /\ UNCHANGED <<exists, members, born, requests, clock, history>>

\* oldCarpoolArriveUpdate: one UPDATE, every hour.
OldArrive ==
    LET S == {r \in OldRooms : room[r].arrived = 0}
    IN  /\ S # {}
        /\ room' = [r \in Rooms |->
               IF r \in S THEN [room[r] EXCEPT !.arrived = 1, !.status = "arrived"]
               ELSE room[r]]
        /\ since' = [r \in Rooms |-> IF r \in S THEN now ELSE since[r]]
        /\ UNCHANGED <<exists, members, born, requests, clock,
                       saves, edited, phantom, gone>>

-----------------------------------------------------------------------------
\* A statement or the connection fails: a transaction leaves no trace, what was
\* committed before stays.
Abort(p) == pc[p] # "idle" /\ Quit(p)

Request(p) ==
    \/ \E u \in Users, n \in SeatCounts, d \in Departures : Create(p, u, n, d)
    \/ \E r \in Rooms : UpdateFind(p, r) \/ DeleteFind(p, r)
    \/ \E r \in Rooms, u \in Users : JoinCheck(p, r, u) \/ LeaveCheck(p, r, u)
    \/ \E r \in Rooms, s \in Statuses, k \in {"none", "start"} : StatusFind(p, r, s, k)

Serve(p) ==
    \/ UpdateReload(p) \/ UpdateWrite(p) \/ UpdateInsert(p)
    \/ ListMembers(p) \/ Push(p)
    \/ DeleteCheck(p) \/ DeleteCommit(p)
    \/ JoinCommit(p) \/ LeaveCommit(p)
    \/ StatusCommit(p) \/ StartName(p)
    \/ Abort(p)

Cron ==
    \/ Tick \/ OldArrive
    \/ \E i \in Servers, t \in 1 .. now : ReadyCheck(i, t) \/ ReadyFail(i, t)

Next == Cron \/ \E p \in Procs : Request(p) \/ Serve(p)

Spec == Init /\ [][Next]_vars

\* The hourly job runs again and again while the service is up.
FairSpec == Spec /\ WF_vars(OldArrive)

-----------------------------------------------------------------------------
(* Properties. *)

\* Every variable keeps its shape, and members belong to rooms that exist
\* (carpool-member.entity.ts: the foreign key of roomId).
TypeOK ==
    /\ exists \subseteq Rooms
    /\ room \in [Rooms -> Row]
    /\ members \in [Rooms -> SUBSET Users]
    /\ \A r \in Rooms \ exists : members[r] = {}
    /\ born \subseteq Rooms
    /\ pc \in [Procs -> PCs]
    /\ job \in [Procs -> Job]
    /\ now \in Nat
    /\ due \subseteq Servers \X Nat
    /\ readied \subseteq Rooms \X Nat \X Servers \X Nat
    /\ skipped \subseteq Servers \X Nat
    /\ since \in [Rooms -> Nat]
    /\ saves \in Nat
    /\ edited \subseteq Rooms
    /\ phantom \subseteq Rooms
    /\ gone \subseteq born

\* Through any interleaving of joins, leaves, deletions and aborts, the seats of
\* a room add up: its members and seatsLeft never make less than seatsTotal, make
\* exactly as much unless somebody's second leave was let through, and no join
\* takes a seat that is not there.  Rooms whose seat columns an update wrote are
\* excepted (carpool.service.ts:486-505, 563-578).
SeatsAddUp ==
    \A r \in exists \ edited :
       /\ room[r].left + Cardinality(members[r]) >= room[r].total
       /\ r \notin phantom => room[r].left + Cardinality(members[r]) = room[r].total
       /\ room[r].total > 0 => room[r].left >= 0

\* All reminders of a departure are of the same time, at most one from each
\* instance, however late a run reads the rooms and whatever else happens to the
\* room: a driver is reminded once by every instance of the API
\* (carpool.service.ts:632-656, carpool.schedule.service.ts:11-21).
ReadyOncePerInstance ==
    \A x, y \in readied : x[1] = y[1] /\ x[2] = y[2] => x[4] = y[4]

\* No reminder falls between two runs of the job: once a run for time t has ended
\* well on some instance, it has reminded each room that had its departure in the
\* window of t, unarrived, since before t (carpool.service.ts:632-656).
ReadyNotMissed ==
    \A r \in exists, i \in Servers, t \in 1 .. now :
       /\ t % Period = 0
       /\ <<i, t>> \notin due \cup skipped
       /\ since[r] < t
       /\ t + Lead <= room[r].depart
       /\ room[r].depart <= t + Lead + Period - 1
       /\ room[r].arrived = 0
       => \E x \in readied : x[1] = r /\ x[2] = room[r].depart /\ x[3] = i

\* Whoever is about to be told of a deletion, the room was deleted by then, though
\* the members were read long before (carpool.service.ts:430-455).
DeletionAnnouncedAfter ==
    \A p \in Procs : pc[p] = "push" /\ job[p].kind = "delete" => job[p].room \in gone

\* A ride that is a day past its departure is marked as arrived, unless its
\* departure is moved or the room deleted (carpool.service.ts:674-688).
OldRoomsArrive ==
    \A r \in Rooms : r \in OldRooms ~> r \notin OldRooms \/ room[r].arrived = 1

=============================================================================
