---------------------------- MODULE CarpoolProofs ----------------------------
(* Theorems about Carpool and their proofs. *)
EXTENDS Carpool, FiniteSetTheorems, TLAPS

\* Where a request that remembers j may stand, when the ids in B are taken and
\* the rooms in G were deleted: it knows its room, a deletion goes its own way
\* and comes to its notice only past the commit, and a change of status writes
\* that column alone.
Fit(point, j, B, G) ==
    point # "idle" =>
       /\ j.room \in B
       /\ j.kind = "delete" => point \in {"list", "check", "remove", "push"}
       /\ j.kind = "delete" /\ point = "push" => j.room \in G
       /\ point = "status" => j.dirty \subseteq {"status"}

Requests == \A p \in Procs : Fit(pc[p], job[p], born, gone)

\* An id that was taken is that of a room, or of a room that was deleted.
Accounted == exists \subseteq born /\ born \subseteq exists \cup gone

IInv == TypeOK /\ Requests /\ Accounted /\ SeatsAddUp

-----------------------------------------------------------------------------
(* Shapes. *)

LEMMA Placeholders == NoRow \in Row /\ NoJob \in Job /\ SomeUser \in Users
<1>1. SomeUser \in Users
  BY ConstantsAssumption DEF SomeUser
<1>2. NoRow \in Row
  BY <1>1 DEF NoRow, Row, Statuses
<1> QED
  BY <1>1, <1>2 DEF NoJob, Job

LEMMA RestType ==
    ASSUME TypeOK, NEW p \in Procs
    PROVE  /\ job[p] \in Job
           /\ Rest(p) \in Job
           /\ Rest(p).room = job[p].room
           /\ Rest(p).kind = job[p].kind
           /\ Rest(p).to = {}
  BY Placeholders DEF TypeOK, Rest, Job, NoJob

LEMMA SavedType ==
    ASSUME NEW e \in Row, NEW s \in Row, NEW d \in SUBSET Columns
    PROVE  /\ Saved(e, s, d) \in Row
           /\ "total" \notin d => Saved(e, s, d).total = e.total
           /\ "left" \notin d => Saved(e, s, d).left = e.left
  BY DEF Saved, Row

\* The number of members of a room, and what a join or a leave makes of it.
LEMMA Count ==
    ASSUME TypeOK, NEW r \in Rooms
    PROVE  /\ IsFiniteSet(members[r])
           /\ Cardinality(members[r]) \in Nat
           /\ \A u \in Users \ members[r] :
                 Cardinality(members[r] \cup {u}) = Cardinality(members[r]) + 1
           /\ \A u \in members[r] :
                 Cardinality(members[r] \ {u}) = Cardinality(members[r]) - 1
<1>1. IsFiniteSet(members[r])
  BY ConstantsAssumption, FS_Subset DEF TypeOK
<1> QED
  BY <1>1, FS_CardinalityType, FS_AddElement, FS_RemoveElement

-----------------------------------------------------------------------------
(* One request moves. *)

LEMMA GotoFits ==
    ASSUME TypeOK, Requests, NEW p \in Procs, NEW point \in PCs, NEW j \in Job,
           Goto(p, point, j), born \subseteq born', gone \subseteq gone',
           Fit(point, j, born', gone')
    PROVE  /\ pc' \in [Procs -> PCs]
           /\ job' \in [Procs -> Job]
           /\ Requests'
<1>1. pc' \in [Procs -> PCs] /\ job' \in [Procs -> Job]
  BY DEF TypeOK, Goto
<1>2. ASSUME NEW q \in Procs PROVE Fit(pc'[q], job'[q], born', gone')
  <2>1. CASE q = p
    BY <2>1 DEF TypeOK, Goto
  <2>2. CASE q # p
    <3>1. pc'[q] = pc[q] /\ job'[q] = job[q]
      BY <2>2 DEF TypeOK, Goto
    <3> QED
      BY <3>1 DEF Requests, Fit
  <2> QED
    BY <2>1, <2>2
<1> QED
  BY <1>1, <1>2 DEF Requests

LEMMA FinishFits ==
    ASSUME TypeOK, Requests, NEW p \in Procs, Finish(p),
           born \subseteq born', gone \subseteq gone'
    PROVE  /\ pc' \in [Procs -> PCs]
           /\ job' \in [Procs -> Job]
           /\ Requests'
<1>1. "idle" \in PCs /\ Fit("idle", NoJob, born', gone')
  BY DEF PCs, Fit
<1> QED
  BY <1>1, Placeholders, GotoFits DEF Finish

\* A step that leaves the tables and the history of seats alone keeps the
\* invariant if its requests stay fit.
LEMMA TablesStand ==
    ASSUME IInv, pc' \in [Procs -> PCs], job' \in [Procs -> Job], Requests',
           UNCHANGED <<tables, clock, since, edited, phantom, gone>>, saves' \in Nat
    PROVE  IInv'
<1>1. TypeOK'
  BY DEF IInv, TypeOK, tables, clock
<1>2. SeatsAddUp' /\ Accounted'
  BY DEF IInv, SeatsAddUp, Accounted, tables
<1> QED
  BY <1>1, <1>2 DEF IInv

LEMMA MoveOn ==
    ASSUME IInv, NEW p \in Procs, NEW point \in PCs, NEW j \in Job,
           Goto(p, point, j), Fit(point, j, born, gone),
           UNCHANGED <<tables, clock, since, edited, phantom, gone>>, saves' \in Nat
    PROVE  IInv'
<1>1. born' = born /\ gone' = gone
  BY DEF tables
<1>2. /\ pc' \in [Procs -> PCs]
      /\ job' \in [Procs -> Job]
      /\ Requests'
  BY <1>1, GotoFits DEF IInv
<1> QED
  BY <1>2, TablesStand

LEMMA QuitStep == ASSUME IInv, NEW p \in Procs, Quit(p) PROVE IInv'
<1>1. UNCHANGED <<tables, clock, since, edited, phantom, gone>> /\ saves' \in Nat
  BY DEF Quit, history, IInv, TypeOK
<1>2. born' = born /\ gone' = gone
  BY <1>1 DEF tables
<1>3. /\ pc' \in [Procs -> PCs]
      /\ job' \in [Procs -> Job]
      /\ Requests'
  BY <1>2, FinishFits DEF IInv, Quit
<1> QED
  BY <1>1, <1>3, TablesStand

-----------------------------------------------------------------------------
(* Steps that read. *)

\* A request that has begun knows the room it is about.
LEMMA Begun ==
    ASSUME IInv, NEW p \in Procs, pc[p] # "idle"
    PROVE  /\ job[p] \in Job
           /\ job[p].room \in born
           /\ job[p].room \in Rooms
           /\ job[p].kind = "delete" => pc[p] \in {"list", "check", "remove", "push"}
           /\ pc[p] = "status" => job[p].dirty \subseteq {"status"}
  BY RestType DEF IInv, Requests, Fit, TypeOK

LEMMA UpdateFindStep ==
    ASSUME IInv, NEW p \in Procs, NEW r \in Rooms, UpdateFind(p, r) PROVE IInv'
<1>1. PICK n \in SeatCounts \cup {room[r].total}, m \in SeatCounts \cup {room[r].left},
           d \in Departures \cup {room[r].depart}, a \in {0, 1} :
         Goto(p, "reload", [NoJob EXCEPT !.kind = "update", !.room = r, !.seen =
             [room[r] EXCEPT !.total = n, !.left = m, !.depart = d, !.arrived = a]])
  BY DEF UpdateFind
<1> DEFINE e == [room[r] EXCEPT !.total = n, !.left = m, !.depart = d, !.arrived = a]
<1>2. e \in Row
  <2>1. room[r] \in Row
    BY DEF IInv, TypeOK
  <2>2. n \in Int /\ m \in Int /\ d \in Nat
    BY <2>1, ConstantsAssumption DEF Row
  <2> QED
    BY <2>1, <2>2 DEF Row
<1> DEFINE j == [NoJob EXCEPT !.kind = "update", !.room = r, !.seen = e]
<1>3. j \in Job
  BY <1>2, Placeholders DEF Job, Kinds
<1>4. j.kind = "update" /\ j.room = r
  BY Placeholders DEF Job
<1>5. Fit("reload", j, born, gone)
  BY <1>4 DEF Fit, UpdateFind, IInv, Accounted
<1>6. UNCHANGED <<tables, clock, since, edited, phantom, gone>> /\ saves' \in Nat
  BY DEF UpdateFind, IInv, TypeOK
<1>7. "reload" \in PCs
  BY DEF PCs
<1> HIDE DEF j
<1> QED
  BY <1>1, <1>3, <1>5, <1>6, <1>7, MoveOn DEF j

LEMMA UpdateReloadStep ==
    ASSUME IInv, NEW p \in Procs, UpdateReload(p) PROVE IInv'
<1>1. job[p] \in Job /\ job[p].room \in born /\ job[p].kind # "delete"
  BY Begun DEF UpdateReload
<1>2. UNCHANGED <<tables, clock, since, edited, phantom, gone>> /\ saves' \in Nat
  BY DEF UpdateReload, history, IInv, TypeOK
<1>3. "write" \in PCs /\ "insert" \in PCs
  BY DEF PCs
<1>4. CASE job[p].room \in exists
  <2> DEFINE d == {c \in Columns : job[p].seen[c] # room[job[p].room][c]}
             j == [job[p] EXCEPT !.dirty = d]
  <2>1. Goto(p, "write", j)
    BY <1>4 DEF UpdateReload
  <2>2. j \in Job /\ j.room = job[p].room /\ j.kind = job[p].kind
    BY <1>1 DEF Job
  <2>3. Fit("write", j, born, gone)
    BY <1>1, <2>2 DEF Fit
  <2> HIDE DEF j
  <2> QED
    BY <1>2, <1>3, <2>1, <2>2, <2>3, MoveOn
<1>5. CASE job[p].room \notin exists
  <2>1. Goto(p, "insert", job[p])
    BY <1>5 DEF UpdateReload
  <2>2. Fit("insert", job[p], born, gone)
    BY <1>1 DEF Fit
  <2> QED
    BY <1>1, <1>2, <1>3, <2>1, <2>2, MoveOn
<1> QED
  BY <1>4, <1>5

LEMMA ListMembersStep ==
    ASSUME IInv, NEW p \in Procs, ListMembers(p) PROVE IInv'
<1> DEFINE r == job[p].room
           S == members[r] \ {room[r].driver}
           j == [job[p] EXCEPT !.to = S]
<1>1. job[p] \in Job /\ r \in born /\ r \in Rooms
  BY Begun DEF ListMembers
<1>2. j \in Job /\ j.room = r /\ j.kind = job[p].kind
  BY <1>1 DEF Job, IInv, TypeOK
<1>3. UNCHANGED <<tables, clock, since, edited, phantom, gone>> /\ saves' \in Nat
  BY DEF ListMembers, history, IInv, TypeOK
<1>4. PICK point \in {"check", "name", "push"} :
         /\ Goto(p, point, j)
         /\ job[p].kind = "delete" => point = "check"
  BY DEF ListMembers
<1>5. Fit(point, j, born, gone)
  BY <1>1, <1>2, <1>4 DEF Fit
<1>6. point \in PCs
  BY DEF PCs
<1> HIDE DEF j
<1> QED
  BY <1>2, <1>3, <1>4, <1>5, <1>6, MoveOn

LEMMA DeleteFindStep ==
    ASSUME IInv, NEW p \in Procs, NEW r \in Rooms, DeleteFind(p, r) PROVE IInv'
<1> DEFINE j == [NoJob EXCEPT !.kind = "delete", !.room = r]
<1>1. j \in Job /\ j.room = r
  BY Placeholders DEF Job, Kinds
<1>2. Fit("list", j, born, gone)
  BY <1>1 DEF Fit, DeleteFind, IInv, Accounted
<1>3. /\ UNCHANGED <<tables, clock, since, edited, phantom, gone>>
      /\ saves' \in Nat
      /\ Goto(p, "list", j)
  BY DEF DeleteFind, history, IInv, TypeOK
<1>4. "list" \in PCs
  BY DEF PCs
<1> HIDE DEF j
<1> QED
  BY <1>1, <1>2, <1>3, <1>4, MoveOn

\* DeleteCheck and StartName: the room is looked up once more.
LEMMA LookUpStep ==
    ASSUME IInv, NEW p \in Procs, DeleteCheck(p) \/ StartName(p) PROVE IInv'
<1>1. /\ job[p] \in Job
      /\ job[p].room \in born
      /\ pc[p] = "name" => job[p].kind # "delete"
  BY Begun DEF DeleteCheck, StartName
<1>2. UNCHANGED <<tables, clock, history>>
  BY DEF DeleteCheck, StartName
<1>3. CASE Finish(p)
  BY <1>2, <1>3, QuitStep DEF Quit
<1>4. CASE ~Finish(p)
  <2>1. PICK point \in {"remove", "push"} :
           /\ Goto(p, point, job[p])
           /\ point = "push" => pc[p] = "name"
    BY <1>4 DEF DeleteCheck, StartName
  <2>2. Fit(point, job[p], born, gone)
    BY <1>1, <2>1 DEF Fit
  <2>3. point \in PCs
    BY DEF PCs
  <2>4. UNCHANGED <<tables, clock, since, edited, phantom, gone>> /\ saves' \in Nat
    BY <1>2 DEF history, IInv, TypeOK
  <2> QED
    BY <1>1, <2>1, <2>2, <2>3, <2>4, MoveOn
<1> QED
  BY <1>3, <1>4

\* JoinCheck and LeaveCheck read the room and the membership.
LEMMA MemberCheckStep ==
    ASSUME IInv, NEW p \in Procs, NEW r \in Rooms, NEW u \in Users,
           JoinCheck(p, r, u) \/ LeaveCheck(p, r, u)
    PROVE  IInv'
<1>1. PICK point \in {"join", "leave"} :
         Goto(p, point, [NoJob EXCEPT !.kind = point, !.room = r, !.user = u])
  BY DEF JoinCheck, LeaveCheck
<1> DEFINE j == [NoJob EXCEPT !.kind = point, !.room = r, !.user = u]
<1>2. j \in Job /\ j.room = r /\ j.kind = point
  BY Placeholders DEF Job, Kinds
<1>3. Fit(point, j, born, gone)
  BY <1>2 DEF Fit, JoinCheck, LeaveCheck, IInv, Accounted
<1>4. UNCHANGED <<tables, clock, since, edited, phantom, gone>> /\ saves' \in Nat
  BY DEF JoinCheck, LeaveCheck, history, IInv, TypeOK
<1>5. point \in PCs
  BY DEF PCs
<1> HIDE DEF j
<1> QED
  BY <1>1, <1>2, <1>3, <1>4, <1>5, MoveOn DEF j

LEMMA StatusFindStep ==
    ASSUME IInv, NEW p \in Procs, NEW r \in Rooms, NEW s \in Statuses,
           NEW k \in {"none", "start"}, StatusFind(p, r, s, k)
    PROVE  IInv'
<1> DEFINE e == [NoRow EXCEPT !.status = s]
           d == IF room[r].status = s THEN {} ELSE {"status"}
           j == [NoJob EXCEPT !.kind = k, !.room = r, !.seen = e, !.dirty = d]
<1>1. e \in Row
  BY Placeholders DEF Row
<1>2. d \subseteq {"status"} /\ d \in SUBSET Columns
  BY DEF Columns
<1>3. Goto(p, "status", j)
  BY DEF StatusFind
<1> HIDE DEF e, d
<1>4. j \in Job /\ j.room = r /\ j.kind = k /\ j.dirty = d
  BY <1>1, <1>2, Placeholders DEF Job, Kinds
<1>5. Fit("status", j, born, gone)
  BY <1>2, <1>4 DEF Fit, StatusFind, IInv, Accounted
<1>6. UNCHANGED <<tables, clock, since, edited, phantom, gone>> /\ saves' \in Nat
  BY DEF StatusFind, history, IInv, TypeOK
<1>7. "status" \in PCs
  BY DEF PCs
<1> HIDE DEF j
<1> QED
  BY <1>3, <1>4, <1>5, <1>6, <1>7, MoveOn

-----------------------------------------------------------------------------
(* Steps that write. *)

LEMMA CreateStep ==
    ASSUME IInv, NEW p \in Procs, NEW u \in Users, NEW n \in SeatCounts,
           NEW d \in Departures, Create(p, u, n, d)
    PROVE  IInv'
<1>1. PICK r \in Rooms :
         /\ \A s \in born : s < r
         /\ born' = born \cup {r}
         /\ exists' = exists \cup {r}
         /\ room' = [room EXCEPT ![r] =
                [NoRow EXCEPT !.driver = u, !.total = n, !.left = n - 1, !.depart = d]]
         /\ members' = [members EXCEPT ![r] = {u}]
         /\ since' = [since EXCEPT ![r] = now]
  BY DEF Create
<1> DEFINE e == [NoRow EXCEPT !.driver = u, !.total = n, !.left = n - 1, !.depart = d]
<1>2. UNCHANGED <<requests, clock, saves, edited, phantom, gone>>
  BY DEF Create
<1>3. e \in Row /\ e.total = n /\ e.left = n - 1 /\ n \in Int
  <2>1. n \in Int /\ n - 1 \in Int /\ d \in Nat
    BY ConstantsAssumption
  <2> QED
    BY <2>1, Placeholders DEF Row
<1>4. r \notin born /\ r \notin exists
  BY <1>1, ConstantsAssumption DEF IInv, Accounted
<1> HIDE DEF e
<1>5. TypeOK'
  BY <1>1, <1>2, <1>3 DEF IInv, TypeOK, requests, clock, e
<1>6. Requests'
  BY <1>1, <1>2 DEF IInv, Requests, Fit, requests
<1>7. Accounted'
  BY <1>1, <1>2 DEF IInv, Accounted
<1>8. SeatsAddUp'
  <2> SUFFICES ASSUME NEW q \in exists', q \notin edited'
               PROVE  /\ room'[q].left + Cardinality(members'[q]) >= room'[q].total
                      /\ q \notin phantom' =>
                            room'[q].left + Cardinality(members'[q]) = room'[q].total
                      /\ room'[q].total > 0 => room'[q].left >= 0
    BY DEF SeatsAddUp
  <2>1. CASE q = r
    <3>1. Cardinality(members'[q]) = 1 /\ room'[q] = e
      BY <1>1, <2>1, FS_Singleton DEF IInv, TypeOK, e
    <3> QED
      BY <1>3, <3>1
  <2>2. CASE q # r
    <3>1. q \in exists /\ room'[q] = room[q] /\ members'[q] = members[q]
      BY <1>1, <2>2 DEF IInv, TypeOK
    <3> QED
      BY <1>2, <3>1 DEF IInv, SeatsAddUp
  <2> QED
    BY <2>1, <2>2
<1> QED
  BY <1>5, <1>6, <1>7, <1>8 DEF IInv

\* A step that changes the room r and its members alone, r \in exists, keeps the
\* invariant if the new row adds up or an update is to blame.
LEMMA OneRoom ==
    ASSUME IInv, NEW r \in exists, NEW e \in Row, NEW S \in SUBSET Users,
           pc' \in [Procs -> PCs], job' \in [Procs -> Job], Requests',
           room' = [room EXCEPT ![r] = e],
           members' = [members EXCEPT ![r] = S],
           since' \in [Rooms -> Nat],
           edited \subseteq edited', edited' \subseteq edited \cup {r},
           phantom \subseteq phantom', phantom' \subseteq phantom \cup {r},
           UNCHANGED <<exists, born, clock, saves, gone>>,
           r \notin edited' =>
              /\ e.left + Cardinality(S) >= e.total
              /\ r \notin phantom' => e.left + Cardinality(S) = e.total
              /\ e.total > 0 => e.left >= 0
    PROVE  IInv'
<1>1. r \in Rooms
  BY DEF IInv, TypeOK
<1>2. room' \in [Rooms -> Row] /\ members' \in [Rooms -> SUBSET Users]
  BY DEF IInv, TypeOK
<1>3. \A q \in Rooms \ exists' : members'[q] = {}
  BY DEF IInv, TypeOK
<1>4. TypeOK'
  BY <1>1, <1>2, <1>3 DEF IInv, TypeOK, clock
<1>5. Accounted'
  BY DEF IInv, Accounted
<1>6. SeatsAddUp'
  <2> SUFFICES ASSUME NEW q \in exists, q \notin edited'
               PROVE  /\ room'[q].left + Cardinality(members'[q]) >= room'[q].total
                      /\ q \notin phantom' =>
                            room'[q].left + Cardinality(members'[q]) = room'[q].total
                      /\ room'[q].total > 0 => room'[q].left >= 0
    BY DEF SeatsAddUp
  <2>1. CASE q = r
    BY <1>1, <2>1 DEF IInv, TypeOK
  <2>2. CASE q # r
    <3>1. room'[q] = room[q] /\ members'[q] = members[q] /\ q \notin edited
      BY <2>2 DEF IInv, TypeOK
    <3>2. q \notin phantom' => q \notin phantom
      OBVIOUS
    <3> QED
      BY <3>1, <3>2 DEF IInv, SeatsAddUp
  <2> QED
    BY <2>1, <2>2
<1> QED
  BY <1>4, <1>5, <1>6 DEF IInv

\* A step that changes columns of the room r other than the seats.
LEMMA OneRow ==
    ASSUME IInv, NEW r \in exists, NEW e \in Row,
           e.total = room[r].total, e.left = room[r].left,
           pc' \in [Procs -> PCs], job' \in [Procs -> Job], Requests',
           room' = [room EXCEPT ![r] = e],
           since' \in [Rooms -> Nat],
           UNCHANGED <<exists, members, born, clock, saves, edited, phantom, gone>>
    PROVE  IInv'
<1>1. r \in Rooms /\ members[r] \in SUBSET Users
  BY DEF IInv, TypeOK
<1>2. members' = [members EXCEPT ![r] = members[r]]
  BY DEF IInv, TypeOK
<1>3. r \notin edited =>
         /\ e.left + Cardinality(members[r]) >= e.total
         /\ r \notin phantom => e.left + Cardinality(members[r]) = e.total
         /\ e.total > 0 => e.left >= 0
  BY DEF IInv, SeatsAddUp
<1> QED
  BY <1>1, <1>2, <1>3, OneRoom

LEMMA SinceType ==
    ASSUME TypeOK, NEW r \in Rooms, NEW e, Since(r, e)
    PROVE  since' \in [Rooms -> Nat]
  BY DEF TypeOK, Since

\* A request that has written goes on with what Rest leaves it.
LEMMA RestFits ==
    ASSUME IInv, NEW p \in Procs, NEW point \in {"list", "push"}, NEW S \in SUBSET Users,
           job[p].room \in born, pc[p] # "idle",
           Goto(p, point, [Rest(p) EXCEPT !.to = S]),
           point = "push" /\ job[p].kind = "delete" => job[p].room \in gone',
           born \subseteq born', gone \subseteq gone'
    PROVE  /\ pc' \in [Procs -> PCs]
           /\ job' \in [Procs -> Job]
           /\ Requests'
<1> DEFINE j == [Rest(p) EXCEPT !.to = S]
<1>1. TypeOK /\ Requests
  BY DEF IInv
<1>2. j \in Job /\ j.room = job[p].room /\ j.kind = job[p].kind
  BY <1>1, RestType DEF Job
<1>3. Fit(point, j, born', gone')
  BY <1>2 DEF Fit
<1>4. point \in PCs
  BY DEF PCs
<1> HIDE DEF j
<1> QED
  BY <1>1, <1>2, <1>3, <1>4, GotoFits DEF j

LEMMA ListFits ==
    ASSUME IInv, NEW p \in Procs, job[p].room \in born, pc[p] # "idle",
           Goto(p, "list", Rest(p)), born \subseteq born', gone \subseteq gone'
    PROVE  /\ pc' \in [Procs -> PCs]
           /\ job' \in [Procs -> Job]
           /\ Requests'
<1>1. Rest(p) \in Job /\ Rest(p).to = {}
  BY RestType DEF IInv
<1>2. Rest(p) = [Rest(p) EXCEPT !.to = {}]
  BY <1>1 DEF Job
<1> QED
  BY <1>2, RestFits

LEMMA UpdateWriteStep ==
    ASSUME IInv, NEW p \in Procs, UpdateWrite(p) PROVE IInv'
<1> DEFINE r == job[p].room
           d == job[p].dirty
           e == Saved(room[r], job[p].seen, d)
<1>1. job[p] \in Job /\ r \in born /\ r \in Rooms
  BY Begun DEF UpdateWrite
<1>2. UNCHANGED <<exists, members, born, clock, saves, phantom, gone>>
  BY DEF UpdateWrite
<1>3. /\ pc' \in [Procs -> PCs]
      /\ job' \in [Procs -> Job]
      /\ Requests'
  BY <1>1, <1>2, ListFits DEF UpdateWrite
<1>4. CASE r \in exists
  <2>1. room[r] \in Row /\ job[p].seen \in Row /\ d \in SUBSET Columns
    BY <1>1 DEF IInv, TypeOK, Job
  <2>2. /\ e \in Row
        /\ "total" \notin d => e.total = room[r].total
        /\ "left" \notin d => e.left = room[r].left
    BY <2>1, SavedType
  <2>3. /\ room' = [room EXCEPT ![r] = e]
        /\ Since(r, e)
        /\ edited' = IF d \cap {"total", "left"} = {} THEN edited ELSE edited \cup {r}
    BY <1>4 DEF UpdateWrite
  <2> HIDE DEF e, d
  <2>4. since' \in [Rooms -> Nat]
    BY <1>1, <2>3, SinceType DEF IInv
  <2>5. CASE d \cap {"total", "left"} = {}
    <3>1. edited' = edited /\ e.total = room[r].total /\ e.left = room[r].left
      BY <2>2, <2>3, <2>5
    <3> QED
      BY <1>2, <1>3, <1>4, <2>2, <2>3, <2>4, <3>1, OneRow
  <2>6. CASE d \cap {"total", "left"} # {}
    <3>1. edited' = edited \cup {r}
      BY <2>3, <2>6
    <3>2. members[r] \in SUBSET Users /\ members' = [members EXCEPT ![r] = members[r]]
      BY <1>1, <1>2 DEF IInv, TypeOK
    <3> QED
      BY <1>2, <1>3, <1>4, <2>2, <2>3, <2>4, <3>1, <3>2, OneRoom
  <2> QED
    BY <2>5, <2>6
<1>5. CASE r \notin exists
  <2>1. UNCHANGED <<room, since, edited>>
    BY <1>5 DEF UpdateWrite
  <2>2. UNCHANGED tables /\ saves' \in Nat
    BY <1>2, <2>1 DEF tables, IInv, TypeOK
  <2> QED
    BY <1>2, <1>3, <2>1, <2>2, TablesStand
<1> QED
  BY <1>4, <1>5

LEMMA UpdateInsertStep ==
    ASSUME IInv, NEW p \in Procs, UpdateInsert(p) PROVE IInv'
<1> DEFINE r == job[p].room
<1>1. job[p] \in Job /\ r \in born /\ r \in Rooms
  BY Begun DEF UpdateInsert
<1>2. CASE r \in exists
  BY <1>2, QuitStep DEF UpdateInsert
<1>3. CASE r \notin exists
  <2>1. /\ exists' = exists \cup {r}
        /\ room' = [room EXCEPT ![r] = job[p].seen]
        /\ since' = [since EXCEPT ![r] = now]
        /\ edited' = edited \cup {r}
        /\ Goto(p, "list", Rest(p))
        /\ UNCHANGED <<members, born, clock, saves, phantom, gone>>
    BY <1>3 DEF UpdateInsert
  <2>2. /\ pc' \in [Procs -> PCs]
        /\ job' \in [Procs -> Job]
        /\ Requests'
    BY <1>1, <2>1, ListFits DEF UpdateInsert
  <2>3. job[p].seen \in Row
    BY <1>1 DEF Job
  <2>4. TypeOK'
    BY <1>1, <2>1, <2>2, <2>3 DEF IInv, TypeOK, clock
  <2>5. Accounted'
    BY <1>1, <2>1 DEF IInv, Accounted
  <2>6. SeatsAddUp'
    BY <2>1 DEF IInv, SeatsAddUp, TypeOK
  <2> QED
    BY <2>2, <2>4, <2>5, <2>6 DEF IInv
<1> QED
  BY <1>2, <1>3

LEMMA DeleteCommitStep ==
    ASSUME IInv, NEW p \in Procs, DeleteCommit(p) PROVE IInv'
<1> DEFINE r == job[p].room
<1>1. job[p] \in Job /\ r \in born /\ r \in Rooms
  BY Begun DEF DeleteCommit
<1>2. /\ members' = [members EXCEPT ![r] = {}]
      /\ exists' = exists \ {r}
      /\ gone' = gone \cup (exists \cap {r})
      /\ Goto(p, "push", job[p])
      /\ UNCHANGED <<room, born, clock, since, saves, edited, phantom>>
  BY DEF DeleteCommit
<1>3. r \in gone'
  BY <1>1, <1>2 DEF IInv, Accounted
<1>4. Fit("push", job[p], born', gone')
  BY <1>1, <1>2, <1>3 DEF Fit
<1>5. /\ pc' \in [Procs -> PCs]
      /\ job' \in [Procs -> Job]
      /\ Requests'
  BY <1>1, <1>2, <1>4, GotoFits DEF IInv, PCs
<1>6. TypeOK'
  BY <1>1, <1>2, <1>5 DEF IInv, TypeOK, clock, Accounted
<1>7. Accounted'
  BY <1>2 DEF IInv, Accounted
<1>8. SeatsAddUp'
  BY <1>2 DEF IInv, SeatsAddUp, TypeOK
<1> QED
  BY <1>5, <1>6, <1>7, <1>8 DEF IInv

LEMMA JoinCommitStep ==
    ASSUME IInv, NEW p \in Procs, JoinCommit(p) PROVE IInv'
<1> DEFINE r == job[p].room
           u == job[p].user
           e == [room[r] EXCEPT !.left = @ - 1]
           S == members[r] \cup {u}
<1>1. job[p] \in Job /\ r \in born /\ r \in Rooms /\ job[p].kind # "delete" /\ u \in Users
  BY Begun DEF JoinCommit, Job
<1>2. CASE ~(r \in exists /\ room[r].left > 0 /\ u \notin members[r])
  BY <1>2, QuitStep DEF JoinCommit
<1>3. CASE r \in exists /\ room[r].left > 0 /\ u \notin members[r]
  <2>1. /\ room' = [room EXCEPT ![r] = e]
        /\ members' = [members EXCEPT ![r] = S]
        /\ Tell(p, {room[r].driver})
        /\ UNCHANGED <<exists, born, clock, history>>
    BY <1>3 DEF JoinCommit
  <2>2. room[r] \in Row
    BY <1>1 DEF IInv, TypeOK
  <2>3. /\ e \in Row /\ e.left = room[r].left - 1 /\ e.total = room[r].total
        /\ room[r].left \in Int /\ room[r].total \in Int
    BY <2>2 DEF Row
  <2>4. S \in SUBSET Users
    BY <1>1 DEF IInv, TypeOK
  <2>5. Cardinality(S) = Cardinality(members[r]) + 1 /\ Cardinality(members[r]) \in Nat
    BY <1>1, <1>3, Count DEF IInv
  <2>6. /\ UNCHANGED <<exists, born, clock, saves, gone, edited, phantom>>
        /\ since' \in [Rooms -> Nat]
    BY <2>1 DEF history, IInv, TypeOK
  <2>7. {room[r].driver} \in SUBSET Users
    BY <2>2 DEF Row
  <2>8. pc[p] # "idle"
    BY DEF JoinCommit
  <2>9. /\ pc' \in [Procs -> PCs]
        /\ job' \in [Procs -> Job]
        /\ Requests'
    BY <1>1, <2>1, <2>6, <2>7, <2>8, RestFits DEF Tell
  <2>10. r \notin edited =>
           /\ e.left + Cardinality(S) >= e.total
           /\ r \notin phantom => e.left + Cardinality(S) = e.total
           /\ e.total > 0 => e.left >= 0
    <3>1. r \notin edited =>
           /\ room[r].left + Cardinality(members[r]) >= room[r].total
           /\ r \notin phantom => room[r].left + Cardinality(members[r]) = room[r].total
      BY <1>3 DEF IInv, SeatsAddUp
    <3> HIDE DEF e, S
    <3> QED
      BY <1>3, <2>3, <2>5, <3>1
  <2> HIDE DEF e, S
  <2> QED
    BY <1>3, <2>1, <2>3, <2>4, <2>6, <2>9, <2>10, OneRoom
<1> QED
  BY <1>2, <1>3

LEMMA LeaveCommitStep ==
    ASSUME IInv, NEW p \in Procs, LeaveCommit(p) PROVE IInv'
<1> DEFINE r == job[p].room
           u == job[p].user
           e == [room[r] EXCEPT !.left = @ + 1, !.arrived = 0]
           S == members[r] \ {u}
<1>1. job[p] \in Job /\ r \in born /\ r \in Rooms /\ job[p].kind # "delete" /\ u \in Users
  BY Begun DEF LeaveCommit, Job
<1>2. room[r] \in Row
  BY <1>1 DEF IInv, TypeOK
<1>3. /\ members' = [members EXCEPT ![r] = S]
      /\ Tell(p, {room[r].driver})
      /\ UNCHANGED <<exists, born, clock, saves, edited, gone>>
  BY DEF LeaveCommit
<1>4. {room[r].driver} \in SUBSET Users /\ pc[p] # "idle"
  BY <1>2 DEF Row, LeaveCommit
<1>5. /\ pc' \in [Procs -> PCs]
      /\ job' \in [Procs -> Job]
      /\ Requests'
  BY <1>1, <1>3, <1>4, RestFits DEF Tell
<1>6. CASE r \in exists
  <2>1. /\ room' = [room EXCEPT ![r] = e]
        /\ Since(r, e)
        /\ phantom' = IF u \in members[r] THEN phantom ELSE phantom \cup {r}
    BY <1>6 DEF LeaveCommit
  <2>2. /\ e \in Row /\ e.left = room[r].left + 1 /\ e.total = room[r].total
        /\ room[r].left \in Int /\ room[r].total \in Int
    <3>1. room[r].left \in Int /\ room[r].total \in Int /\ room[r].left + 1 \in Int
      BY <1>2 DEF Row
    <3>2. e.left = room[r].left + 1 /\ e.total = room[r].total
      BY <1>2 DEF Row
    <3>3. e \in Row
      BY <1>2, <3>1 DEF Row
    <3> QED
      BY <3>1, <3>2, <3>3
  <2> HIDE DEF e
  <2>3. since' \in [Rooms -> Nat]
    BY <1>1, <2>1, SinceType DEF IInv
  <2>4. S \in SUBSET Users /\ Cardinality(members[r]) \in Nat
    BY <1>1, Count DEF IInv, TypeOK
  <2>5. /\ phantom \subseteq phantom' /\ phantom' \subseteq phantom \cup {r}
        /\ r \notin phantom' => u \in members[r]
    BY <2>1
  <2>6. /\ u \in members[r] => Cardinality(S) = Cardinality(members[r]) - 1
        /\ u \notin members[r] => Cardinality(S) = Cardinality(members[r])
    <3>1. u \notin members[r] => S = members[r]
      OBVIOUS
    <3> QED
      BY <1>1, <3>1, Count DEF IInv
  <2>7. r \notin edited =>
           /\ room[r].left + Cardinality(members[r]) >= room[r].total
           /\ r \notin phantom => room[r].left + Cardinality(members[r]) = room[r].total
           /\ room[r].total > 0 => room[r].left >= 0
    BY <1>6 DEF IInv, SeatsAddUp
  <2> HIDE DEF S
  <2>8. Cardinality(S) \in Int
    BY <2>4, <2>6
  <2>9. r \notin edited =>
           /\ e.left + Cardinality(S) >= e.total
           /\ r \notin phantom' => e.left + Cardinality(S) = e.total
           /\ e.total > 0 => e.left >= 0
    BY <2>2, <2>4, <2>5, <2>6, <2>7, <2>8
  <2> QED
    BY <1>3, <1>5, <1>6, <2>1, <2>2, <2>3, <2>4, <2>5, <2>9, OneRoom
<1>7. CASE r \notin exists
  <2>1. UNCHANGED <<room, since, phantom>>
    BY <1>7 DEF LeaveCommit
  <2>2. members' = members
    BY <1>1, <1>3, <1>7 DEF IInv, TypeOK
  <2>3. UNCHANGED tables /\ saves' \in Nat
    BY <1>3, <2>1, <2>2 DEF tables, IInv, TypeOK
  <2> QED
    BY <1>3, <1>5, <2>1, <2>3, TablesStand
<1> QED
  BY <1>6, <1>7

LEMMA StatusCommitStep ==
    ASSUME IInv, NEW p \in Procs, StatusCommit(p) PROVE IInv'
<1> DEFINE r == job[p].room
           e == Saved(room[r], job[p].seen, job[p].dirty)
<1>1. /\ job[p] \in Job /\ r \in born /\ r \in Rooms
      /\ job[p].dirty \subseteq {"status"}
  BY Begun DEF StatusCommit
<1>2. UNCHANGED <<exists, members, born, clock, history>>
  BY DEF StatusCommit
<1>3. /\ pc' \in [Procs -> PCs]
      /\ job' \in [Procs -> Job]
      /\ Requests'
  <2>1. born \subseteq born' /\ gone \subseteq gone' /\ TypeOK /\ Requests
    BY <1>2 DEF history, IInv
  <2>2. CASE job[p].kind = "start"
    BY <1>1, <2>1, <2>2, ListFits DEF StatusCommit
  <2>3. CASE job[p].kind # "start"
    BY <2>1, <2>3, FinishFits DEF StatusCommit
  <2> QED
    BY <2>2, <2>3
<1>4. CASE r \in exists
  <2>1. room[r] \in Row /\ job[p].seen \in Row /\ job[p].dirty \in SUBSET Columns
    BY <1>1 DEF IInv, TypeOK, Job
  <2>2. e \in Row /\ e.total = room[r].total /\ e.left = room[r].left
    BY <1>1, <2>1, SavedType
  <2>3. room' = [room EXCEPT ![r] = e]
    BY <1>1, <1>4 DEF StatusCommit, IInv, TypeOK
  <2> HIDE DEF e
  <2>4. since' \in [Rooms -> Nat] /\ UNCHANGED <<saves, edited, phantom, gone>>
    BY <1>2 DEF history, IInv, TypeOK
  <2> QED
    BY <1>2, <1>3, <1>4, <2>2, <2>3, <2>4, OneRow
<1>5. CASE r \notin exists
  <2>1. room' = room
    BY <1>5 DEF StatusCommit
  <2>2. UNCHANGED <<tables, clock, since, edited, phantom, gone>> /\ saves' \in Nat
    BY <1>2, <2>1 DEF tables, history, IInv, TypeOK
  <2> QED
    BY <1>3, <2>2, TablesStand
<1> QED
  BY <1>4, <1>5

\* The clock and the reminder job leave tables and requests alone.
LEMMA ClockStep ==
    ASSUME IInv,
           Tick \/ \E i \in Servers, t \in 1 .. now : ReadyCheck(i, t) \/ ReadyFail(i, t)
    PROVE  IInv'
<1>1. UNCHANGED <<tables, requests, history>>
  BY DEF Tick, ReadyCheck, ReadyFail
<1>2. now' \in Nat
  BY DEF IInv, TypeOK, Tick, ReadyCheck, ReadyFail
<1>3. due' \subseteq Servers \X Nat /\ skipped' \subseteq Servers \X Nat
  <2>1. CASE Tick
    BY <1>2, <2>1 DEF IInv, TypeOK, Tick
  <2>2. ASSUME NEW i \in Servers, NEW t \in 1 .. now, ReadyCheck(i, t) \/ ReadyFail(i, t)
        PROVE  due' \subseteq Servers \X Nat /\ skipped' \subseteq Servers \X Nat
    BY <2>2 DEF IInv, TypeOK, ReadyCheck, ReadyFail, Remind
  <2> QED
    BY <2>1, <2>2
<1>4. readied' \subseteq Rooms \X Nat \X Servers \X Nat
  <2>1. CASE Tick
    BY <2>1 DEF IInv, TypeOK, Tick
  <2>2. ASSUME NEW i \in Servers, NEW t \in 1 .. now, ReadyCheck(i, t) \/ ReadyFail(i, t)
        PROVE  readied' \subseteq Rooms \X Nat \X Servers \X Nat
    <3>1. PICK S \in SUBSET Leaving(t) : Remind(i, t, S)
      BY <2>2 DEF ReadyCheck, ReadyFail
    <3>2. t \in Nat /\ \A r \in S : r \in Rooms /\ room[r].depart \in Nat
      BY DEF Leaving, IInv, TypeOK, Row
    <3>3. {<<r, room[r].depart, i, t>> : r \in S} \subseteq Rooms \X Nat \X Servers \X Nat
      BY <3>2
    <3> QED
      BY <3>1, <3>3 DEF Remind, IInv, TypeOK
  <2> QED
    BY <2>1, <2>2
<1>5. TypeOK'
  BY <1>1, <1>2, <1>3, <1>4 DEF IInv, TypeOK, tables, requests, history
<1>6. Requests' /\ Accounted' /\ SeatsAddUp'
  BY <1>1 DEF IInv, Requests, Fit, Accounted, SeatsAddUp, tables, requests, history
<1> QED
  BY <1>5, <1>6 DEF IInv

LEMMA OldArriveStep == ASSUME IInv, OldArrive PROVE IInv'
<1> DEFINE S == {r \in OldRooms : room[r].arrived = 0}
           e(r) == IF r \in S THEN [room[r] EXCEPT !.arrived = 1, !.status = "arrived"]
                   ELSE room[r]
<1>1. /\ room' = [r \in Rooms |-> e(r)]
      /\ since' = [r \in Rooms |-> IF r \in S THEN now ELSE since[r]]
      /\ UNCHANGED <<exists, members, born, requests, clock, saves, edited, phantom, gone>>
  BY DEF OldArrive
<1>2. ASSUME NEW r \in Rooms
      PROVE  /\ e(r) \in Row
             /\ e(r).total = room[r].total
             /\ e(r).left = room[r].left
  <2>1. room[r] \in Row
    BY DEF IInv, TypeOK
  <2>2. [room[r] EXCEPT !.arrived = 1, !.status = "arrived"] \in Row
    BY <2>1 DEF Row, Statuses
  <2> QED
    BY <2>1, <2>2 DEF Row
<1> HIDE DEF e, S
<1>3. /\ room' \in [Rooms -> Row]
      /\ \A r \in Rooms : room'[r].total = room[r].total /\ room'[r].left = room[r].left
  BY <1>1, <1>2
<1>4. since' \in [Rooms -> Nat]
  BY <1>1 DEF IInv, TypeOK
<1>5. TypeOK'
  BY <1>1, <1>3, <1>4 DEF IInv, TypeOK, requests, clock
<1>6. Requests' /\ Accounted'
  BY <1>1 DEF IInv, Requests, Fit, Accounted, requests
<1>7. SeatsAddUp'
  BY <1>1, <1>3 DEF IInv, SeatsAddUp, TypeOK
<1> QED
  BY <1>5, <1>6, <1>7 DEF IInv

-----------------------------------------------------------------------------
(* The theorems. *)

LEMMA Start == Init => IInv
<1> SUFFICES ASSUME Init PROVE IInv
  OBVIOUS
<1>1. TypeOK
  BY Placeholders, ConstantsAssumption DEF Init, TypeOK, PCs
<1>2. Requests /\ Accounted /\ SeatsAddUp
  BY DEF Init, Requests, Fit, Accounted, SeatsAddUp
<1> QED
  BY <1>1, <1>2 DEF IInv

LEMMA Step == IInv /\ [Next]_vars => IInv'
<1> SUFFICES ASSUME IInv, [Next]_vars PROVE IInv'
  OBVIOUS
<1>1. CASE UNCHANGED vars
  <2>1. UNCHANGED <<tables, requests, clock, history>>
    BY <1>1 DEF vars
  <2>2. TypeOK'
    BY <2>1 DEF IInv, TypeOK, tables, requests, clock, history
  <2>3. Requests' /\ Accounted' /\ SeatsAddUp'
    BY <2>1 DEF IInv, Requests, Fit, Accounted, SeatsAddUp, tables, requests, history
  <2> QED
    BY <2>2, <2>3 DEF IInv
<1>2. CASE Cron
  BY <1>2, ClockStep, OldArriveStep DEF Cron
<1>3. ASSUME NEW p \in Procs, Request(p) PROVE IInv'
  <2>1. ASSUME NEW r \in Rooms, NEW s \in Statuses, NEW k \in {"none", "start"},
               StatusFind(p, r, s, k)
        PROVE  IInv'
    BY <2>1, StatusFindStep
  <2>2. ASSUME NEW r \in Rooms, NEW u \in Users, JoinCheck(p, r, u) \/ LeaveCheck(p, r, u)
        PROVE  IInv'
    BY <2>2, MemberCheckStep
  <2>3. ASSUME NEW r \in Rooms, UpdateFind(p, r) \/ DeleteFind(p, r)
        PROVE  IInv'
    BY <2>3, UpdateFindStep, DeleteFindStep
  <2>4. ASSUME NEW u \in Users, NEW n \in SeatCounts, NEW d \in Departures,
               Create(p, u, n, d)
        PROVE  IInv'
    BY <2>4, CreateStep
  <2> QED
    BY <1>3, <2>1, <2>2, <2>3, <2>4 DEF Request
<1>4. ASSUME NEW p \in Procs, Serve(p) PROVE IInv'
  <2>1. CASE Push(p) \/ Abort(p)
    BY <2>1, QuitStep DEF Push, Abort
  <2> QED
    BY <1>4, <2>1, UpdateReloadStep, UpdateWriteStep, UpdateInsertStep,
       ListMembersStep, LookUpStep, DeleteCommitStep, JoinCommitStep,
       LeaveCommitStep, StatusCommitStep DEF Serve
<1> QED
  BY <1>1, <1>2, <1>3, <1>4 DEF Next

LEMMA Invariant == Spec => []IInv
  BY Start, Step, PTL DEF Spec

\* Every variable keeps its shape, and nobody is a member of a room that is gone.
THEOREM TypeCorrect == Spec => []TypeOK
<1>1. IInv => TypeOK
  BY DEF IInv
<1> QED
  BY <1>1, Invariant, PTL

\* The seats of each room no update touched add up, for any number of requests,
\* rooms and users (joinCarpoolRoom, leaveCarpoolRoom).
THEOREM SeatsAlwaysAddUp == Spec => []SeatsAddUp
<1>1. IInv => SeatsAddUp
  BY DEF IInv
<1> QED
  BY <1>1, Invariant, PTL

\* No notice of a deletion precedes the deletion (deleteCarpoolRoom).
THEOREM AnnouncedAfterwards == Spec => []DeletionAnnouncedAfter
<1>1. IInv => DeletionAnnouncedAfter
  BY DEF IInv, Requests, Fit, DeletionAnnouncedAfter
<1> QED
  BY <1>1, Invariant, PTL

-----------------------------------------------------------------------------
(* The reminders.  The windows of the runs of the job lie side by side, and *)
(* whatever changes a departure or the arrived flag dates the change.       *)

\* A run takes the time of the cron job; a reminder is one of its window.
RunsOnTime ==
    /\ \A x \in due : x[2] <= now /\ x[2] % Period = 0
    /\ \A x \in readied : x[4] % Period = 0 /\ InWindow(x[2], x[4])

ReminderInv == IInv /\ RunsOnTime /\ ReadyNotMissed

LEMMA Multiple ==
    ASSUME NEW P \in Int, 0 < P, NEW t \in Int, t % P = 0
    PROVE  \E k \in Int : t = P * k
  BY SMT

\* Two times of the cron job less than a period apart are the same.
LEMMA SameRun ==
    ASSUME NEW s \in Nat, NEW t \in Nat, s % Period = 0, t % Period = 0,
           s - t < Period, t - s < Period
    PROVE  s = t
<1>1. Period \in Nat \ {0}
  BY ConstantsAssumption
<1>2. PICK P \in Int : P = Period /\ 0 < P
  BY <1>1
<1>3. PICK a \in Int : s = P * a
  <2>1. s \in Int /\ s % P = 0
    BY <1>2
  <2> QED
    BY <1>2, <2>1, Multiple
<1>4. PICK b \in Int : t = P * b
  <2>1. t \in Int /\ t % P = 0
    BY <1>2
  <2> QED
    BY <1>2, <2>1, Multiple
<1>5. s - t = P * (a - b) /\ s - t < P /\ t - s < P
  BY <1>2, <1>3, <1>4
<1>6. a - b < 1
  <2>1. a - b >= 1 => P * (a - b) >= P
    BY <1>2
  <2> QED
    BY <1>5, <2>1
<1>7. b - a < 1
  <2>1. b - a >= 1 => P * (b - a) >= P
    BY <1>2
  <2>2. P * (b - a) = t - s
    BY <1>3, <1>4
  <2> QED
    BY <1>5, <2>1, <2>2
<1>8. a = b
  BY <1>6, <1>7
<1> QED
  BY <1>3, <1>4, <1>8

\* What the step of a request or of the hourly job does to the rooms: each one
\* keeps departure and flag, or was changed just now.
Dated ==
    \A r \in exists' :
        \/ /\ r \in exists
           /\ room'[r].depart = room[r].depart
           /\ room'[r].arrived = room[r].arrived
           /\ since'[r] = since[r]
        \/ since'[r] = now

LEMMA DatedKeeps ==
    ASSUME ReminderInv, Dated, UNCHANGED clock
    PROVE  RunsOnTime' /\ ReadyNotMissed'
<1>1. now' = now /\ due' = due /\ readied' = readied /\ skipped' = skipped
  BY DEF clock
<1>2. RunsOnTime'
  BY <1>1 DEF ReminderInv, RunsOnTime, InWindow
<1>3. ReadyNotMissed'
  <2> SUFFICES ASSUME NEW r \in exists', NEW i \in Servers, NEW t \in 1 .. now,
                      t % Period = 0, <<i, t>> \notin due \cup skipped, since'[r] < t,
                      t + Lead <= room'[r].depart,
                      room'[r].depart <= t + Lead + Period - 1, room'[r].arrived = 0
               PROVE  \E x \in readied : x[1] = r /\ x[2] = room'[r].depart /\ x[3] = i
    BY <1>1 DEF ReadyNotMissed
  <2>1. now \in Nat
    BY DEF ReminderInv, IInv, TypeOK
  <2>2. since'[r] # now
    BY <2>1
  <2>3. /\ r \in exists
        /\ room'[r].depart = room[r].depart
        /\ room'[r].arrived = room[r].arrived
        /\ since'[r] = since[r]
    BY <2>2 DEF Dated
  <2> QED
    BY <2>3 DEF ReminderInv, ReadyNotMissed
<1> QED
  BY <1>2, <1>3

\* A step that touches no row and no date.
LEMMA DatedStill ==
    ASSUME exists' \subseteq exists, UNCHANGED <<room, since>>
    PROVE  Dated
  BY DEF Dated

LEMMA DatedRow ==
    ASSUME TypeOK, NEW r \in Rooms, NEW e \in Row, room' = [room EXCEPT ![r] = e],
           exists' = exists \cup {r}, since' = [since EXCEPT ![r] = now]
    PROVE  Dated
  BY DEF Dated, TypeOK

\* A written row is dated if its departure or its flag differs.
LEMMA DatedSince ==
    ASSUME TypeOK, NEW r \in Rooms, NEW e \in Row, room' = [room EXCEPT ![r] = e],
           UNCHANGED exists, Since(r, e)
    PROVE  Dated
<1>1. CASE e.depart = room[r].depart /\ e.arrived = room[r].arrived
  <2>1. since' = since
    BY <1>1 DEF Since
  <2> QED
    BY <1>1, <2>1 DEF Dated, TypeOK
<1>2. CASE ~(e.depart = room[r].depart /\ e.arrived = room[r].arrived)
  <2>1. since' = [since EXCEPT ![r] = now]
    BY <1>2 DEF Since
  <2> QED
    BY <2>1 DEF Dated, TypeOK
<1> QED
  BY <1>1, <1>2

\* A written row whose departure and flag stay needs no date.
LEMMA DatedSame ==
    ASSUME TypeOK, NEW r \in Rooms, NEW e \in Row, room' = [room EXCEPT ![r] = e],
           e.depart = room[r].depart, e.arrived = room[r].arrived,
           UNCHANGED <<exists, since>>
    PROVE  Dated
  BY DEF Dated, TypeOK

LEMMA DatedRequest ==
    ASSUME IInv, NEW p \in Procs, Request(p)
    PROVE  Dated /\ UNCHANGED clock
<1>1. ASSUME NEW u \in Users, NEW n \in SeatCounts, NEW d \in Departures, Create(p, u, n, d)
      PROVE  Dated /\ UNCHANGED clock
  <2>1. PICK r \in Rooms :
            /\ exists' = exists \cup {r}
            /\ room' = [room EXCEPT ![r] =
                   [NoRow EXCEPT !.driver = u, !.total = n, !.left = n - 1, !.depart = d]]
            /\ since' = [since EXCEPT ![r] = now]
    BY <1>1 DEF Create
  <2>2. [NoRow EXCEPT !.driver = u, !.total = n, !.left = n - 1, !.depart = d] \in Row
    <3>1. n \in Int /\ n - 1 \in Int /\ d \in Nat
      BY ConstantsAssumption
    <3> QED
      BY <3>1, Placeholders DEF Row
  <2>3. Dated
    BY <2>1, <2>2, DatedRow DEF IInv
  <2> QED
    BY <1>1, <2>3 DEF Create
<1>2. ASSUME NEW r \in Rooms, UpdateFind(p, r) \/ DeleteFind(p, r)
      PROVE  Dated /\ UNCHANGED clock
  BY <1>2, DatedStill DEF UpdateFind, DeleteFind, tables, history
<1>3. ASSUME NEW r \in Rooms, NEW u \in Users, JoinCheck(p, r, u) \/ LeaveCheck(p, r, u)
      PROVE  Dated /\ UNCHANGED clock
  BY <1>3, DatedStill DEF JoinCheck, LeaveCheck, tables, history
<1>4. ASSUME NEW r \in Rooms, NEW s \in Statuses, NEW k \in {"none", "start"},
             StatusFind(p, r, s, k)
      PROVE  Dated /\ UNCHANGED clock
  BY <1>4, DatedStill DEF StatusFind, tables, history
<1> QED
  BY <1>1, <1>2, <1>3, <1>4 DEF Request

LEMMA DatedUpdate ==
    ASSUME IInv, NEW p \in Procs, UpdateWrite(p) \/ UpdateInsert(p)
    PROVE  Dated /\ UNCHANGED clock
<1>1. TypeOK
  BY DEF IInv
<1>2. job[p] \in Job /\ job[p].room \in Rooms
  BY Begun DEF UpdateWrite, UpdateInsert
<1>3. job[p].seen \in Row /\ job[p].dirty \in SUBSET Columns
      /\ room[job[p].room] \in Row
  BY <1>1, <1>2 DEF Job, TypeOK
<1>4. CASE UpdateWrite(p)
  <2>1. CASE job[p].room \in exists
    <3>1. PICK e : e = Saved(room[job[p].room], job[p].seen, job[p].dirty)
      OBVIOUS
    <3>2. e \in Row
      BY <1>3, <3>1, SavedType
    <3>3. room' = [room EXCEPT ![job[p].room] = e] /\ Since(job[p].room, e)
          /\ UNCHANGED exists
      BY <1>4, <2>1, <3>1 DEF UpdateWrite
    <3>4. Dated
      BY <1>1, <1>2, <3>2, <3>3, DatedSince
    <3> QED
      BY <1>4, <3>4 DEF UpdateWrite
  <2>2. CASE job[p].room \notin exists
    BY <1>4, <2>2, DatedStill DEF UpdateWrite
  <2> QED
    BY <2>1, <2>2
<1>5. CASE UpdateInsert(p)
  <2>1. CASE job[p].room \in exists
    BY <1>5, <2>1, DatedStill DEF UpdateInsert, Quit, tables, history
  <2>2. CASE job[p].room \notin exists
    <3>1. PICK e \in Row : e = job[p].seen
      BY <1>3
    <3>2. /\ exists' = exists \cup {job[p].room}
          /\ room' = [room EXCEPT ![job[p].room] = e]
          /\ since' = [since EXCEPT ![job[p].room] = now]
      BY <1>5, <2>2, <3>1 DEF UpdateInsert
    <3>3. Dated
      BY <1>1, <1>2, <3>2, DatedRow
    <3> QED
      BY <1>5, <2>2, <3>3 DEF UpdateInsert
  <2> QED
    BY <2>1, <2>2
<1> QED
  BY <1>4, <1>5

LEMMA DatedMembers ==
    ASSUME IInv, NEW p \in Procs, JoinCommit(p) \/ LeaveCommit(p) \/ StatusCommit(p)
    PROVE  Dated /\ UNCHANGED clock
<1>1. TypeOK
  BY DEF IInv
<1>2. job[p] \in Job /\ job[p].room \in Rooms
      /\ (pc[p] = "status" => job[p].dirty \subseteq {"status"})
  BY Begun DEF JoinCommit, LeaveCommit, StatusCommit
<1>3. PICK r \in Rooms : r = job[p].room
  BY <1>2
<1>4. room[r] \in Row /\ job[p].seen \in Row
  BY <1>1, <1>2 DEF TypeOK, Job
<1>5. CASE JoinCommit(p)
  <2>1. CASE Quit(p)
    BY <2>1, DatedStill DEF Quit, tables, history
  <2>2. CASE ~Quit(p)
    <3>1. room' = [room EXCEPT ![r].left = @ - 1] /\ UNCHANGED <<exists, clock, history>>
      BY <1>3, <1>5, <2>2 DEF JoinCommit
    <3>2. PICK e : e = [room[r] EXCEPT !.left = @ - 1]
      OBVIOUS
    <3>3. e \in Row /\ e.depart = room[r].depart /\ e.arrived = room[r].arrived
      BY <1>4, <3>2 DEF Row
    <3>4. room' = [room EXCEPT ![r] = e]
      BY <3>1, <3>2
    <3>5. UNCHANGED <<exists, since>>
      BY <3>1 DEF history
    <3> QED
      BY <1>1, <3>1, <3>3, <3>4, <3>5, DatedSame
  <2> QED
    BY <2>1, <2>2
<1>6. CASE LeaveCommit(p)
  <2>1. CASE r \in exists
    <3>1. PICK e : e = [room[r] EXCEPT !.left = @ + 1, !.arrived = 0]
      OBVIOUS
    <3>2. e \in Row
      <4>1. room[r].left + 1 \in Int
        BY <1>4 DEF Row
      <4> QED
        BY <1>4, <3>1, <4>1 DEF Row
    <3>3. room' = [room EXCEPT ![r] = e] /\ Since(r, e) /\ UNCHANGED exists
      BY <1>3, <1>6, <2>1, <3>1 DEF LeaveCommit
    <3>4. Dated
      BY <1>1, <3>2, <3>3, DatedSince
    <3> QED
      BY <1>6, <3>4 DEF LeaveCommit
  <2>2. CASE r \notin exists
    BY <1>3, <1>6, <2>2, DatedStill DEF LeaveCommit
  <2> QED
    BY <2>1, <2>2
<1>7. CASE StatusCommit(p)
  <2>1. UNCHANGED <<exists, clock, since>>
    BY <1>7 DEF StatusCommit, history
  <2>2. CASE r \in exists
    <3>1. PICK e : e = Saved(room[r], job[p].seen, job[p].dirty)
      OBVIOUS
    <3>2. job[p].dirty \subseteq {"status"} /\ job[p].dirty \in SUBSET Columns
      BY <1>2, <1>7 DEF StatusCommit, Job
    <3>3. e \in Row
      BY <1>4, <3>1, <3>2, SavedType
    <3>4. e.depart = room[r].depart /\ e.arrived = room[r].arrived
      BY <1>4, <3>1, <3>2 DEF Saved, Row
    <3>5. room' = [room EXCEPT ![r] = e]
      BY <1>3, <1>7, <2>2, <3>1 DEF StatusCommit
    <3> QED
      BY <1>1, <2>1, <3>3, <3>4, <3>5, DatedSame
  <2>3. CASE r \notin exists
    BY <1>3, <1>7, <2>1, <2>3, DatedStill DEF StatusCommit
  <2> QED
    BY <2>2, <2>3
<1> QED
  BY <1>5, <1>6, <1>7

LEMMA DatedServe ==
    ASSUME IInv, NEW p \in Procs, Serve(p)
    PROVE  Dated /\ UNCHANGED clock
<1>1. CASE UpdateReload(p) \/ ListMembers(p) \/ Push(p) \/ DeleteCheck(p) \/ StartName(p)
           \/ Abort(p)
  BY <1>1, DatedStill
  DEF UpdateReload, ListMembers, Push, DeleteCheck, StartName, Abort, Quit, tables, history
<1>2. CASE DeleteCommit(p)
  BY <1>2, DatedStill DEF DeleteCommit
<1> QED
  BY <1>1, <1>2, DatedUpdate, DatedMembers DEF Serve

LEMMA DatedOld ==
    ASSUME IInv, OldArrive
    PROVE  Dated /\ UNCHANGED clock
<1> DEFINE S == {r \in OldRooms : room[r].arrived = 0}
<1>1. /\ room' = [r \in Rooms |->
             IF r \in S THEN [room[r] EXCEPT !.arrived = 1, !.status = "arrived"]
             ELSE room[r]]
      /\ since' = [r \in Rooms |-> IF r \in S THEN now ELSE since[r]]
      /\ exists' = exists
      /\ UNCHANGED clock
  BY DEF OldArrive
<1> HIDE DEF S
<1>2. exists \subseteq Rooms
  BY DEF IInv, TypeOK
<1>3. \A r \in exists : \/ room'[r] = room[r] /\ since'[r] = since[r]
                        \/ since'[r] = now
  BY <1>1, <1>2
<1> QED
  BY <1>1, <1>3 DEF Dated

\* A run of any outcome reminds only of departures of its window.
LEMMA RunRemindsOwn ==
    ASSUME ReminderInv, NEW i \in Servers, NEW t \in 1 .. now, NEW S \in SUBSET Leaving(t),
           Remind(i, t, S), UNCHANGED now
    PROVE  RunsOnTime'
<1>1. <<i, t>> \in due /\ due' \subseteq due
  BY DEF Remind
<1>2. t % Period = 0
  <2>1. \A x \in due : x[2] % Period = 0
    BY DEF ReminderInv, RunsOnTime
  <2> QED
    BY <1>1, <2>1
<1>3. ASSUME NEW x \in readied' PROVE x[4] % Period = 0 /\ InWindow(x[2], x[4])
  <2>1. CASE x \in readied
    BY <2>1 DEF ReminderInv, RunsOnTime
  <2>2. CASE x \notin readied
    <3>1. PICK r \in S : x = <<r, room[r].depart, i, t>>
      BY <2>2 DEF Remind
    <3>2. x[2] = room[r].depart /\ x[4] = t
      BY <3>1
    <3>3. InWindow(room[r].depart, t)
      BY DEF Leaving
    <3> QED
      BY <1>2, <3>2, <3>3
  <2> QED
    BY <2>1, <2>2
<1>4. \A x \in due' : x[2] <= now' /\ x[2] % Period = 0
  BY <1>1 DEF ReminderInv, RunsOnTime
<1> QED
  BY <1>3, <1>4 DEF RunsOnTime, InWindow

\* The run of an instance for time t reminds of every departure of its window.
LEMMA RunRemindsAll ==
    ASSUME ReminderInv, NEW i \in Servers, NEW t \in 1 .. now, ReadyCheck(i, t)
    PROVE  RunsOnTime' /\ ReadyNotMissed'
<1>1. /\ UNCHANGED <<exists, room, since, now, skipped>>
      /\ due' = due \ {<<i, t>>}
      /\ readied' = readied \cup {<<r, room[r].depart, i, t>> : r \in Leaving(t)}
  BY DEF ReadyCheck, Remind, tables, history
<1>2. RunsOnTime'
  <2>1. Remind(i, t, Leaving(t)) /\ Leaving(t) \in SUBSET Leaving(t)
    BY DEF ReadyCheck
  <2> QED
    BY <1>1, <2>1, RunRemindsOwn
<1>3. t \in Nat
  OBVIOUS
<1>4. ReadyNotMissed'
  <2> SUFFICES ASSUME NEW r \in exists, NEW k \in Servers, NEW s \in 1 .. now,
                      s % Period = 0, <<k, s>> \notin (due \ {<<i, t>>}) \cup skipped,
                      since[r] < s, s + Lead <= room[r].depart,
                      room[r].depart <= s + Lead + Period - 1, room[r].arrived = 0
               PROVE  \E x \in readied' : x[1] = r /\ x[2] = room[r].depart /\ x[3] = k
    BY <1>1 DEF ReadyNotMissed
  <2>1. CASE s = t /\ k = i
    <3>1. room[r].depart \in Nat
      BY DEF ReminderInv, IInv, TypeOK, Row
    <3>2. r \in Leaving(t)
      BY <1>3, <2>1, <3>1, ConstantsAssumption DEF Leaving, InWindow
    <3>3. PICK x : x = <<r, room[r].depart, i, t>>
      OBVIOUS
    <3>4. x \in readied' /\ x[1] = r /\ x[2] = room[r].depart /\ x[3] = i
      BY <1>1, <3>2, <3>3
    <3> QED
      BY <2>1, <3>4
  <2>2. CASE ~(s = t /\ k = i)
    <3>1. <<k, s>> \notin due \cup skipped
      BY <2>2
    <3>2. PICK x \in readied : x[1] = r /\ x[2] = room[r].depart /\ x[3] = k
      BY <3>1 DEF ReminderInv, ReadyNotMissed
    <3> QED
      BY <1>1, <3>2
  <2> QED
    BY <2>1, <2>2
<1> QED
  BY <1>2, <1>4

\* The run of an instance that fails on the way counts as skipped.
LEMMA RunFails ==
    ASSUME ReminderInv, NEW i \in Servers, NEW t \in 1 .. now, ReadyFail(i, t)
    PROVE  RunsOnTime' /\ ReadyNotMissed'
<1>1. PICK S \in SUBSET Leaving(t) : Remind(i, t, S)
  BY DEF ReadyFail
<1>2. /\ UNCHANGED <<exists, room, since, now>>
      /\ due \cup skipped \subseteq due' \cup skipped'
      /\ readied \subseteq readied'
  BY <1>1 DEF ReadyFail, Remind, tables, history
<1>3. RunsOnTime'
  BY <1>1, <1>2, RunRemindsOwn
<1>4. ReadyNotMissed'
  <2> SUFFICES ASSUME NEW r \in exists, NEW k \in Servers, NEW s \in 1 .. now,
                      s % Period = 0, <<k, s>> \notin due' \cup skipped',
                      since[r] < s, s + Lead <= room[r].depart,
                      room[r].depart <= s + Lead + Period - 1, room[r].arrived = 0
               PROVE  \E x \in readied' : x[1] = r /\ x[2] = room[r].depart /\ x[3] = k
    BY <1>2 DEF ReadyNotMissed
  <2>1. PICK x \in readied : x[1] = r /\ x[2] = room[r].depart /\ x[3] = k
    BY <1>2 DEF ReminderInv, ReadyNotMissed
  <2> QED
    BY <1>2, <2>1
<1> QED
  BY <1>3, <1>4

\* The passing of time makes runs due.
LEMMA TimePasses ==
    ASSUME ReminderInv, Tick
    PROVE  RunsOnTime' /\ ReadyNotMissed'
<1>1. UNCHANGED <<exists, room, since, readied, skipped>> /\ now \in Nat /\ now' = now + 1
  BY DEF Tick, tables, history, ReminderInv, IInv, TypeOK
<1>2. RunsOnTime'
  <2>1. ASSUME NEW x \in due' PROVE x[2] <= now' /\ x[2] % Period = 0
    <3>1. CASE x \in due
      <4>1. x[2] <= now /\ x[2] % Period = 0 /\ x[2] \in Nat
        BY <3>1 DEF ReminderInv, RunsOnTime, IInv, TypeOK
      <4> QED
        BY <1>1, <4>1
    <3>2. CASE x \notin due
      <4>1. x \in Servers \X {now'} /\ now' % Period = 0
        BY <3>2 DEF Tick
      <4> QED
        BY <1>1, <4>1
    <3> QED
      BY <3>1, <3>2
  <2> QED
    BY <1>1, <2>1 DEF ReminderInv, RunsOnTime, InWindow
<1>3. ReadyNotMissed'
  <2> SUFFICES ASSUME NEW r \in exists, NEW i \in Servers, NEW s \in 1 .. now',
                      s % Period = 0, <<i, s>> \notin due' \cup skipped, since[r] < s,
                      s + Lead <= room[r].depart,
                      room[r].depart <= s + Lead + Period - 1, room[r].arrived = 0
               PROVE  \E x \in readied : x[1] = r /\ x[2] = room[r].depart /\ x[3] = i
    BY <1>1 DEF ReadyNotMissed
  <2>1. <<i, s>> \notin due \cup skipped
    BY DEF Tick
  <2>2. s # now'
    BY <1>1 DEF Tick
  <2>3. s \in 1 .. now
    BY <1>1, <2>2
  <2> QED
    BY <2>1, <2>3 DEF ReminderInv, ReadyNotMissed
<1> QED
  BY <1>2, <1>3

LEMMA ReminderInit == Init => ReminderInv
<1> SUFFICES ASSUME Init PROVE ReminderInv
  OBVIOUS
<1>1. RunsOnTime /\ ReadyNotMissed
  BY DEF Init, RunsOnTime, ReadyNotMissed
<1> QED
  BY <1>1, Start DEF ReminderInv

LEMMA ReminderStep == ReminderInv /\ [Next]_vars => ReminderInv'
<1> SUFFICES ASSUME ReminderInv, [Next]_vars PROVE ReminderInv'
  OBVIOUS
<1>1. IInv /\ IInv'
  BY Step DEF ReminderInv
<1>2. CASE UNCHANGED vars
  <2>1. UNCHANGED <<exists, room, since>> /\ UNCHANGED clock
    BY <1>2 DEF vars, tables, history
  <2>2. Dated
    BY <2>1, DatedStill
  <2> QED
    BY <1>1, <2>1, <2>2, DatedKeeps DEF ReminderInv
<1>3. CASE Cron
  BY <1>1, <1>3, DatedOld, DatedKeeps, RunRemindsAll, RunFails, TimePasses DEF Cron, ReminderInv
<1>4. ASSUME NEW p \in Procs, Request(p) \/ Serve(p) PROVE ReminderInv'
  BY <1>1, <1>4, DatedRequest, DatedServe, DatedKeeps DEF ReminderInv
<1> QED
  BY <1>2, <1>3, <1>4 DEF Next

\* However many instances run the job, all reminders of a departure are of one
\* time, so that each instance sends one at most: the windows of two times have
\* nothing in common, whatever the lead and the period are (checkCarpoolReady).
THEOREM RemindedOncePerInstance == Spec => []ReadyOncePerInstance
<1>1. ReminderInv => ReadyOncePerInstance
  <2> SUFFICES ASSUME ReminderInv, NEW x \in readied, NEW y \in readied,
                      x[1] = y[1], x[2] = y[2]
               PROVE  x[4] = y[4]
    BY DEF ReadyOncePerInstance
  <2>1. x \in Rooms \X Nat \X Servers \X Nat /\ y \in Rooms \X Nat \X Servers \X Nat
    BY DEF ReminderInv, IInv, TypeOK
  <2>2. x[2] \in Nat /\ x[4] \in Nat /\ y[2] \in Nat /\ y[4] \in Nat
    BY <2>1
  <2>3. /\ x[4] % Period = 0 /\ y[4] % Period = 0
        /\ InWindow(x[2], x[4]) /\ InWindow(y[2], y[4])
    BY DEF ReminderInv, RunsOnTime
  <2>4. x[4] - y[4] < Period /\ y[4] - x[4] < Period
    BY <2>2, <2>3, ConstantsAssumption DEF InWindow
  <2> QED
    BY <2>2, <2>3, <2>4, SameRun
<1> QED
  BY <1>1, ReminderInit, ReminderStep, PTL DEF Spec

\* No reminder falls between two runs (checkCarpoolReady).
THEOREM NoneMissed == Spec => []ReadyNotMissed
<1>1. ReminderInv => ReadyNotMissed
  BY DEF ReminderInv
<1> QED
  BY <1>1, ReminderInit, ReminderStep, PTL DEF Spec

=============================================================================
