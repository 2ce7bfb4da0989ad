----------------------------- MODULE Reservation -----------------------------
(***************************************************************************)
(* Reserved push notices: ReservePushUseCase, CancelReservationUseCase and *)
(* PopDueReservationsUseCase over two Redis keys, the minute job           *)
(* PushNotificationScheduler that sends what is due, and                   *)
(* ExpoNotificationService that hands the messages to Expo in chunks.      *)
(*                                                                         *)
(* Each Redis command, or MULTI block, is one step; so is each database    *)
(* query and each request to Expo.  Between them every other run of the    *)
(* scheduler (a late one, or one of another server) and every request of   *)
(* an administrator may take steps.                                        *)
(***************************************************************************)
EXTENDS Integers, FiniteSets

CONSTANTS
    Ids,         \* the ids the sequence hands out
    Runs,        \* runs of the scheduler that may overlap
    Callers,     \* administrators' requests that may be in flight
    Bookings,    \* the reservations clients ask for
    Users,       \* user ids
    Tokens,      \* registered push tokens
    BadTokens,   \* those that are not Expo tokens
    Owner,       \* the user of each token
    ChunkSize,   \* how many messages Expo takes at once (a hundred)
    MaxTime,     \* bound: where the clock, in minutes, stops
    MaxFaults    \* bound: how often a run dies, or a query or chunk fails

ASSUME ConstantsAssumption ==
    /\ Ids \subseteq Nat \ {0}
    /\ \A b \in Bookings : /\ b.time \in Nat
                           /\ b.titled \in {0, 1}
                           /\ b.target \subseteq Users \/ b.target = {"everyone"}
    /\ Runs \cap Callers = {}
    /\ Owner \in [Tokens -> Users]
    /\ BadTokens \subseteq Tokens
    /\ IsFiniteSet(Tokens)
    /\ ChunkSize \in Nat \ {0}
    /\ MaxTime \in Nat
    /\ MaxFaults \in Nat

VARIABLES
    seq,       \* the counter of PUSH_RESERVATION_ID_SEQUENCE
    due,       \* the ids in the sorted set PUSH_RESERVATION_ZSET
    data,      \* the ids that have a hash PUSH_RESERVATION_DATA
    book,      \* what was reserved under each id
    now,       \* the clock
    pc,        \* where each run and each request stands
    job,       \* what each run remembers
    ask,       \* the id and booking each administrator's request is about
    faults,    \* faults, refused chunks and failed queries so far
    sent,      \* how often Expo took each reservation for each token
    born,      \* history: the ids that were stored
    canceled,  \* history: the ids an administrator was told are canceled
    crossed,   \* history: cancellations that a run of the scheduler was ahead of
    overlaps,  \* history: ids a run read while another one held them
    closed,    \* history: the ids some run was done with
    refused,   \* history: the tokens in chunks Expo refused, of each id
    dropped    \* history: the ids a run died with, or failed to read tokens for

store == <<seq, due, data, book>>
history == <<born, canceled, crossed, overlaps, closed, refused, dropped>>
vars == <<store, now, pc, job, ask, faults, sent, history>>

-----------------------------------------------------------------------------
(* The shape of the data. *)

Blank == [time |-> 0, titled |-> 0, target |-> {}]

(* "poll"    fired, the sorted set not read
   "load"    members read, their hashes not all read
   "remove"  hashes read, nothing removed
   "tokens"  removed, the tokens of the next reservation not read
   "chunk"   tokens read, their chunks not all sent *)
RunPoints == {"idle", "poll", "load", "remove", "tokens", "chunk"}

(* "store"   id drawn, nothing stored
   "cancel"  hash read, nothing removed *)
CallPoints == {"idle", "store", "cancel"}

Job == [asOf : Nat, members : SUBSET Ids, left : SUBSET Ids,
        results : SUBSET Ids, receivers : SUBSET Tokens]

NoJob == [asOf |-> 0, members |-> {}, left |-> {}, results |-> {}, receivers |-> {}]

Ask == [id : Ids \cup {0}, booking : Bookings \cup {Blank}]

NoAsk == [id |-> 0, booking |-> Blank]

Init ==
    /\ seq = 0
    /\ due = {}
    /\ data = {}
    /\ book = [i \in Ids |-> Blank]
    /\ now = 0
    /\ pc = [p \in Runs \cup Callers |-> "idle"]
    /\ job = [r \in Runs |-> NoJob]
    /\ ask = [c \in Callers |-> NoAsk]
    /\ faults = 0
    /\ sent = [i \in Ids |-> [t \in Tokens |-> 0]]
    /\ born = {}
    /\ canceled = {}
    /\ crossed = {}
    /\ overlaps = {}
    /\ closed = {}
    /\ refused = [i \in Ids |-> {}]
    /\ dropped = {}

-----------------------------------------------------------------------------
(* Helpers. *)

Goto(p, point) == pc' = [pc EXCEPT ![p] = point]

\* The sorted set lists its members by time, and ids of one length in their order.
Earlier(i, k) == book[i].time < book[k].time \/ (book[i].time = book[k].time /\ i <= k)

First(S) == CHOOSE i \in S : \A k \in S : Earlier(i, k)

\* A hash without a title counts as missing.
Readable(i) == i \in data /\ book[i].titled = 1

\* The tokens of a target list, or of everyone; an empty list has none.
Addressed(target) ==
    IF target = {"everyone"} THEN Tokens ELSE {t \in Tokens : Owner[t] \in target}

\* The messages Expo is asked to send: other tokens are skipped with a warning.
Receivers(i) == Addressed(book[i].target) \ BadTokens

Chunks(T) ==
    {C \in SUBSET T : Cardinality(C) = ChunkSize}
        \cup (IF T # {} /\ Cardinality(T) < ChunkSize THEN {T} ELSE {})

-----------------------------------------------------------------------------
(* ReservePushUseCase: draw an id, then store both keys in one MULTI. *)

Reserve(c, b) ==
    /\ pc[c] = "idle"
    /\ seq + 1 \in Ids
    /\ seq' = seq + 1
    /\ ask' = [ask EXCEPT ![c] = [id |-> seq + 1, booking |-> b]]
    /\ Goto(c, "store")
    /\ UNCHANGED <<due, data, book, now, job, faults, sent, history>>

Store(c) ==
    /\ pc[c] = "store"
    /\ LET i == ask[c].id IN
        /\ data' = data \cup {i}
        /\ due' = due \cup {i}
        /\ book' = [book EXCEPT ![i] = ask[c].booking]
        /\ born' = born \cup {i}
    /\ ask' = [ask EXCEPT ![c] = NoAsk]
    /\ Goto(c, "idle")
    /\ UNCHANGED <<seq, now, job, faults, sent, canceled, crossed, overlaps, closed, refused, dropped>>

-----------------------------------------------------------------------------
(* CancelReservationUseCase: read the hash, then remove both keys in one
   MULTI.  An id that has no titled hash is answered with a blank result. *)

Cancel(c, i) ==
    /\ pc[c] = "idle"
    /\ Readable(i)
    /\ ask' = [ask EXCEPT ![c] = [NoAsk EXCEPT !.id = i]]
    /\ Goto(c, "cancel")
    /\ UNCHANGED <<store, now, job, faults, sent, history>>

\* Some run holds the reservation, or is through with it.
Ahead(i) == i \in closed \cup dropped \/ \E r \in Runs : i \in job[r].results

\* Variant: the hash stays.
CancelRemove_ZsetOnly(c) ==
    /\ pc[c] = "cancel"
    /\ LET i == ask[c].id IN
        /\ due' = due \ {i}
        /\ canceled' = canceled \cup {i}
        /\ crossed' = IF Ahead(i) THEN crossed \cup {i} ELSE crossed
    /\ ask' = [ask EXCEPT ![c] = NoAsk]
    /\ Goto(c, "idle")
    /\ UNCHANGED <<seq, data, book, now, job, faults, sent, born, overlaps, closed, refused, dropped>>

CancelRemove(c) ==
    /\ pc[c] = "cancel"
    /\ LET i == ask[c].id IN
        /\ due' = due \ {i}
        /\ data' = data \ {i}
        /\ canceled' = canceled \cup {i}
        /\ crossed' = IF Ahead(i) THEN crossed \cup {i} ELSE crossed
    /\ ask' = [ask EXCEPT ![c] = NoAsk]
    /\ Goto(c, "idle")
    /\ UNCHANGED <<seq, book, now, job, faults, sent, born, overlaps, closed, refused, dropped>>

-----------------------------------------------------------------------------
(* PushNotificationScheduler.pollReservation, and PopDueReservationsUseCase. *)

\* The minute job fires: the time it works with is read first.
Fire(r) ==
    /\ pc[r] = "idle"
    /\ job' = [job EXCEPT ![r] = [NoJob EXCEPT !.asOf = now]]
    /\ Goto(r, "poll")
    /\ UNCHANGED <<store, now, ask, faults, sent, history>>

\* zRangeByScore: the ids that are due.
DueBy(time) == {i \in due : book[i].time <= time}

Poll(r) ==
    /\ pc[r] = "poll"
    /\ LET S == DueBy(job[r].asOf) IN
        IF S = {}
        THEN Goto(r, "idle") /\ job' = [job EXCEPT ![r] = NoJob]
        ELSE Goto(r, "load") /\ job' = [job EXCEPT ![r] = [NoJob EXCEPT !.members = S, !.left = S]]
    /\ UNCHANGED <<store, now, ask, faults, sent, history>>

\* hGetAll of the next member; one whose hash is gone or has no title is skipped.
Load(r) ==
    /\ pc[r] = "load"
    /\ LET i == First(job[r].left)
           got == IF Readable(i) THEN {i} ELSE {}
       IN
        /\ job' = [job EXCEPT ![r].left = @ \ {i}, ![r].results = @ \cup got]
        /\ overlaps' = overlaps \cup {k \in got : \E q \in Runs : k \in job[q].results}
        /\ Goto(r, IF job[r].left = {i} THEN "remove" ELSE "load")
    /\ UNCHANGED <<store, now, ask, faults, sent, born, canceled, crossed, closed, refused, dropped>>

\* Variants: nothing, what is due by now, or what had a title.
Removed_None(r) == {}

Removed_ByScore(r) == DueBy(now)

Removed_Titled(r) == job[r].results

\* The members that were read leave the sorted set, and their hashes go, at once.
Removed(r) == job[r].members

PopRemove(r) ==
    /\ pc[r] = "remove"
    /\ due' = due \ Removed(r)
    /\ data' = data \ Removed(r)
    /\ IF job[r].results = {}
       THEN Goto(r, "idle") /\ job' = [job EXCEPT ![r] = NoJob]
       ELSE /\ Goto(r, "tokens")
            /\ job' = [job EXCEPT ![r].members = {}]
    /\ UNCHANGED <<seq, book, now, ask, faults, sent, history>>

\* The run is done with its first reservation.
Advance(r) ==
    LET i == First(job[r].results) IN
    IF job[r].results = {i}
    THEN Goto(r, "idle") /\ job' = [job EXCEPT ![r] = NoJob]
    ELSE /\ Goto(r, "tokens")
         /\ job' = [job EXCEPT ![r].results = @ \ {i}, ![r].receivers = {}]

\* GetPushTokensQuery, and the choice of receivers in ExpoNotificationService.send.
ReadTokens(r) ==
    /\ pc[r] = "tokens"
    /\ LET i == First(job[r].results) IN
        IF Receivers(i) = {}
        THEN Advance(r) /\ closed' = closed \cup {i}
        ELSE /\ Goto(r, "chunk")
             /\ job' = [job EXCEPT ![r].receivers = Receivers(i)]
             /\ closed' = closed
    /\ UNCHANGED <<store, now, ask, faults, sent, born, canceled, crossed, overlaps, refused, dropped>>

\* The query fails: the error is logged and the next reservation taken.
TokensFail(r) ==
    /\ pc[r] = "tokens"
    /\ faults < MaxFaults
    /\ faults' = faults + 1
    /\ dropped' = dropped \cup {First(job[r].results)}
    /\ Advance(r)
    /\ UNCHANGED <<store, now, ask, sent, born, canceled, crossed, overlaps, closed, refused>>

\* A chunk was tried; the others are left.
AfterChunk(r, C) ==
    LET i == First(job[r].results) IN
    IF job[r].receivers = C
    THEN Advance(r) /\ closed' = closed \cup {i}
    ELSE /\ pc' = pc
         /\ job' = [job EXCEPT ![r].receivers = @ \ C]
         /\ closed' = closed

\* sendPushNotificationsAsync takes a chunk ...
SendChunk(r) ==
    /\ pc[r] = "chunk"
    /\ \E C \in Chunks(job[r].receivers) :
        /\ sent' = [sent EXCEPT ![First(job[r].results)] =
                       [t \in Tokens |-> IF t \in C THEN @[t] + 1 ELSE @[t]]]
        /\ AfterChunk(r, C)
    /\ UNCHANGED <<store, now, ask, faults, born, canceled, crossed, overlaps, refused, dropped>>

\* Variant: a refused chunk is the last one.
ChunkRefused_Ends(r) ==
    /\ pc[r] = "chunk"
    /\ faults < MaxFaults
    /\ faults' = faults + 1
    /\ LET i == First(job[r].results) IN
        /\ \E C \in Chunks(job[r].receivers) : refused' = [refused EXCEPT ![i] = @ \cup C]
        /\ closed' = closed \cup {i}
    /\ Advance(r)
    /\ UNCHANGED <<store, now, ask, sent, born, canceled, crossed, overlaps, dropped>>

\* ... or refuses it: the error is logged and the next chunk sent.
ChunkRefused(r) ==
    /\ pc[r] = "chunk"
    /\ faults < MaxFaults
    /\ faults' = faults + 1
    /\ \E C \in Chunks(job[r].receivers) :
        /\ refused' = [refused EXCEPT ![First(job[r].results)] = @ \cup C]
        /\ AfterChunk(r, C)
    /\ UNCHANGED <<store, now, ask, sent, born, canceled, crossed, overlaps, dropped>>

\* The server of the run stops: what the run held in memory is gone.
Crash(r) ==
    /\ pc[r] # "idle"
    /\ faults < MaxFaults
    /\ faults' = faults + 1
    /\ dropped' = dropped \cup job[r].results
    /\ job' = [job EXCEPT ![r] = NoJob]
    /\ Goto(r, "idle")
    /\ UNCHANGED <<store, now, ask, sent, born, canceled, crossed, overlaps, closed, refused>>

-----------------------------------------------------------------------------

Tick ==
    /\ now < MaxTime
    /\ now' = now + 1
    /\ UNCHANGED <<store, pc, job, ask, faults, sent, history>>

Call(c) ==
    \/ \E b \in Bookings : Reserve(c, b)
    \/ Store(c)
    \/ \E i \in Ids : Cancel(c, i)
    \/ CancelRemove(c)

Work(r) ==
    \/ Poll(r)
    \/ Load(r)
    \/ PopRemove(r)
    \/ ReadTokens(r)
    \/ SendChunk(r)

Fault(r) == TokensFail(r) \/ ChunkRefused(r) \/ Crash(r)

Next ==
    \/ Tick
    \/ \E c \in Callers : Call(c)
    \/ \E r \in Runs : Fire(r) \/ Work(r) \/ Fault(r)

Spec == Init /\ [][Next]_vars

\* The clock and the minute job go on, and a run that started goes on.
Fairness ==
    /\ WF_vars(Tick)
    /\ \A r \in Runs : WF_vars(Fire(r)) /\ WF_vars(Work(r))

FairSpec == Spec /\ Fairness

-----------------------------------------------------------------------------
(* Properties. *)

\* The shape of the state, and what runs and requests remember at each point.
TypeOK ==
    /\ seq \in Ids \cup {0}
    /\ due \subseteq Ids
    /\ data \subseteq Ids
    /\ book \in [Ids -> Bookings \cup {Blank}]
    /\ now \in 0..MaxTime
    /\ pc \in [Runs \cup Callers -> RunPoints \cup CallPoints]
    /\ \A r \in Runs : pc[r] \in RunPoints
    /\ \A c \in Callers : pc[c] \in CallPoints
    /\ job \in [Runs -> Job]
    /\ ask \in [Callers -> Ask]
    /\ faults \in 0..MaxFaults
    /\ sent \in [Ids -> [Tokens -> Nat]]
    /\ born \subseteq Ids
    /\ canceled \subseteq Ids
    /\ crossed \subseteq Ids
    /\ overlaps \subseteq Ids
    /\ closed \subseteq Ids
    /\ refused \in [Ids -> SUBSET Tokens]
    /\ dropped \subseteq Ids
    /\ \A c \in Callers : pc[c] # "idle" => ask[c].id \in Ids
    /\ \A r \in Runs :
        /\ pc[r] = "load" => job[r].left # {}
        /\ pc[r] \in {"tokens", "chunk"} => job[r].results # {}
        /\ pc[r] = "chunk" => job[r].receivers # {}

\* The sorted set and the hashes name the same reservations, whatever requests
\* and runs interleave and whichever of them dies: both keys change in one MULTI
\* (reserve-push.usecase.ts:21-33, cancel-reservation.usecase.ts:29-33,
\* pop-due-reservations.usecase.ts:51-55).
KeysAgree == due = data

\* No reservation is sent before its time (pop-due-reservations.usecase.ts:20-24).
NotEarly ==
    \A i \in Ids, t \in Tokens : sent[i][t] > 0 => book[i].time <= now

\* A receiver gets a reservation twice only when a run read it while another run
\* had read it too and not finished (pop-due-reservations.usecase.ts:30-55).
OnceUnlessOverlap ==
    \A i \in Ids \ overlaps, t \in Tokens : sent[i][t] <= 1

\* A cancellation that no run was ahead of is final: nobody receives the
\* reservation, also from runs that had listed it (cancel-reservation.usecase.ts:29-33).
CancelHolds ==
    \A i \in canceled \ crossed :
        /\ \A t \in Tokens : sent[i][t] = 0
        /\ \A r \in Runs : i \notin job[r].results

\* A titled reservation that left the book was canceled, or is in the hands of a
\* run, or was dealt with, or a run died or failed with it: none disappears
\* because of what other requests and runs did in between
\* (pop-due-reservations.usecase.ts:47-55).
NothingLost ==
    \A i \in born \ due :
        \/ book[i].titled = 0
        \/ i \in canceled \cup closed \cup dropped
        \/ \E r \in Runs : i \in job[r].results

\* A run that is through with a reservation offered it to Expo for every receiver:
\* a chunk that is refused does not keep the others from being sent
\* (expo-notification.service.ts:46-53).
EveryReceiverTried ==
    \A i \in closed : \A t \in Receivers(i) : sent[i][t] > 0 \/ t \in refused[i]

\* Every reservation whose time comes leaves the book and the hands of the runs,
\* one without a title too, under a minute job that goes on firing
\* (push-notification.scheduler.ts:22-44).
EveryoneServed ==
    \A i \in Ids :
        (i \in born) ~> (i \notin due /\ \A r \in Runs : i \notin job[r].results)

\* What a run still has to send: all of what it holds, and of the reservation it
\* is at, the receivers it has not come to.
OwedBy(r) ==
    {x \in Ids \X Tokens :
        /\ x[1] \in job[r].results
        /\ IF pc[r] = "chunk" /\ x[1] = First(job[r].results)
           THEN x[2] \in job[r].receivers
           ELSE x[2] \in Receivers(x[1])}

PhaseOf(i) == IF i \in due THEN "booked" ELSE IF i \in born THEN "out" ELSE "none"

Promise == INSTANCE ReservationPromise WITH
    audience <- [i \in Ids |-> Receivers(i)],
    phase <- [i \in Ids |-> PhaseOf(i)],
    owed <- [r \in Runs |-> OwedBy(r)],
    receipts <- sent

\* The steps above implement the promise of reservations: what is sent was picked
\* up while it was booked, and each run sends it to a receiver at most once
\* (push-notification.scheduler.ts:26-43, pop-due-reservations.usecase.ts:19-58).
PromiseSpec == Promise!Spec

=============================================================================
