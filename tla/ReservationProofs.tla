-------------------------- MODULE ReservationProofs --------------------------
(* Theorems about Reservation and their proofs. *)
EXTENDS Reservation, WellFoundedInduction, TLAPS

-----------------------------------------------------------------------------
(* The first reservation of a set. *)

\* A set of numbers has a least one.
LEMMA LeastNumber ==
    ASSUME NEW T \in SUBSET Nat, T # {}
    PROVE  \E n \in T : \A m \in T : n <= m
<1> DEFINE Less == OpToRel(<, Nat)
<1>1. \E n \in T : \A m \in T : ~ (<<m, n>> \in Less)
  BY NatLessThanWellFounded, WFMin
<1>2. \A m, n \in Nat : m < n => <<m, n>> \in Less
  BY DEF OpToRel
<1> HIDE DEF Less
<1>3. PICK n \in T : \A m \in T : ~ (<<m, n>> \in Less)
  BY <1>1
<1>4. \A m \in T : ~ (m < n)
  BY <1>2, <1>3
<1> QED
  BY <1>4

\* Members ordered by their time, then by their id, have a first one.
LEMMA FirstExists ==
    ASSUME NEW b \in [Ids -> Bookings \cup {Blank}], NEW S \in SUBSET Ids, S # {}
    PROVE  \E i \in S : \A k \in S :
              b[i].time < b[k].time \/ (b[i].time = b[k].time /\ i <= k)
<1> DEFINE times == {b[i].time : i \in S}
           Soonest(n) == {i \in S : b[i].time = n}
<1>1. \A i \in Ids : b[i].time \in Nat /\ i \in Nat
  BY ConstantsAssumption DEF Blank
<1>2. times \in SUBSET Nat /\ times # {}
  BY <1>1
<1>3. PICK n \in times : \A m \in times : n <= m
  BY <1>2, LeastNumber
<1>4. Soonest(n) \in SUBSET Nat /\ Soonest(n) # {}
  BY <1>1, <1>3
<1>5. PICK i \in Soonest(n) : \A k \in Soonest(n) : i <= k
  <2> HIDE DEF Soonest
  <2> QED
    BY <1>4, LeastNumber
<1>6. \A k \in S : b[i].time < b[k].time \/ (b[i].time = b[k].time /\ i <= k)
  <2>1. TAKE k \in S
  <2>2. b[i].time = n /\ n <= b[k].time /\ b[k].time \in Nat /\ n \in Nat
    BY <1>1, <1>2, <1>3, <1>5
  <2> QED
    BY <1>5, <2>2
<1> QED
  BY <1>5, <1>6

LEMMA FirstIn ==
    ASSUME TypeOK, NEW S \in SUBSET Ids, S # {}
    PROVE  First(S) \in S
<1>1. \E i \in S : \A k \in S : Earlier(i, k)
  BY FirstExists DEF TypeOK, Earlier
<1> QED
  BY <1>1 DEF First

\* New bookings do not change which of the old ones is the first.
LEMMA FirstStays ==
    ASSUME TypeOK, TypeOK', NEW S \in SUBSET Ids, S # {}, \A i \in S : book'[i] = book[i]
    PROVE  First(S)' = First(S)
<1> DEFINE Is(b, i) == \A k \in S : b[i].time < b[k].time \/ (b[i].time = b[k].time /\ i <= k)
<1>1. /\ First(S) \in S /\ Is(book, First(S))
      /\ First(S)' \in S /\ Is(book', First(S)')
  <2>1. \E i \in S : Is(book, i)
    BY FirstExists DEF TypeOK
  <2>2. \E i \in S : Is(book', i)
    BY FirstExists DEF TypeOK
  <2> QED
    BY <2>1, <2>2 DEF First, Earlier
<1>2. \A i, k \in S : Is(book, i) /\ Is(book, k) => i = k
  <2>1. \A i \in Ids : book[i].time \in Nat /\ i \in Nat
    BY ConstantsAssumption DEF TypeOK, Blank
  <2> QED
    BY <2>1
<1>3. Is(book, First(S)')
  BY <1>1
<1> QED
  BY <1>1, <1>2, <1>3

-----------------------------------------------------------------------------
(* Shapes. *)

LEMMA Placeholders == NoJob \in Job /\ NoAsk \in Ask
  BY DEF NoJob, Job, NoAsk, Ask

LEMMA JobShape ==
    ASSUME TypeOK, NEW r \in Runs
    PROVE  /\ job[r] \in Job
           /\ job[r].members \subseteq Ids /\ job[r].left \subseteq Ids
           /\ job[r].results \subseteq Ids /\ job[r].receivers \subseteq Tokens
           /\ job[r].asOf \in Nat
           /\ job[r].results # {} => First(job[r].results) \in job[r].results
           /\ job[r].left # {} => First(job[r].left) \in job[r].left
<1>1. job[r] \in Job
  BY DEF TypeOK
<1>2. /\ job[r].members \subseteq Ids /\ job[r].left \subseteq Ids
      /\ job[r].results \subseteq Ids /\ job[r].receivers \subseteq Tokens
      /\ job[r].asOf \in Nat
  BY <1>1 DEF Job
<1> QED
  BY <1>1, <1>2, FirstIn

LEMMA PointShape ==
    ASSUME TypeOK, NEW p \in Runs \cup Callers, NEW point,
           p \in Runs => point \in RunPoints, p \in Callers => point \in CallPoints,
           Goto(p, point)
    PROVE  /\ pc' \in [Runs \cup Callers -> RunPoints \cup CallPoints]
           /\ \A r \in Runs : pc'[r] \in RunPoints
           /\ \A c \in Callers : pc'[c] \in CallPoints
           /\ pc'[p] = point
           /\ \A q \in Runs \cup Callers : q # p => pc'[q] = pc[q]
  BY ConstantsAssumption DEF TypeOK, Goto

\* What a run remembers when it is through with its first reservation.
LEMMA AdvanceShape ==
    ASSUME TypeOK, NEW r \in Runs, pc[r] \in {"tokens", "chunk"}, Advance(r)
    PROVE  /\ pc' \in [Runs \cup Callers -> RunPoints \cup CallPoints]
           /\ \A q \in Runs : pc'[q] \in RunPoints
           /\ \A c \in Callers : pc'[c] \in CallPoints
           /\ job' \in [Runs -> Job]
           /\ \A q \in (Runs \cup Callers) \ {r} : pc'[q] = pc[q]
           /\ \A q \in Runs \ {r} : job'[q] = job[q]
           /\ job'[r].results = job[r].results \ {First(job[r].results)}
           /\ \/ pc'[r] = "idle" /\ job'[r].results = {}
              \/ pc'[r] = "tokens" /\ job'[r].results # {}
<1> DEFINE i == First(job[r].results)
<1>1. job[r] \in Job /\ NoJob \in Job /\ i \in job[r].results
  BY JobShape, Placeholders DEF TypeOK
<1>2. CASE job[r].results = {i}
  <2>1. Goto(r, "idle") /\ job' = [job EXCEPT ![r] = NoJob]
    BY <1>2 DEF Advance
  <2>2. job' \in [Runs -> Job] /\ job'[r].results = {} /\ \A q \in Runs \ {r} : job'[q] = job[q]
    BY <2>1, <1>1 DEF TypeOK, NoJob
  <2>3. /\ pc' \in [Runs \cup Callers -> RunPoints \cup CallPoints]
        /\ \A q \in Runs : pc'[q] \in RunPoints
        /\ \A c \in Callers : pc'[c] \in CallPoints
        /\ pc'[r] = "idle"
        /\ \A q \in Runs \cup Callers : q # r => pc'[q] = pc[q]
    BY <2>1, PointShape, ConstantsAssumption DEF RunPoints
  <2> QED
    BY <2>2, <2>3, <1>2
<1>3. CASE job[r].results # {i}
  <2>1. /\ Goto(r, "tokens")
        /\ job' = [job EXCEPT ![r].results = @ \ {i}, ![r].receivers = {}]
    BY <1>3 DEF Advance
  <2>2. /\ job' \in [Runs -> Job]
        /\ job'[r].results = job[r].results \ {i}
        /\ \A q \in Runs \ {r} : job'[q] = job[q]
    BY <2>1, <1>1 DEF TypeOK, Job
  <2>3. /\ pc' \in [Runs \cup Callers -> RunPoints \cup CallPoints]
        /\ \A q \in Runs : pc'[q] \in RunPoints
        /\ \A c \in Callers : pc'[c] \in CallPoints
        /\ pc'[r] = "tokens"
        /\ \A q \in Runs \cup Callers : q # r => pc'[q] = pc[q]
    BY <2>1, PointShape, ConstantsAssumption DEF RunPoints
  <2> QED
    BY <2>2, <2>3, <1>1, <1>3
<1> QED
  BY <1>2, <1>3

-----------------------------------------------------------------------------
(* Type correctness. *)

LEMMA InitTyped == Init => TypeOK
<1> SUFFICES ASSUME Init
             PROVE  TypeOK
  OBVIOUS
<1>1. NoJob \in Job /\ NoAsk \in Ask
  BY Placeholders
<1> QED
  BY <1>1, ConstantsAssumption DEF Init, TypeOK, RunPoints, CallPoints, Blank

\* Requests of administrators.
LEMMA CallTyped ==
    ASSUME TypeOK, NEW c \in Callers, Call(c)
    PROVE  TypeOK'
<1>1. NoAsk \in Ask /\ c \notin Runs /\ ask[c] \in Ask
  BY Placeholders, ConstantsAssumption DEF TypeOK
<1>2. ASSUME NEW point \in CallPoints, Goto(c, point)
      PROVE  /\ pc' \in [Runs \cup Callers -> RunPoints \cup CallPoints]
             /\ \A d \in Callers : pc'[d] \in CallPoints
             /\ pc'[c] = point
             /\ \A q \in Runs \cup Callers : q # c => pc'[q] = pc[q]
             /\ \A q \in Runs : pc'[q] = pc[q]
  BY <1>1, <1>2, PointShape
<1>3. ASSUME NEW b \in Bookings, Reserve(c, b)
      PROVE  TypeOK'
  <2>1. [id |-> seq + 1, booking |-> b] \in Ask
    BY <1>3 DEF Reserve, Ask
  <2>2. ask' = [ask EXCEPT ![c] = [id |-> seq + 1, booking |-> b]] /\ seq' \in Ids /\ seq' = seq + 1
    BY <1>3 DEF Reserve
  <2>3. /\ ask' \in [Callers -> Ask] /\ ask'[c].id \in Ids
        /\ \A d \in Callers : d # c => ask'[d] = ask[d]
    BY <2>1, <2>2 DEF TypeOK
  <2>4. Goto(c, "store") /\ "store" \in CallPoints
    BY <1>3 DEF Reserve, CallPoints
  <2> QED
    BY <1>2, <1>3, <2>2, <2>3, <2>4 DEF Reserve, TypeOK, history
<1>4. ASSUME Store(c)
      PROVE  TypeOK'
  <2>1. ask[c].booking \in Bookings \cup {Blank} /\ ask[c].id \in Ids
    BY <1>1, <1>4 DEF Ask, Store, TypeOK
  <2>2. Goto(c, "idle") /\ "idle" \in CallPoints
    BY <1>4 DEF Store, CallPoints
  <2>3. ask' \in [Callers -> Ask] /\ \A d \in Callers : d # c => ask'[d] = ask[d]
    BY <1>1, <1>4 DEF Store, TypeOK
  <2> QED
    BY <1>2, <1>4, <2>1, <2>2, <2>3 DEF Store, TypeOK
<1>5. ASSUME NEW i \in Ids, Cancel(c, i)
      PROVE  TypeOK'
  <2>1. [NoAsk EXCEPT !.id = i] \in Ask /\ [NoAsk EXCEPT !.id = i].id = i
    BY DEF NoAsk, Ask
  <2>2. /\ ask' \in [Callers -> Ask] /\ ask'[c].id \in Ids
        /\ \A d \in Callers : d # c => ask'[d] = ask[d]
    BY <1>5, <2>1 DEF Cancel, TypeOK
  <2>3. Goto(c, "cancel") /\ "cancel" \in CallPoints
    BY <1>5 DEF Cancel, CallPoints
  <2> QED
    BY <1>2, <1>5, <2>2, <2>3 DEF Cancel, TypeOK, store, history
<1>6. ASSUME CancelRemove(c)
      PROVE  TypeOK'
  <2>1. ask[c].id \in Ids
    BY <1>6 DEF CancelRemove, TypeOK
  <2>2. Goto(c, "idle") /\ "idle" \in CallPoints
    BY <1>6 DEF CancelRemove, CallPoints
  <2>3. ask' \in [Callers -> Ask] /\ \A d \in Callers : d # c => ask'[d] = ask[d]
    BY <1>1, <1>6 DEF CancelRemove, TypeOK
  <2>4. due' \subseteq Ids /\ data' \subseteq Ids /\ canceled' \subseteq Ids /\ crossed' \subseteq Ids
    BY <1>6, <2>1 DEF CancelRemove, TypeOK
  <2> QED
    BY <1>2, <1>6, <2>2, <2>3, <2>4 DEF CancelRemove, TypeOK
<1> QED
  BY <1>3, <1>4, <1>5, <1>6 DEF Call

\* Runs of the scheduler, up to the removal of what they read.
LEMMA ReadTyped ==
    ASSUME TypeOK, NEW r \in Runs, Fire(r) \/ Poll(r) \/ Load(r) \/ PopRemove(r)
    PROVE  TypeOK'
<1>1. /\ NoJob \in Job /\ r \notin Callers /\ job[r] \in Job
      /\ job[r].members \subseteq Ids /\ job[r].left \subseteq Ids /\ job[r].results \subseteq Ids
  BY Placeholders, JobShape, ConstantsAssumption DEF TypeOK
<1>2. ASSUME NEW point \in RunPoints, Goto(r, point)
      PROVE  /\ pc' \in [Runs \cup Callers -> RunPoints \cup CallPoints]
             /\ \A q \in Runs : pc'[q] \in RunPoints
             /\ pc'[r] = point
             /\ \A q \in Runs \cup Callers : q # r => pc'[q] = pc[q]
             /\ \A c \in Callers : pc'[c] = pc[c]
  BY <1>1, <1>2, PointShape
<1>3. ASSUME NEW j \in Job, job' = [job EXCEPT ![r] = j]
      PROVE  /\ job' \in [Runs -> Job] /\ job'[r] = j
             /\ \A q \in Runs : q # r => job'[q] = job[q]
  BY <1>3 DEF TypeOK
<1>4. /\ "idle" \in RunPoints /\ "poll" \in RunPoints /\ "load" \in RunPoints
      /\ "remove" \in RunPoints /\ "tokens" \in RunPoints
  BY DEF RunPoints
<1>5. CASE Fire(r)
  <2>1. [NoJob EXCEPT !.asOf = now] \in Job
    BY DEF NoJob, Job, TypeOK
  <2>2. Goto(r, "poll") /\ job' = [job EXCEPT ![r] = [NoJob EXCEPT !.asOf = now]]
    BY <1>5 DEF Fire
  <2> QED
    BY <1>2, <1>3, <1>4, <1>5, <2>1, <2>2 DEF Fire, TypeOK, store, history
<1>6. CASE Poll(r)
  <2> DEFINE S == DueBy(job[r].asOf)
  <2>1. [NoJob EXCEPT !.members = S, !.left = S] \in Job
    BY DEF NoJob, Job, TypeOK, DueBy
  <2>2. CASE S = {}
    <3>1. Goto(r, "idle") /\ job' = [job EXCEPT ![r] = NoJob]
      BY <1>6, <2>2 DEF Poll
    <3> QED
      BY <1>1, <1>2, <1>3, <1>4, <1>6, <3>1 DEF Poll, TypeOK, store, history
  <2>3. CASE S # {}
    <3>1. Goto(r, "load") /\ job' = [job EXCEPT ![r] = [NoJob EXCEPT !.members = S, !.left = S]]
      BY <1>6, <2>3 DEF Poll
    <3>2. job'[r].left = S
      BY <1>3, <2>1, <3>1 DEF NoJob
    <3> QED
      BY <1>2, <1>3, <1>4, <1>6, <2>1, <2>3, <3>1, <3>2 DEF Poll, TypeOK, store, history
  <2> QED
    BY <2>2, <2>3
<1>7. CASE Load(r)
  <2> DEFINE i == First(job[r].left)
             got == IF Readable(i) THEN {i} ELSE {}
  <2>1. i \in job[r].left /\ i \in Ids /\ got \subseteq Ids
    BY <1>1, <1>7, JobShape DEF Load, TypeOK
  <2>2. job' = [job EXCEPT ![r].left = @ \ {i}, ![r].results = @ \cup got]
    BY <1>7 DEF Load
  <2>3. /\ job' \in [Runs -> Job] /\ job'[r].left = job[r].left \ {i}
        /\ \A q \in Runs : q # r => job'[q] = job[q]
    <3> HIDE DEF i, got
    <3> QED
      BY <1>1, <2>1, <2>2 DEF TypeOK, Job
  <2>4. overlaps' \subseteq Ids
    <3>1. overlaps' = overlaps \cup {k \in got : \E q \in Runs : k \in job[q].results}
      BY <1>7 DEF Load
    <3> QED
      BY <2>1, <3>1 DEF TypeOK
  <2>5. CASE job[r].left = {i}
    <3>1. Goto(r, "remove")
      BY <1>7, <2>5 DEF Load
    <3> QED
      BY <1>2, <1>4, <1>7, <2>3, <2>4, <3>1 DEF Load, TypeOK, store
  <2>6. CASE job[r].left # {i}
    <3>1. Goto(r, "load") /\ job'[r].left # {}
      BY <1>7, <2>1, <2>3, <2>6 DEF Load
    <3> QED
      BY <1>2, <1>4, <1>7, <2>3, <2>4, <3>1 DEF Load, TypeOK, store
  <2> QED
    BY <2>5, <2>6
<1>8. CASE PopRemove(r)
  <2>1. due' \subseteq Ids /\ data' \subseteq Ids
    BY <1>8 DEF PopRemove, TypeOK
  <2>2. CASE job[r].results = {}
    <3>1. Goto(r, "idle") /\ job' = [job EXCEPT ![r] = NoJob]
      BY <1>8, <2>2 DEF PopRemove
    <3> QED
      BY <1>1, <1>2, <1>3, <1>4, <1>8, <2>1, <3>1 DEF PopRemove, TypeOK, history
  <2>3. CASE job[r].results # {}
    <3>1. Goto(r, "tokens") /\ job' = [job EXCEPT ![r].members = {}]
      BY <1>8, <2>3 DEF PopRemove
    <3>2. /\ job' \in [Runs -> Job] /\ job'[r].results = job[r].results
          /\ \A q \in Runs : q # r => job'[q] = job[q]
      BY <1>1, <3>1 DEF TypeOK, Job
    <3> QED
      BY <1>2, <1>4, <1>8, <2>1, <2>3, <3>1, <3>2 DEF PopRemove, TypeOK, history
  <2> QED
    BY <2>2, <2>3
<1> QED
  BY <1>5, <1>6, <1>7, <1>8

\* Where a run stands when it tried a chunk: at the rest of the receivers, or
\* through with the reservation.
LEMMA AfterChunkShape ==
    ASSUME TypeOK, NEW r \in Runs, pc[r] = "chunk",
           NEW C \in Chunks(job[r].receivers), AfterChunk(r, C)
    PROVE  /\ C \subseteq job[r].receivers
           /\ pc' \in [Runs \cup Callers -> RunPoints \cup CallPoints]
           /\ \A q \in Runs : pc'[q] \in RunPoints
           /\ \A c \in Callers : pc'[c] \in CallPoints
           /\ job' \in [Runs -> Job]
           /\ \A q \in (Runs \cup Callers) \ {r} : pc'[q] = pc[q]
           /\ \A q \in Runs \ {r} : job'[q] = job[q]
           /\ \/ /\ pc'[r] = "chunk"
                 /\ job'[r].results = job[r].results
                 /\ job'[r].receivers = job[r].receivers \ C
                 /\ job'[r].receivers # {}
                 /\ closed' = closed
              \/ /\ job[r].receivers = C
                 /\ job'[r].results = job[r].results \ {First(job[r].results)}
                 /\ \/ pc'[r] = "idle" /\ job'[r].results = {}
                    \/ pc'[r] = "tokens" /\ job'[r].results # {}
                 /\ closed' = closed \cup {First(job[r].results)}
<1>1. C \subseteq job[r].receivers
  BY DEF Chunks
<1>2. job[r] \in Job
  BY DEF TypeOK
<1>3. CASE job[r].receivers = C
  <2>1. Advance(r) /\ closed' = closed \cup {First(job[r].results)}
    BY <1>3 DEF AfterChunk
  <2> QED
    BY <1>1, <1>3, <2>1, AdvanceShape
<1>4. CASE job[r].receivers # C
  <2>1. pc' = pc /\ job' = [job EXCEPT ![r].receivers = @ \ C] /\ closed' = closed
    BY <1>4 DEF AfterChunk
  <2>2. /\ job' \in [Runs -> Job] /\ job'[r].results = job[r].results
        /\ job'[r].receivers = job[r].receivers \ C
        /\ \A q \in Runs \ {r} : job'[q] = job[q]
    BY <1>2, <2>1 DEF TypeOK, Job
  <2>3. job'[r].receivers # {}
    BY <1>1, <1>4, <2>2
  <2> QED
    BY <1>1, <2>1, <2>2, <2>3 DEF TypeOK
<1> QED
  BY <1>3, <1>4

\* Where a run stands when it read the tokens of a reservation.
LEMMA ReadTokensShape ==
    ASSUME TypeOK, NEW r \in Runs, ReadTokens(r)
    PROVE  /\ pc' \in [Runs \cup Callers -> RunPoints \cup CallPoints]
           /\ \A q \in Runs : pc'[q] \in RunPoints
           /\ \A c \in Callers : pc'[c] \in CallPoints
           /\ job' \in [Runs -> Job]
           /\ \A q \in (Runs \cup Callers) \ {r} : pc'[q] = pc[q]
           /\ \A q \in Runs \ {r} : job'[q] = job[q]
           /\ \/ /\ pc'[r] = "chunk"
                 /\ job'[r].results = job[r].results
                 /\ job'[r].receivers = Receivers(First(job[r].results))
                 /\ job'[r].receivers # {}
                 /\ closed' = closed
              \/ /\ Receivers(First(job[r].results)) = {}
                 /\ job'[r].results = job[r].results \ {First(job[r].results)}
                 /\ \/ pc'[r] = "idle" /\ job'[r].results = {}
                    \/ pc'[r] = "tokens" /\ job'[r].results # {}
                 /\ closed' = closed \cup {First(job[r].results)}
<1> DEFINE T == Receivers(First(job[r].results))
<1>1. pc[r] = "tokens" /\ job[r] \in Job /\ T \subseteq Tokens
  BY DEF ReadTokens, TypeOK, Receivers, Addressed
<1>2. CASE T = {}
  <2>1. Advance(r) /\ closed' = closed \cup {First(job[r].results)}
    BY <1>2 DEF ReadTokens
  <2> QED
    BY <1>1, <1>2, <2>1, AdvanceShape
<1>3. CASE T # {}
  <2>1. Goto(r, "chunk") /\ job' = [job EXCEPT ![r].receivers = T] /\ closed' = closed
    BY <1>3 DEF ReadTokens
  <2>2. /\ job' \in [Runs -> Job] /\ job'[r].results = job[r].results
        /\ job'[r].receivers = T
        /\ \A q \in Runs \ {r} : job'[q] = job[q]
    <3> HIDE DEF T
    <3> QED
      BY <1>1, <2>1 DEF TypeOK, Job
  <2>3. /\ pc' \in [Runs \cup Callers -> RunPoints \cup CallPoints]
        /\ \A q \in Runs : pc'[q] \in RunPoints
        /\ \A c \in Callers : pc'[c] \in CallPoints
        /\ pc'[r] = "chunk"
        /\ \A q \in Runs \cup Callers : q # r => pc'[q] = pc[q]
    BY <2>1, PointShape, ConstantsAssumption DEF RunPoints
  <2> QED
    BY <1>3, <2>1, <2>2, <2>3
<1> QED
  BY <1>2, <1>3

LEMMA OneMoreFault ==
    ASSUME TypeOK, faults < MaxFaults, faults' = faults + 1
    PROVE  faults' \in 0..MaxFaults
<1>1. faults \in 0..MaxFaults /\ MaxFaults \in Nat
  BY ConstantsAssumption DEF TypeOK
<1> QED
  BY <1>1

\* What a step that tries, skips or refuses messages may change.
LEMMA SendTyped ==
    ASSUME TypeOK, NEW r \in Runs, ReadTokens(r) \/ SendChunk(r) \/ Fault(r)
    PROVE  TypeOK'
<1>1. r \notin Callers /\ NoJob \in Job
  BY ConstantsAssumption, Placeholders
<1>2. job[r].results # {} => First(job[r].results) \in Ids
  BY JobShape
<1>3. CASE ReadTokens(r)
  <2>1. pc[r] = "tokens" /\ closed' \subseteq Ids
    BY <1>2, <1>3, ReadTokensShape DEF TypeOK, ReadTokens
  <2>2. /\ pc' \in [Runs \cup Callers -> RunPoints \cup CallPoints]
        /\ \A q \in Runs : pc'[q] \in RunPoints
        /\ \A c \in Callers : pc'[c] \in CallPoints
        /\ job' \in [Runs -> Job]
        /\ \A q \in (Runs \cup Callers) \ {r} : pc'[q] = pc[q]
        /\ \A q \in Runs \ {r} : job'[q] = job[q]
        /\ pc'[r] # "load"
        /\ pc'[r] \in {"tokens", "chunk"} => job'[r].results # {}
        /\ pc'[r] = "chunk" => job'[r].receivers # {}
    BY <1>3, <2>1, ReadTokensShape DEF TypeOK
  <2> QED
    BY <1>1, <1>3, <2>1, <2>2 DEF ReadTokens, TypeOK, store
<1>4. CASE SendChunk(r)
  <2>1. PICK C \in Chunks(job[r].receivers) :
          /\ sent' = [sent EXCEPT ![First(job[r].results)] =
                         [t \in Tokens |-> IF t \in C THEN @[t] + 1 ELSE @[t]]]
          /\ AfterChunk(r, C)
    BY <1>4 DEF SendChunk
  <2>2. pc[r] = "chunk" /\ First(job[r].results) \in Ids
    BY <1>2, <1>4 DEF SendChunk, TypeOK
  <2>3. sent' \in [Ids -> [Tokens -> Nat]]
    BY <2>1, <2>2 DEF TypeOK
  <2>4. closed' \subseteq Ids
    <3>1. closed' \subseteq closed \cup {First(job[r].results)}
      BY <2>1, <2>2, AfterChunkShape
    <3> QED
      BY <2>2, <3>1 DEF TypeOK
  <2>5. /\ pc' \in [Runs \cup Callers -> RunPoints \cup CallPoints]
        /\ \A q \in Runs : pc'[q] \in RunPoints
        /\ \A c \in Callers : pc'[c] \in CallPoints
        /\ job' \in [Runs -> Job]
        /\ \A q \in (Runs \cup Callers) \ {r} : pc'[q] = pc[q]
        /\ \A q \in Runs \ {r} : job'[q] = job[q]
        /\ pc'[r] # "load"
        /\ pc'[r] \in {"tokens", "chunk"} => job'[r].results # {}
        /\ pc'[r] = "chunk" => job'[r].receivers # {}
    BY <2>1, <2>2, AfterChunkShape DEF TypeOK
  <2> QED
    BY <1>1, <1>4, <2>3, <2>4, <2>5 DEF SendChunk, TypeOK, store
<1>5. CASE TokensFail(r)
  <2>1. pc[r] = "tokens" /\ First(job[r].results) \in Ids
    BY <1>2, <1>5 DEF TokensFail, TypeOK
  <2>2. dropped' \subseteq Ids
    BY <1>5, <2>1 DEF TokensFail, TypeOK
  <2>4. faults' \in 0..MaxFaults
    BY <1>5, OneMoreFault DEF TokensFail
  <2>3. /\ pc' \in [Runs \cup Callers -> RunPoints \cup CallPoints]
        /\ \A q \in Runs : pc'[q] \in RunPoints
        /\ \A c \in Callers : pc'[c] \in CallPoints
        /\ job' \in [Runs -> Job]
        /\ \A q \in (Runs \cup Callers) \ {r} : pc'[q] = pc[q]
        /\ \A q \in Runs \ {r} : job'[q] = job[q]
        /\ pc'[r] \in {"idle", "tokens"}
        /\ pc'[r] = "tokens" => job'[r].results # {}
    BY <1>5, <2>1, AdvanceShape DEF TokensFail
  <2> QED
    BY <1>1, <1>5, <2>2, <2>3, <2>4 DEF TokensFail, TypeOK, store
<1>6. CASE ChunkRefused(r)
  <2>1. PICK C \in Chunks(job[r].receivers) :
          /\ refused' = [refused EXCEPT ![First(job[r].results)] = @ \cup C]
          /\ AfterChunk(r, C)
    BY <1>6 DEF ChunkRefused
  <2>2. pc[r] = "chunk" /\ First(job[r].results) \in Ids /\ job[r].receivers \subseteq Tokens
    BY <1>2, <1>6, JobShape DEF ChunkRefused, TypeOK
  <2>3. C \subseteq Tokens /\ closed' \subseteq Ids
    BY <2>1, <2>2, AfterChunkShape DEF TypeOK
  <2>4. refused' \in [Ids -> SUBSET Tokens]
    BY <2>1, <2>2, <2>3 DEF TypeOK
  <2>6. faults' \in 0..MaxFaults
    BY <1>6, OneMoreFault DEF ChunkRefused
  <2>5. /\ pc' \in [Runs \cup Callers -> RunPoints \cup CallPoints]
        /\ \A q \in Runs : pc'[q] \in RunPoints
        /\ \A c \in Callers : pc'[c] \in CallPoints
        /\ job' \in [Runs -> Job]
        /\ \A q \in (Runs \cup Callers) \ {r} : pc'[q] = pc[q]
        /\ \A q \in Runs \ {r} : job'[q] = job[q]
        /\ pc'[r] # "load"
        /\ pc'[r] \in {"tokens", "chunk"} => job'[r].results # {}
        /\ pc'[r] = "chunk" => job'[r].receivers # {}
    BY <2>1, <2>2, AfterChunkShape DEF TypeOK
  <2> QED
    BY <1>1, <1>6, <2>3, <2>4, <2>5, <2>6 DEF ChunkRefused, TypeOK, store
<1>7. CASE Crash(r)
  <2>1. Goto(r, "idle") /\ job' = [job EXCEPT ![r] = NoJob]
    BY <1>7 DEF Crash
  <2>2. /\ pc' \in [Runs \cup Callers -> RunPoints \cup CallPoints]
        /\ \A q \in Runs : pc'[q] \in RunPoints
        /\ \A c \in Callers : pc'[c] \in CallPoints
        /\ pc'[r] = "idle"
        /\ \A q \in Runs \cup Callers : q # r => pc'[q] = pc[q]
    BY <2>1, PointShape, ConstantsAssumption DEF RunPoints
  <2>3. job' \in [Runs -> Job] /\ \A q \in Runs : q # r => job'[q] = job[q]
    BY <1>1, <2>1 DEF TypeOK
  <2>4. dropped' \subseteq Ids
    BY <1>7, JobShape DEF Crash, TypeOK
  <2>5. faults' \in 0..MaxFaults
    BY <1>7, OneMoreFault DEF Crash
  <2> QED
    BY <1>1, <1>7, <2>2, <2>3, <2>4, <2>5 DEF Crash, TypeOK, store
<1> QED
  BY <1>3, <1>4, <1>5, <1>6, <1>7 DEF Fault

LEMMA TypeStep ==
    ASSUME TypeOK, [Next]_vars
    PROVE  TypeOK'
<1>1. CASE Tick
  BY <1>1, ConstantsAssumption DEF Tick, TypeOK, store, history
<1>2. ASSUME NEW c \in Callers, Call(c)
      PROVE  TypeOK'
  BY <1>2, CallTyped
<1>3. ASSUME NEW r \in Runs, Fire(r) \/ Work(r) \/ Fault(r)
      PROVE  TypeOK'
  BY <1>3, ReadTyped, SendTyped DEF Work
<1>4. CASE UNCHANGED vars
  BY <1>4 DEF vars, store, history, TypeOK
<1> QED
  BY <1>1, <1>2, <1>3, <1>4 DEF Next

\* The state keeps its shape, and runs and requests remember at each point what
\* their next step needs.
THEOREM TypeCorrect == Spec => []TypeOK
<1>1. Init => TypeOK
  BY InitTyped
<1>2. TypeOK /\ [Next]_vars => TypeOK'
  BY TypeStep
<1> QED
  BY <1>1, <1>2, PTL DEF Spec

-----------------------------------------------------------------------------
(* The inductive invariant. *)

\* The two keys agree, hold what was stored under ids already drawn, and hold
\* nothing an administrator was told is canceled.
Books ==
    /\ due = data
    /\ due \subseteq born
    /\ canceled \subseteq born \ due
    /\ closed \cup dropped \subseteq born
    /\ \A i \in born : i <= seq

\* An id about to be stored is new and no other request's; an id about to be
\* canceled was stored.
Asks ==
    /\ \A c \in Callers :
        /\ pc[c] = "store" => /\ ask[c].id \in Ids \ born
                              /\ ask[c].booking \in Bookings
                              /\ ask[c].id <= seq
        /\ pc[c] = "cancel" => ask[c].id \in born
    /\ \A c, d \in Callers :
        c # d /\ pc[c] = "store" /\ pc[d] = "store" => ask[c].id # ask[d].id

\* What a run holds was stored and is due; once removed, it is not in the book.
Knows(r) ==
    /\ job[r].results \subseteq born
    /\ \A i \in job[r].results : book[i].time <= now
    /\ pc[r] = "poll" => job[r].asOf <= now
    /\ pc[r] \in {"idle", "poll"} => job[r].results = {}
    /\ pc[r] \in {"tokens", "chunk"} => job[r].results \cap due = {}

\* A member whose hash was read is held, or was gone, or had no title.
Lists(r) ==
    pc[r] \in {"load", "remove"} =>
        /\ job[r].members \subseteq born
        /\ \A i \in job[r].members : book[i].time <= now
        /\ job[r].left \subseteq job[r].members
        /\ job[r].results \subseteq job[r].members
        /\ \A i \in job[r].members \ job[r].left :
              i \in job[r].results \/ i \notin due \/ book[i].titled = 0
        /\ pc[r] = "remove" => job[r].left = {}

\* The receivers of the first reservation a run does not have left were tried.
Tries(r) ==
    pc[r] = "chunk" =>
        LET i == First(job[r].results) IN
        /\ job[r].receivers \subseteq Receivers(i)
        /\ \A t \in Receivers(i) \ job[r].receivers : sent[i][t] > 0 \/ t \in refused[i]

\* A reservation held by one run only was sent to nobody it has left to try.
Untouched(r) ==
    \A i \in job[r].results \ overlaps, t \in Tokens :
        sent[i][t] > 0 =>
            pc[r] = "chunk" /\ i = First(job[r].results) /\ t \notin job[r].receivers

\* What was sent had been stored, was due, had left the book, and a run was ahead.
Sent ==
    \A i \in Ids, t \in Tokens :
        sent[i][t] > 0 => i \in born \ due /\ book[i].time <= now /\ Ahead(i)

\* Two runs hold one reservation only when they overlap.
Alone ==
    \A q, r \in Runs : q # r => job[q].results \cap job[r].results \subseteq overlaps

\* What a step never takes back.
Grows ==
    /\ born \subseteq born'
    /\ due' \cap born \subseteq due
    /\ \A i \in born : book'[i] = book[i]
    /\ now <= now'
    /\ canceled \subseteq canceled' /\ crossed \subseteq crossed'
    /\ overlaps \subseteq overlaps'
    /\ closed \subseteq closed' /\ dropped \subseteq dropped'
    /\ \A i \in Ids : refused[i] \subseteq refused'[i]
    /\ \A i \in Ids, t \in Tokens : sent[i][t] > 0 => sent'[i][t] > 0

-----------------------------------------------------------------------------
(* The keys, the requests, and what no step takes back. *)

LEMMA InitBooks == Init => Books /\ Asks
  BY ConstantsAssumption DEF Init, Books, Asks

LEMMA Numbers ==
    ASSUME TypeOK
    PROVE  /\ seq \in Nat /\ now \in Nat
           /\ \A i \in Ids : i \in Nat /\ book[i].time \in Nat
<1>1. \A i \in Ids : i \in Nat
  BY ConstantsAssumption
<1>2. now \in Nat
  BY ConstantsAssumption DEF TypeOK
<1>3. \A i \in Ids : book[i].time \in Nat
  BY ConstantsAssumption DEF TypeOK, Blank
<1>4. seq \in Nat
  BY <1>1 DEF TypeOK
<1> QED
  BY <1>1, <1>2, <1>3, <1>4

LEMMA CallBooks ==
    ASSUME TypeOK, Books, Asks, NEW c \in Callers, Call(c)
    PROVE  Books' /\ Asks' /\ Grows
<1>1. /\ c \notin Runs /\ seq \in Nat /\ now \in Nat
      /\ \A i \in Ids : i \in Nat
  BY ConstantsAssumption, Numbers
<1>2. ASSUME NEW point, Goto(c, point)
      PROVE  pc'[c] = point /\ \A d \in Callers : d # c => pc'[d] = pc[d]
  BY <1>2 DEF Goto, TypeOK
<1>3. ASSUME NEW a, ask' = [ask EXCEPT ![c] = a]
      PROVE  ask'[c] = a /\ \A d \in Callers : d # c => ask'[d] = ask[d]
  BY <1>3 DEF TypeOK
<1>4. ASSUME NEW b \in Bookings, Reserve(c, b)
      PROVE  Books' /\ Asks' /\ Grows
  <2>1. /\ pc'[c] = "store" /\ \A d \in Callers : d # c => pc'[d] = pc[d]
        /\ ask'[c].id = seq + 1 /\ ask'[c].booking = b
        /\ \A d \in Callers : d # c => ask'[d] = ask[d]
        /\ seq' = seq + 1 /\ seq + 1 \in Ids
    BY <1>2, <1>3, <1>4 DEF Reserve
  <2>2. /\ UNCHANGED <<due, data, book, now, sent, born, canceled, crossed>>
        /\ UNCHANGED <<overlaps, closed, refused, dropped>>
    BY <1>4 DEF Reserve, history
  <2>3. born \subseteq Ids /\ seq + 1 \notin born
    BY <1>1 DEF TypeOK, Books
  <2>4. Books'
    BY <1>1, <2>1, <2>2, <2>3 DEF Books
  <2>5. Asks'
    BY <1>1, <2>1, <2>2, <2>3 DEF Asks
  <2> QED
    BY <1>1, <2>2, <2>4, <2>5 DEF Grows
<1>5. CASE Store(c)
  <2> DEFINE i == ask[c].id
  <2>1. /\ pc[c] = "store" /\ pc'[c] = "idle"
        /\ \A d \in Callers : d # c => pc'[d] = pc[d]
        /\ \A d \in Callers : d # c => ask'[d] = ask[d]
    BY <1>2, <1>3, <1>5 DEF Store
  <2>2. i \in Ids \ born /\ i <= seq
    BY <2>1 DEF Asks
  <2>3. /\ due' = due \cup {i} /\ data' = data \cup {i} /\ born' = born \cup {i}
        /\ \A k \in Ids \ {i} : book'[k] = book[k]
        /\ UNCHANGED <<seq, now, sent, canceled, crossed, overlaps, closed, refused, dropped>>
    BY <1>5 DEF Store, TypeOK
  <2>4. Books'
    BY <2>2, <2>3 DEF Books
  <2>5. Asks'
    BY <2>1, <2>2, <2>3 DEF Asks
  <2>6. \A k \in born : book'[k] = book[k]
    BY <2>2, <2>3 DEF TypeOK
  <2> QED
    BY <1>1, <2>2, <2>3, <2>4, <2>5, <2>6 DEF Grows
<1>6. ASSUME NEW i \in Ids, Cancel(c, i)
      PROVE  Books' /\ Asks' /\ Grows
  <2>1. [NoAsk EXCEPT !.id = i].id = i
    BY DEF NoAsk
  <2>2. /\ pc'[c] = "cancel" /\ \A d \in Callers : d # c => pc'[d] = pc[d]
        /\ ask'[c].id = i /\ \A d \in Callers : d # c => ask'[d] = ask[d]
        /\ i \in data
    BY <1>2, <1>3, <1>6, <2>1 DEF Cancel, Readable
  <2>3. /\ UNCHANGED <<seq, due, data, book, now, sent, born, canceled, crossed>>
        /\ UNCHANGED <<overlaps, closed, refused, dropped>>
    BY <1>6 DEF Cancel, store, history
  <2>4. Books'
    BY <2>3 DEF Books
  <2>5. Asks'
    BY <2>2, <2>3 DEF Asks, Books
  <2> QED
    BY <1>1, <2>3, <2>4, <2>5 DEF Grows
<1>7. CASE CancelRemove(c)
  <2> DEFINE i == ask[c].id
  <2>1. /\ pc[c] = "cancel" /\ pc'[c] = "idle"
        /\ \A d \in Callers : d # c => pc'[d] = pc[d]
        /\ \A d \in Callers : d # c => ask'[d] = ask[d]
    BY <1>2, <1>3, <1>7 DEF CancelRemove
  <2>2. i \in born
    BY <2>1 DEF Asks
  <2>3. /\ due' = due \ {i} /\ data' = data \ {i} /\ canceled' = canceled \cup {i}
        /\ crossed \subseteq crossed'
        /\ UNCHANGED <<seq, book, now, sent, born, overlaps, closed, refused, dropped>>
    BY <1>7 DEF CancelRemove
  <2>4. Books'
    BY <2>2, <2>3 DEF Books
  <2>5. Asks'
    BY <2>1, <2>2, <2>3 DEF Asks
  <2> QED
    BY <1>1, <2>3, <2>4, <2>5 DEF Grows
<1> QED
  BY <1>4, <1>5, <1>6, <1>7 DEF Call

\* No step of a run touches a request, and only its removal touches the keys.
LEMMA RunBooks ==
    ASSUME TypeOK, Books, Asks, NEW r \in Runs, Fire(r) \/ Work(r) \/ Fault(r),
           job[r].results \subseteq born
    PROVE  Books' /\ Asks' /\ Grows
<1>1. r \notin Callers /\ now \in Nat
  BY ConstantsAssumption, Numbers
<1>2. \A c \in Callers : pc'[c] = pc[c]
  <2>1. ASSUME NEW point, Goto(r, point)
        PROVE  \A c \in Callers : pc'[c] = pc[c]
    BY <1>1, <2>1 DEF Goto, TypeOK
  <2>2. ASSUME Advance(r)
        PROVE  \A c \in Callers : pc'[c] = pc[c]
    BY <2>1, <2>2 DEF Advance
  <2>3. ASSUME NEW C, AfterChunk(r, C)
        PROVE  \A c \in Callers : pc'[c] = pc[c]
    BY <2>2, <2>3 DEF AfterChunk
  <2>4. CASE Fire(r) \/ Poll(r) \/ Load(r) \/ PopRemove(r) \/ Crash(r)
    BY <2>1, <2>4 DEF Fire, Poll, Load, PopRemove, Crash
  <2>5. CASE ReadTokens(r) \/ TokensFail(r)
    BY <2>1, <2>2, <2>5 DEF ReadTokens, TokensFail
  <2>6. CASE SendChunk(r) \/ ChunkRefused(r)
    BY <2>3, <2>6 DEF SendChunk, ChunkRefused
  <2> QED
    BY <2>4, <2>5, <2>6 DEF Work, Fault
<1>3. UNCHANGED <<seq, book, now, ask, born, canceled, crossed>>
  BY DEF Work, Fault, Fire, Poll, Load, PopRemove, ReadTokens, SendChunk, TokensFail,
         ChunkRefused, Crash, store, history
<1>4. /\ due = data => due' = data'
      /\ due' \subseteq due
  <2>1. CASE PopRemove(r)
    BY <2>1 DEF PopRemove
  <2>2. CASE ~ PopRemove(r)
    BY <2>2 DEF Work, Fault, Fire, Poll, Load, ReadTokens, SendChunk, TokensFail,
                ChunkRefused, Crash, store
  <2> QED
    BY <2>1, <2>2
<1>5. job[r].results # {} => First(job[r].results) \in born
  BY JobShape
<1>6. /\ closed \subseteq closed' /\ dropped \subseteq dropped'
      /\ closed' \cup dropped' \subseteq closed \cup dropped \cup born
  <2>1. CASE Fire(r) \/ Poll(r) \/ Load(r) \/ PopRemove(r)
    BY <2>1 DEF Fire, Poll, Load, PopRemove, history
  <2>2. CASE ReadTokens(r)
    <3>1. /\ closed' \in {closed, closed \cup {First(job[r].results)}} /\ dropped' = dropped
          /\ job[r].results # {}
      BY <2>2 DEF ReadTokens, TypeOK
    <3> QED
      BY <1>5, <3>1
  <2>3. CASE SendChunk(r) \/ ChunkRefused(r)
    <3>1. /\ closed' \in {closed, closed \cup {First(job[r].results)}} /\ dropped' = dropped
          /\ job[r].results # {}
      BY <2>3 DEF SendChunk, ChunkRefused, AfterChunk, TypeOK
    <3> QED
      BY <1>5, <3>1
  <2>4. CASE TokensFail(r)
    <3>1. /\ dropped' = dropped \cup {First(job[r].results)} /\ closed' = closed
          /\ job[r].results # {}
      BY <2>4 DEF TokensFail, TypeOK
    <3> QED
      BY <1>5, <3>1
  <2>5. CASE Crash(r)
    BY <2>5 DEF Crash
  <2> QED
    BY <2>1, <2>2, <2>3, <2>4, <2>5 DEF Work, Fault
<1>7. overlaps \subseteq overlaps'
  BY DEF Work, Fault, Fire, Poll, Load, PopRemove, ReadTokens, SendChunk, TokensFail,
         ChunkRefused, Crash, history
<1>8. \A i \in Ids : refused[i] \subseteq refused'[i]
  <2>1. CASE ChunkRefused(r)
    BY <2>1 DEF ChunkRefused, TypeOK
  <2>2. CASE ~ ChunkRefused(r)
    BY <2>2 DEF Work, Fault, Fire, Poll, Load, PopRemove, ReadTokens, SendChunk,
                TokensFail, Crash, history
  <2> QED
    BY <2>1, <2>2
<1>9. \A i \in Ids, t \in Tokens : sent[i][t] > 0 => sent'[i][t] > 0
  <2>1. CASE SendChunk(r)
    <3>1. PICK C \in Chunks(job[r].receivers) :
            sent' = [sent EXCEPT ![First(job[r].results)] =
                        [t \in Tokens |-> IF t \in C THEN @[t] + 1 ELSE @[t]]]
      BY <2>1 DEF SendChunk
    <3>2. \A i \in Ids, t \in Tokens : sent[i][t] \in Nat
      BY DEF TypeOK
    <3>3. \A i \in Ids, t \in Tokens : sent'[i][t] = sent[i][t] \/ sent'[i][t] = sent[i][t] + 1
      BY <3>1 DEF TypeOK
    <3> QED
      BY <3>2, <3>3
  <2>2. CASE ~ SendChunk(r)
    BY <2>2 DEF Work, Fault, Fire, Poll, Load, PopRemove, ReadTokens, ChunkRefused,
                TokensFail, Crash
  <2> QED
    BY <2>1, <2>2
<1>10. Books'
  BY <1>3, <1>4, <1>6 DEF Books
<1>11. Asks'
  BY <1>2, <1>3 DEF Asks
<1> QED
  BY <1>1, <1>3, <1>4, <1>6, <1>7, <1>8, <1>9, <1>10, <1>11 DEF Grows

-----------------------------------------------------------------------------
(* Runs that do not move. *)

LEMMA FirstHeld ==
    ASSUME TypeOK, TypeOK', NEW q \in Runs, job[q].results # {},
           job'[q].results = job[q].results,
           \A i \in job[q].results : book'[i] = book[i]
    PROVE  First(job[q].results)' = First(job[q].results)
<1>1. PICK S : S = job[q].results
  OBVIOUS
<1>2. S \in SUBSET Ids /\ S # {}
  BY <1>1, JobShape
<1>3. First(S)' = First(S)
  BY <1>1, <1>2, FirstStays
<1>4. First(job[q].results) = First(S)
  BY <1>1
<1>5. First(job[q].results)' = First(S)'
  BY <1>1 DEF First, Earlier
<1> QED
  BY <1>3, <1>4, <1>5

LEMMA ReceiversStay ==
    ASSUME NEW i, book'[i] = book[i]
    PROVE  Receivers(i)' = Receivers(i)
  BY DEF Receivers, Addressed

LEMMA OtherFits ==
    ASSUME TypeOK, TypeOK', Books, Grows, NEW q \in Runs,
           pc'[q] = pc[q], job'[q] = job[q],
           Knows(q), Lists(q), Tries(q)
    PROVE  Knows(q)' /\ Lists(q)' /\ Tries(q)'
<1>1. /\ now \in Nat /\ now' \in Nat /\ now <= now'
      /\ \A i \in born : book'[i] = book[i] /\ book[i].time \in Nat
  <2>1. now' \in Nat
    BY ConstantsAssumption DEF TypeOK
  <2>2. born \subseteq Ids
    BY DEF TypeOK
  <2> QED
    BY <2>1, <2>2, Numbers DEF Grows
<1>2. /\ job[q].results \subseteq born
      /\ job[q].asOf \in Nat
  BY JobShape DEF Knows
<1>3. Knows(q)'
  BY <1>1, <1>2 DEF Knows, Grows
<1>4. Lists(q)'
  BY <1>1, <1>2 DEF Lists, Grows
<1>5. Tries(q)'
  <2> SUFFICES ASSUME pc[q] = "chunk"
               PROVE  Tries(q)'
    BY DEF Tries
  <2> DEFINE i == First(job[q].results)
  <2>1. job[q].results # {} /\ i \in born /\ i \in Ids
    BY <1>2, JobShape DEF TypeOK
  <2>2. i' = i
    BY <1>1, <1>2, <2>1, FirstHeld
  <2>3. Receivers(i)' = Receivers(i) /\ Receivers(i) \subseteq Tokens
    <3>1. book'[i'] = book[i]
      BY <1>1, <2>1, <2>2
    <3> QED
      BY <3>1 DEF Receivers, Addressed
  <2>4. \A t \in Receivers(i) \ job[q].receivers : sent'[i][t] > 0 \/ t \in refused'[i]
    BY <2>1, <2>3 DEF Tries, Grows
  <2>5. job[q].receivers \subseteq Receivers(i)
    BY DEF Tries
  <2> HIDE DEF i
  <2> QED
    BY <2>2, <2>3, <2>4, <2>5 DEF Tries, i
<1> QED
  BY <1>3, <1>4, <1>5

\* One run moves at a time, and no request moves a run.
LEMMA OneMoves ==
    ASSUME TypeOK, NEW r \in Runs, Fire(r) \/ Work(r) \/ Fault(r), NEW q \in Runs, q # r
    PROVE  pc'[q] = pc[q] /\ job'[q] = job[q]
<1>1. ASSUME NEW point, Goto(r, point)
      PROVE  pc'[q] = pc[q]
  BY <1>1 DEF Goto, TypeOK
<1>2. ASSUME NEW j, job' = [job EXCEPT ![r] = j]
      PROVE  job'[q] = job[q]
  BY <1>2 DEF TypeOK
<1>3. CASE Fire(r) \/ Crash(r)
  BY <1>1, <1>2, <1>3 DEF Fire, Crash
<1>4. CASE Poll(r)
  BY <1>1, <1>2, <1>4 DEF Poll
<1>5. CASE Load(r)
  <2>1. job'[q] = job[q]
    BY <1>5 DEF Load, TypeOK
  <2> QED
    BY <1>1, <1>5, <2>1 DEF Load
<1>6. CASE PopRemove(r)
  <2>1. job'[q] = job[q]
    BY <1>6 DEF PopRemove, TypeOK
  <2> QED
    BY <1>1, <1>6, <2>1 DEF PopRemove
<1>7. CASE ReadTokens(r)
  BY <1>7, ReadTokensShape
<1>8. CASE SendChunk(r) \/ ChunkRefused(r)
  <2>1. PICK C \in Chunks(job[r].receivers) : AfterChunk(r, C)
    BY <1>8 DEF SendChunk, ChunkRefused
  <2> QED
    BY <1>8, <2>1, AfterChunkShape DEF SendChunk, ChunkRefused
<1>9. CASE TokensFail(r)
  BY <1>9, AdvanceShape DEF TokensFail
<1> QED
  BY <1>3, <1>4, <1>5, <1>6, <1>7, <1>8, <1>9 DEF Work, Fault

LEMMA CallMovesNoRun ==
    ASSUME TypeOK, NEW c \in Callers, Call(c), NEW q \in Runs
    PROVE  pc'[q] = pc[q] /\ job' = job
<1>1. ASSUME NEW point, Goto(c, point)
      PROVE  pc'[q] = pc[q]
  BY <1>1, ConstantsAssumption DEF Goto, TypeOK
<1> QED
  BY <1>1 DEF Call, Reserve, Store, Cancel, CancelRemove

-----------------------------------------------------------------------------
(* The run that moves. *)

LEMMA NothingHeld == NoJob.results = {} /\ NoJob.members = {} /\ NoJob.left = {}
  BY DEF NoJob

LEMMA IdleFits ==
    ASSUME TypeOK', NEW r \in Runs, pc'[r] = "idle", job'[r].results = {}
    PROVE  Knows(r)' /\ Lists(r)' /\ Tries(r)'
  BY DEF Knows, Lists, Tries

\* Firing, listing what is due, reading a hash, and removing what was read.
LEMMA ReaderFits ==
    ASSUME TypeOK, TypeOK', Books, Grows, NEW r \in Runs,
           Fire(r) \/ Poll(r) \/ Load(r) \/ PopRemove(r),
           Knows(r), Lists(r)
    PROVE  Knows(r)' /\ Lists(r)' /\ Tries(r)'
<1>1. /\ now \in Nat /\ now' \in Nat /\ now <= now'
      /\ \A i \in born : book'[i] = book[i] /\ book[i].time \in Nat
      /\ born \subseteq Ids
  <2>1. now' \in Nat
    BY ConstantsAssumption DEF TypeOK
  <2>2. born \subseteq Ids
    BY DEF TypeOK
  <2> QED
    BY <2>1, <2>2, Numbers DEF Grows
<1>2. /\ job[r] \in Job /\ r \notin Callers
      /\ job[r].results \subseteq born
  BY JobShape, ConstantsAssumption DEF Knows
<1>3. ASSUME NEW point, Goto(r, point)
      PROVE  pc'[r] = point
  BY <1>3 DEF Goto, TypeOK
<1>4. ASSUME NEW j, job' = [job EXCEPT ![r] = j]
      PROVE  job'[r] = j
  BY <1>4 DEF TypeOK
<1>5. CASE Fire(r)
  <2>1. pc'[r] = "poll" /\ job'[r].results = {} /\ job'[r].asOf = now /\ now' = now
    BY <1>3, <1>4, <1>5 DEF Fire, NoJob
  <2> QED
    BY <1>1, <2>1 DEF Knows, Lists, Tries
<1>6. CASE Poll(r)
  <2> DEFINE S == DueBy(job[r].asOf)
  <2>1. pc[r] = "poll" /\ UNCHANGED <<due, book, now, born>>
    BY <1>6 DEF Poll, store, history
  <2>2. CASE S = {}
    <3>1. pc'[r] = "idle" /\ job'[r].results = {}
      BY <1>3, <1>4, <1>6, <2>2 DEF Poll, NoJob
    <3> QED
      BY <3>1, IdleFits
  <2>3. CASE S # {}
    <3>1. Goto(r, "load") /\ job' = [job EXCEPT ![r] = [NoJob EXCEPT !.members = S, !.left = S]]
      BY <1>6, <2>3 DEF Poll
    <3>2. /\ pc'[r] = "load" /\ job'[r].results = {}
          /\ job'[r].members = S /\ job'[r].left = S
      BY <1>3, <1>4, <3>1 DEF NoJob
    <3>3. S \subseteq born /\ \A i \in S : book[i].time <= now
      <4>1. job[r].asOf <= now /\ job[r].asOf \in Nat
        BY <2>1, JobShape DEF Knows
      <4>2. \A i \in S : i \in born /\ book[i].time <= job[r].asOf
        BY DEF DueBy, Books
      <4> QED
        BY <1>1, <4>1, <4>2
    <3> HIDE DEF S
    <3> QED
      BY <2>1, <3>2, <3>3 DEF Knows, Lists, Tries
  <2> QED
    BY <2>2, <2>3
<1>7. CASE Load(r)
  <2> DEFINE i == First(job[r].left)
             got == IF Readable(i) THEN {i} ELSE {}
  <2>1. pc[r] = "load" /\ UNCHANGED <<due, data, book, now, born>>
    BY <1>7 DEF Load, store
  <2>2. i \in job[r].left
    BY <2>1, JobShape DEF TypeOK
  <2>3. /\ job'[r].left = job[r].left \ {i} /\ job'[r].members = job[r].members
        /\ job'[r].results = job[r].results \cup got
    <3>1. job' = [job EXCEPT ![r].left = @ \ {i}, ![r].results = @ \cup got]
      BY <1>7 DEF Load
    <3> HIDE DEF i, got
    <3> QED
      BY <1>2, <3>1 DEF TypeOK, Job
  <2>4. pc'[r] \in {"load", "remove"} /\ (pc'[r] = "remove" => job[r].left = {i})
    BY <1>3, <1>7 DEF Load
  <2>5. /\ job[r].members \subseteq born
        /\ \A k \in job[r].members : book[k].time <= now
        /\ job[r].left \subseteq job[r].members
        /\ job[r].results \subseteq job[r].members
        /\ \A k \in job[r].members \ job[r].left :
              k \in job[r].results \/ k \notin due \/ book[k].titled = 0
    BY <2>1 DEF Lists
  <2>6. got \subseteq {i} /\ (i \in got \/ i \notin due \/ book[i].titled = 0)
    <3>1. book[i].titled \in {0, 1}
      <4>1. i \in Ids
        BY <2>2, JobShape
      <4>2. book[i] \in Bookings \cup {Blank}
        BY <4>1 DEF TypeOK
      <4>3. Blank.titled = 0
        BY DEF Blank
      <4> HIDE DEF i
      <4> QED
        BY <4>2, <4>3, ConstantsAssumption
    <3> QED
      BY <3>1 DEF Readable, Books
  <2> HIDE DEF i, got
  <2>7. Lists(r)'
    BY <2>1, <2>2, <2>3, <2>4, <2>5, <2>6 DEF Lists
  <2>8. Knows(r)'
    BY <2>1, <2>2, <2>3, <2>4, <2>5, <2>6 DEF Knows
  <2> QED
    BY <2>4, <2>7, <2>8 DEF Tries
<1>8. CASE PopRemove(r)
  <2>1. pc[r] = "remove" /\ due' = due \ job[r].members /\ UNCHANGED <<book, now, born>>
    BY <1>8 DEF PopRemove, Removed, history
  <2>2. CASE job[r].results = {}
    <3>1. pc'[r] = "idle" /\ job'[r].results = {}
      BY <1>3, <1>4, <1>8, <2>2 DEF PopRemove, NoJob
    <3> QED
      BY <3>1, IdleFits
  <2>3. CASE job[r].results # {}
    <3>1. Goto(r, "tokens") /\ job' = [job EXCEPT ![r].members = {}]
      BY <1>8, <2>3 DEF PopRemove
    <3>2. pc'[r] = "tokens" /\ job'[r].results = job[r].results
      BY <1>2, <1>3, <3>1 DEF TypeOK, Job
    <3> QED
      BY <2>1, <3>2 DEF Knows, Lists, Tries
  <2> QED
    BY <2>2, <2>3
<1> QED
  BY <1>5, <1>6, <1>7, <1>8

\* Expo took the chunk that was tried, or refused it.
LEMMA ChunkTried ==
    ASSUME TypeOK, NEW r \in Runs, NEW i \in Ids, NEW C, C \subseteq job[r].receivers,
           \/ sent' = [sent EXCEPT ![i] = [t \in Tokens |-> IF t \in C THEN @[t] + 1 ELSE @[t]]]
           \/ refused' = [refused EXCEPT ![i] = @ \cup C]
    PROVE  \A t \in C : sent'[i][t] > 0 \/ t \in refused'[i]
<1>1. C \subseteq Tokens /\ \A t \in Tokens : sent[i][t] \in Nat
  BY JobShape DEF TypeOK
<1>2. CASE refused' = [refused EXCEPT ![i] = @ \cup C]
  BY <1>2 DEF TypeOK
<1>3. CASE sent' = [sent EXCEPT ![i] = [t \in Tokens |-> IF t \in C THEN @[t] + 1 ELSE @[t]]]
  <2>1. \A t \in C : sent'[i][t] = sent[i][t] + 1
    BY <1>1, <1>3 DEF TypeOK
  <2> QED
    BY <1>1, <2>1
<1> QED
  BY <1>2, <1>3

\* Reading tokens, and trying, skipping or refusing a chunk.
LEMMA SenderFits ==
    ASSUME TypeOK, TypeOK', Books, Grows, NEW r \in Runs,
           ReadTokens(r) \/ SendChunk(r) \/ Fault(r),
           Knows(r), Lists(r), Tries(r)
    PROVE  Knows(r)' /\ Lists(r)' /\ Tries(r)'
<1> DEFINE i == First(job[r].results)
<1>1. UNCHANGED <<due, book, now, born>>
  BY DEF ReadTokens, SendChunk, Fault, TokensFail, ChunkRefused, Crash, store
<1>2. CASE Crash(r)
  <2>1. pc'[r] = "idle" /\ job'[r].results = {}
    BY <1>2 DEF Crash, Goto, TypeOK, NoJob
  <2> QED
    BY <2>1, IdleFits
<1>3. ASSUME pc[r] \in {"tokens", "chunk"}, job'[r].results \subseteq job[r].results,
             pc'[r] \in {"idle", "tokens", "chunk"},
             pc'[r] = "idle" => job'[r].results = {}
      PROVE  Knows(r)' /\ Lists(r)'
  BY <1>1, <1>3 DEF Knows, Lists
<1>4. CASE TokensFail(r)
  <2>1. pc[r] = "tokens" /\ Advance(r)
    BY <1>4 DEF TokensFail
  <2>2. /\ job'[r].results = job[r].results \ {i}
        /\ \/ pc'[r] = "idle" /\ job'[r].results = {}
           \/ pc'[r] = "tokens"
    BY <2>1, AdvanceShape
  <2> QED
    BY <1>3, <2>1, <2>2 DEF Tries
<1>5. ASSUME job[r].results # {}, job'[r].results = job[r].results
      PROVE  First(job[r].results)' = i
  BY <1>1, <1>5, FirstHeld
<1>7. \A k : Receivers(k)' = Receivers(k)
  BY <1>1 DEF Receivers, Addressed
<1>8. CASE ReadTokens(r)
  <2>1. pc[r] = "tokens" /\ job[r].results # {}
    BY <1>8 DEF ReadTokens, TypeOK
  <2>2. CASE pc'[r] = "chunk"
    <3>1. job'[r].results = job[r].results /\ job'[r].receivers = Receivers(i)
      BY <1>8, <2>2, ReadTokensShape
    <3>2. i' = i /\ Receivers(i)' = Receivers(i)
      BY <1>5, <1>7, <2>1, <3>1
    <3>3. Tries(r)'
      BY <3>1, <3>2 DEF Tries
    <3> QED
      BY <1>3, <2>1, <2>2, <3>1, <3>3
  <2>3. CASE pc'[r] # "chunk"
    <3>1. /\ job'[r].results \subseteq job[r].results
          /\ \/ pc'[r] = "idle" /\ job'[r].results = {}
             \/ pc'[r] = "tokens"
      BY <1>8, <2>3, ReadTokensShape
    <3> QED
      BY <1>3, <2>1, <2>3, <3>1 DEF Tries
  <2> QED
    BY <2>2, <2>3
<1>9. CASE SendChunk(r) \/ ChunkRefused(r)
  <2>1. pc[r] = "chunk" /\ job[r].results # {} /\ i \in Ids
    BY <1>9, JobShape DEF SendChunk, ChunkRefused, TypeOK
  <2>2. PICK C \in Chunks(job[r].receivers) :
          /\ AfterChunk(r, C)
          /\ \/ sent' = [sent EXCEPT ![i] = [t \in Tokens |-> IF t \in C THEN @[t] + 1 ELSE @[t]]]
             \/ refused' = [refused EXCEPT ![i] = @ \cup C]
    BY <1>9 DEF SendChunk, ChunkRefused
  <2>3. CASE pc'[r] = "chunk"
    <3>1. /\ C \subseteq job[r].receivers
          /\ job'[r].receivers = job[r].receivers \ C
          /\ job'[r].results = job[r].results
      BY <2>1, <2>2, <2>3, AfterChunkShape
    <3>2. i' = i /\ Receivers(i)' = Receivers(i) /\ Receivers(i) \subseteq Tokens
      BY <1>5, <1>7, <2>1, <3>1 DEF Receivers, Addressed
    <3>3. \A t \in C : sent'[i][t] > 0 \/ t \in refused'[i]
      BY <2>1, <2>2, <3>1, ChunkTried
    <3>4. /\ job[r].receivers \subseteq Receivers(i)
          /\ \A t \in Receivers(i) \ job[r].receivers : sent[i][t] > 0 \/ t \in refused[i]
      BY <2>1 DEF Tries
    <3>5. \A t \in Receivers(i) \ job[r].receivers : sent'[i][t] > 0 \/ t \in refused'[i]
      BY <2>1, <3>2, <3>4 DEF Grows
    <3>6. Tries(r)'
      <4> HIDE DEF i
      <4> QED
        BY <3>1, <3>2, <3>3, <3>4, <3>5 DEF Tries, i
    <3> QED
      BY <1>3, <2>1, <2>3, <3>1, <3>6
  <2>4. CASE pc'[r] # "chunk"
    <3>1. /\ job'[r].results \subseteq job[r].results
          /\ \/ pc'[r] = "idle" /\ job'[r].results = {}
             \/ pc'[r] = "tokens"
      BY <2>1, <2>2, <2>4, AfterChunkShape
    <3> QED
      BY <1>3, <2>1, <2>4, <3>1 DEF Tries
  <2> QED
    BY <2>3, <2>4
<1> QED
  BY <1>2, <1>4, <1>8, <1>9 DEF Fault

-----------------------------------------------------------------------------
(* What every step keeps of the runs. *)

LEMMA InitFits == Init => \A r \in Runs : Knows(r) /\ Lists(r) /\ Tries(r)
  BY ConstantsAssumption DEF Init, Knows, Lists, Tries, NoJob

LEMMA AllFit ==
    ASSUME TypeOK, TypeOK', Books, Asks, [Next]_vars,
           \A r \in Runs : Knows(r) /\ Lists(r) /\ Tries(r)
    PROVE  /\ Books' /\ Asks' /\ Grows
           /\ \A r \in Runs : Knows(r)' /\ Lists(r)' /\ Tries(r)'
<1>1. CASE Tick \/ UNCHANGED vars
  <2>1. /\ UNCHANGED <<seq, due, data, book, pc, job, ask, sent, born, canceled, crossed>>
        /\ UNCHANGED <<overlaps, closed, refused, dropped>>
        /\ now' \in {now, now + 1}
    BY <1>1 DEF Tick, vars, store, history
  <2>2. Books'
    BY <2>1 DEF Books
  <2>3. Asks'
    BY <2>1 DEF Asks
  <2>4. Grows
    BY <2>1, Numbers DEF Grows
  <2> QED
    BY <2>1, <2>2, <2>3, <2>4, OtherFits
<1>2. ASSUME NEW c \in Callers, Call(c)
      PROVE  /\ Books' /\ Asks' /\ Grows
             /\ \A r \in Runs : Knows(r)' /\ Lists(r)' /\ Tries(r)'
  BY <1>2, CallBooks, CallMovesNoRun, OtherFits
<1>3. ASSUME NEW r \in Runs, Fire(r) \/ Work(r) \/ Fault(r)
      PROVE  /\ Books' /\ Asks' /\ Grows
             /\ \A q \in Runs : Knows(q)' /\ Lists(q)' /\ Tries(q)'
  <2>1. Books' /\ Asks' /\ Grows
    BY <1>3, RunBooks DEF Knows
  <2>2. Knows(r)' /\ Lists(r)' /\ Tries(r)'
    BY <1>3, <2>1, ReaderFits, SenderFits DEF Work
  <2>3. \A q \in Runs \ {r} : Knows(q)' /\ Lists(q)' /\ Tries(q)'
    BY <1>3, <2>1, OneMoves, OtherFits
  <2> QED
    BY <2>1, <2>2, <2>3
<1> QED
  BY <1>1, <1>2, <1>3 DEF Next

\* What a run lets go of is closed or dropped.
LEMMA LetGo ==
    ASSUME TypeOK, NEW r \in Runs, Fire(r) \/ Work(r) \/ Fault(r), Knows(r)
    PROVE  job[r].results \subseteq job'[r].results \cup closed' \cup dropped'
<1>1. job[r] \in Job
  BY DEF TypeOK
<1>2. CASE Fire(r) \/ Poll(r)
  BY <1>2 DEF Fire, Poll, Knows
<1>3. CASE Load(r)
  <2>1. job'[r].results = job[r].results \cup
            (IF Readable(First(job[r].left)) THEN {First(job[r].left)} ELSE {})
    BY <1>1, <1>3 DEF Load, TypeOK, Job
  <2> QED
    BY <2>1
<1>4. CASE PopRemove(r)
  <2>1. job[r].results # {} => job'[r].results = job[r].results
    BY <1>1, <1>4 DEF PopRemove, TypeOK, Job
  <2> QED
    BY <2>1
<1>5. CASE ReadTokens(r)
  BY <1>5, ReadTokensShape
<1>6. CASE SendChunk(r) \/ ChunkRefused(r)
  <2>1. PICK C \in Chunks(job[r].receivers) : AfterChunk(r, C)
    BY <1>6 DEF SendChunk, ChunkRefused
  <2> QED
    BY <1>6, <2>1, AfterChunkShape DEF SendChunk, ChunkRefused
<1>7. CASE TokensFail(r)
  <2>1. dropped' = dropped \cup {First(job[r].results)}
    BY <1>7 DEF TokensFail
  <2> QED
    BY <1>7, <2>1, AdvanceShape DEF TokensFail
<1>8. CASE Crash(r)
  BY <1>8 DEF Crash
<1> QED
  BY <1>2, <1>3, <1>4, <1>5, <1>6, <1>7, <1>8 DEF Work, Fault

\* What a run takes up is booked, and an overlap if another run holds it.
LEMMA TakeUp ==
    ASSUME TypeOK, Books, NEW r \in Runs, Fire(r) \/ Work(r) \/ Fault(r),
           NEW k \in job'[r].results \ job[r].results
    PROVE  /\ Load(r) /\ k \in due /\ k \in Ids
           /\ \A q \in Runs : k \in job[q].results => k \in overlaps'
<1>1. job[r] \in Job
  BY DEF TypeOK
<1>2. CASE Load(r)
  <2> DEFINE i == First(job[r].left)
             got == IF Readable(i) THEN {i} ELSE {}
  <2>1. job'[r].results = job[r].results \cup got
    <3>1. job' = [job EXCEPT ![r].left = @ \ {i}, ![r].results = @ \cup got]
      BY <1>2 DEF Load
    <3> HIDE DEF i, got
    <3> QED
      BY <1>1, <3>1 DEF TypeOK, Job
  <2>2. overlaps' = overlaps \cup {j \in got : \E q \in Runs : j \in job[q].results}
    BY <1>2 DEF Load
  <2>3. got \subseteq due
    BY DEF Readable, Books
  <2> HIDE DEF i, got
  <2> QED
    BY <1>2, <2>1, <2>2, <2>3 DEF TypeOK
<1>3. CASE Fire(r) \/ Poll(r) \/ Crash(r)
  <2>1. ASSUME NEW j, job' = [job EXCEPT ![r] = j]
        PROVE  job'[r] = j
    BY <2>1 DEF TypeOK
  <2>2. CASE Fire(r) \/ Crash(r)
    BY <2>1, <2>2 DEF Fire, Crash, NoJob
  <2>3. CASE Poll(r)
    <3>1. CASE DueBy(job[r].asOf) = {}
      BY <2>1, <2>3, <3>1 DEF Poll, NoJob
    <3>2. CASE DueBy(job[r].asOf) # {}
      BY <2>1, <2>3, <3>2 DEF Poll, NoJob
    <3> QED
      BY <3>1, <3>2
  <2> QED
    BY <1>3, <2>2, <2>3
<1>4. CASE PopRemove(r)
  <2>1. job'[r].results \subseteq job[r].results
    BY <1>1, <1>4 DEF PopRemove, TypeOK, Job, NoJob
  <2> QED
    BY <2>1
<1>5. CASE ReadTokens(r)
  BY <1>5, ReadTokensShape
<1>6. CASE SendChunk(r) \/ ChunkRefused(r)
  <2>1. PICK C \in Chunks(job[r].receivers) : AfterChunk(r, C)
    BY <1>6 DEF SendChunk, ChunkRefused
  <2> QED
    BY <1>6, <2>1, AfterChunkShape DEF SendChunk, ChunkRefused
<1>7. CASE TokensFail(r)
  BY <1>7, AdvanceShape DEF TokensFail
<1> QED
  BY <1>2, <1>3, <1>4, <1>5, <1>6, <1>7 DEF Work, Fault

-----------------------------------------------------------------------------
(* What was sent. *)

Counts == Sent /\ Alone /\ OnceUnlessOverlap /\ \A r \in Runs : Untouched(r)

LEMMA InitCounts == Init => Counts
<1> SUFFICES ASSUME Init
             PROVE  Counts
  OBVIOUS
<1>1. \A i \in Ids, t \in Tokens : sent[i][t] = 0
  BY DEF Init
<1>2. \A r \in Runs : job[r].results = {}
  BY DEF Init, NoJob
<1> QED
  BY <1>1, <1>2 DEF Counts, Sent, Alone, OnceUnlessOverlap, Untouched

\* A reservation a run is ahead of stays so.
LEMMA AheadStays ==
    ASSUME TypeOK, Grows, [Next]_vars, \A r \in Runs : Knows(r),
           NEW i \in Ids, Ahead(i)
    PROVE  Ahead(i)'
<1>1. CASE i \in closed \cup dropped
  BY <1>1 DEF Ahead, Grows
<1>2. ASSUME NEW r \in Runs, i \in job[r].results
      PROVE  Ahead(i)'
  <2>1. ASSUME job' = job
        PROVE  Ahead(i)'
    BY <1>2, <2>1 DEF Ahead
  <2>2. CASE Tick \/ UNCHANGED vars
    BY <2>1, <2>2 DEF Tick, vars
  <2>3. ASSUME NEW c \in Callers, Call(c)
        PROVE  Ahead(i)'
    BY <1>2, <2>1, <2>3, CallMovesNoRun
  <2>4. ASSUME NEW q \in Runs, Fire(q) \/ Work(q) \/ Fault(q)
        PROVE  Ahead(i)'
    <3>1. CASE q = r
      BY <1>2, <2>4, <3>1, LetGo DEF Ahead
    <3>2. CASE q # r
      <4>1. job'[r] = job[r]
        BY <2>4, <3>2, OneMoves
      <4> QED
        BY <1>2, <4>1 DEF Ahead
    <3> QED
      BY <3>1, <3>2
  <2> QED
    BY <2>2, <2>3, <2>4 DEF Next
<1> QED
  BY <1>1, <1>2 DEF Ahead

\* Runs that hold one reservation overlap, also after the step.
LEMMA AloneStep ==
    ASSUME TypeOK, Books, Grows, [Next]_vars, Alone
    PROVE  Alone'
<1>1. ASSUME job' = job
      PROVE  Alone'
  BY <1>1 DEF Alone, Grows
<1>2. CASE Tick \/ UNCHANGED vars
  BY <1>1, <1>2 DEF Tick, vars
<1>3. ASSUME NEW c \in Callers, Call(c)
      PROVE  Alone'
  <2>1. CASE Runs = {}
    BY <2>1 DEF Alone
  <2>2. CASE Runs # {}
    BY <1>1, <1>3, <2>2, CallMovesNoRun
  <2> QED
    BY <2>1, <2>2
<1>4. ASSUME NEW r \in Runs, Fire(r) \/ Work(r) \/ Fault(r)
      PROVE  Alone'
  <2>1. \A q \in Runs : q # r => job'[q] = job[q]
    BY <1>4, OneMoves
  <2>2. \A k \in job'[r].results \ job[r].results :
          \A q \in Runs : k \in job[q].results => k \in overlaps'
    BY <1>4, TakeUp
  <2>3. \A q \in Runs \ {r} : job'[q].results \cap job'[r].results \subseteq overlaps'
    BY <2>1, <2>2 DEF Alone, Grows
  <2> QED
    BY <2>1, <2>3 DEF Alone, Grows
<1> QED
  BY <1>2, <1>3, <1>4 DEF Next

\* A step that sends nothing.
LEMMA QuietCounts ==
    ASSUME TypeOK, TypeOK', Books, Grows, [Next]_vars, \A r \in Runs : Knows(r),
           Counts, sent' = sent
    PROVE  Sent' /\ OnceUnlessOverlap'
<1>1. Sent'
  <2> SUFFICES ASSUME NEW i \in Ids, NEW t \in Tokens, sent[i][t] > 0
               PROVE  i \in born' \ due' /\ book'[i].time <= now' /\ Ahead(i)'
    BY DEF Sent
  <2>1. i \in born \ due /\ book[i].time <= now /\ Ahead(i)
    BY DEF Counts, Sent
  <2>2. book'[i].time = book[i].time /\ book[i].time \in Nat /\ now \in Nat /\ now' \in Nat /\ now <= now'
    BY <2>1, Numbers, ConstantsAssumption DEF Grows, TypeOK
  <2> QED
    BY <2>1, <2>2, AheadStays DEF Grows
<1>2. OnceUnlessOverlap'
  BY DEF Counts, OnceUnlessOverlap, Grows
<1> QED
  BY <1>1, <1>2

\* A run that does not move, when nothing is sent.
LEMMA OtherUntouched ==
    ASSUME TypeOK, TypeOK', Books, Grows, NEW q \in Runs, Knows(q), Untouched(q),
           pc'[q] = pc[q], job'[q] = job[q],
           \A i \in job[q].results \ overlaps : sent'[i] = sent[i]
    PROVE  Untouched(q)'
<1> SUFFICES ASSUME NEW i \in job[q].results \ overlaps', NEW t \in Tokens, sent'[i][t] > 0
             PROVE  pc[q] = "chunk" /\ i = First(job[q].results)' /\ t \notin job[q].receivers
  BY DEF Untouched
<1>1. i \in job[q].results \ overlaps /\ sent[i][t] > 0
  BY DEF Grows
<1>2. pc[q] = "chunk" /\ i = First(job[q].results) /\ t \notin job[q].receivers
  BY <1>1 DEF Untouched
<1>3. First(job[q].results)' = First(job[q].results)
  BY <1>1, FirstHeld DEF Knows, Grows
<1> QED
  BY <1>2, <1>3

\* The run that moves, when it sends nothing.
LEMMA QuietUntouched ==
    ASSUME TypeOK, TypeOK', Books, Grows, NEW r \in Runs, Fire(r) \/ Work(r) \/ Fault(r),
           Knows(r), Counts, sent' = sent
    PROVE  Untouched(r)'
<1>1. job[r] \in Job /\ Untouched(r)
  BY DEF TypeOK, Counts
<1>2. \A k \in job'[r].results \ job[r].results, t \in Tokens : ~ (sent[k][t] > 0)
  BY TakeUp DEF Counts, Sent
<1>3. ASSUME pc[r] # "chunk"
      PROVE  Untouched(r)'
  BY <1>1, <1>2, <1>3 DEF Untouched, Grows
<1>4. CASE pc[r] = "chunk" /\ Crash(r)
  <2>1. job'[r].results = {}
    BY <1>4 DEF Crash, TypeOK, NoJob
  <2> QED
    BY <2>1 DEF Untouched
<1>5. CASE pc[r] = "chunk" /\ (SendChunk(r) \/ ChunkRefused(r))
  <2>1. PICK C \in Chunks(job[r].receivers) : AfterChunk(r, C)
    BY <1>5 DEF SendChunk, ChunkRefused
  <2>2. job[r].results # {}
    BY <1>5 DEF TypeOK
  <2>3. CASE job'[r].results = job[r].results /\ pc'[r] = "chunk"
    <3>1. First(job[r].results)' = First(job[r].results)
      BY <2>2, <2>3, FirstHeld DEF Knows, Grows
    <3>2. job'[r].receivers \subseteq job[r].receivers
      BY <1>5, <2>1, <2>3, AfterChunkShape
    <3> QED
      BY <1>1, <2>3, <3>1, <3>2 DEF Untouched, Grows
  <2>4. CASE job'[r].results = job[r].results \ {First(job[r].results)}
    BY <1>1, <2>4 DEF Untouched, Grows
  <2> QED
    BY <1>5, <2>1, <2>3, <2>4, AfterChunkShape
<1>6. pc[r] = "chunk" => Crash(r) \/ SendChunk(r) \/ ChunkRefused(r)
  BY DEF Work, Fault, Fire, Poll, Load, PopRemove, ReadTokens, TokensFail
<1> QED
  BY <1>3, <1>4, <1>5, <1>6

\* The step that sends a chunk.
LEMMA SendCounts ==
    ASSUME TypeOK, TypeOK', Books, Grows, [Next]_vars, NEW r \in Runs, SendChunk(r),
           \A q \in Runs : Knows(q), Counts
    PROVE  Sent' /\ OnceUnlessOverlap' /\ \A q \in Runs : Untouched(q)'
<1>1. PICK i : i = First(job[r].results)
  OBVIOUS
<1>2. PICK C \in Chunks(job[r].receivers) :
        /\ sent' = [sent EXCEPT ![i] = [t \in Tokens |-> IF t \in C THEN @[t] + 1 ELSE @[t]]]
        /\ AfterChunk(r, C)
  BY <1>1 DEF SendChunk
<1>3. /\ pc[r] = "chunk" /\ job[r].results # {} /\ i \in job[r].results /\ i \in Ids
      /\ i \in born \ due /\ book[i].time <= now
  <2>1. pc[r] = "chunk" /\ job[r].results # {}
    BY DEF SendChunk, TypeOK
  <2> QED
    BY <1>1, <2>1, JobShape DEF Knows
<1>4. /\ UNCHANGED <<due, book, now, born, overlaps, dropped>>
      /\ closed \subseteq closed'
  BY DEF SendChunk, Grows, store
<1>5. /\ C \subseteq job[r].receivers
      /\ \/ /\ pc'[r] = "chunk"
            /\ job'[r].results = job[r].results
            /\ job'[r].receivers = job[r].receivers \ C
         \/ /\ job'[r].results = job[r].results \ {i}
            /\ pc'[r] # "chunk"
  BY <1>1, <1>2, <1>3, AfterChunkShape
<1>6. \A k \in Ids : k # i => sent'[k] = sent[k]
  BY <1>2 DEF TypeOK
<1>7. \A t \in Tokens : /\ sent[i][t] \in Nat
                        /\ sent'[i][t] = IF t \in C THEN sent[i][t] + 1 ELSE sent[i][t]
  BY <1>2, <1>3 DEF TypeOK
<1>8. Sent'
  <2> SUFFICES ASSUME NEW k \in Ids, NEW t \in Tokens, sent'[k][t] > 0
               PROVE  k \in born \ due /\ book[k].time <= now /\ Ahead(k)'
    BY <1>4 DEF Sent
  <2>1. k \in born \ due /\ book[k].time <= now /\ Ahead(k)
    <3>1. CASE k = i
      BY <1>3, <3>1 DEF Ahead
    <3>2. CASE k # i
      BY <1>6, <3>2 DEF Counts, Sent
    <3> QED
      BY <3>1, <3>2
  <2> QED
    BY <2>1, AheadStays
<1>9. Untouched(r)
  BY DEF Counts
<1>10. i \notin overlaps => \A t \in C : t \in Tokens => sent[i][t] = 0
  <2>1. \A t \in Tokens : i \notin overlaps /\ sent[i][t] > 0 => t \notin C
    BY <1>3, <1>5, <1>9 DEF Untouched
  <2> QED
    BY <1>7, <2>1
<1>11. OnceUnlessOverlap'
  <2> SUFFICES ASSUME NEW k \in Ids \ overlaps, NEW t \in Tokens
               PROVE  sent'[k][t] <= 1
    BY <1>4 DEF OnceUnlessOverlap
  <2>1. sent[k][t] <= 1
    BY DEF Counts, OnceUnlessOverlap
  <2>2. CASE k = i
    BY <1>7, <1>10, <2>1, <2>2
  <2>3. CASE k # i
    BY <1>6, <2>1, <2>3
  <2> QED
    BY <2>2, <2>3
<1>12. Untouched(r)'
  <2> SUFFICES ASSUME NEW k \in job'[r].results \ overlaps, NEW t \in Tokens, sent'[k][t] > 0
               PROVE  /\ pc'[r] = "chunk" /\ k = First(job[r].results)'
                      /\ t \notin job'[r].receivers
    BY <1>4 DEF Untouched
  <2>1. k \in job[r].results /\ k \in Ids
    BY <1>5, JobShape
  <2>2. CASE k # i
    BY <1>1, <1>6, <1>9, <2>1, <2>2 DEF Untouched
  <2>3. CASE k = i
    <3>1. pc'[r] = "chunk" /\ job'[r].results = job[r].results
          /\ job'[r].receivers = job[r].receivers \ C
      BY <1>5, <2>3
    <3>2. First(job[r].results)' = i
      BY <1>1, <1>3, <1>4, <3>1, FirstHeld
    <3>3. t \in C \/ sent[i][t] > 0
      BY <1>7, <2>3
    <3>4. t \notin job'[r].receivers
      BY <1>3, <1>9, <2>3, <3>1, <3>3 DEF Untouched
    <3> QED
      BY <2>3, <3>1, <3>2, <3>4
  <2> QED
    BY <2>2, <2>3
<1>13. ASSUME NEW q \in Runs, q # r
       PROVE  Untouched(q)'
  <2>1. pc'[q] = pc[q] /\ job'[q] = job[q]
    BY <1>13, OneMoves DEF Work
  <2>2. \A k \in job[q].results \ overlaps : k # i /\ k \in Ids
    BY <1>3, <1>13, JobShape DEF Counts, Alone
  <2>3. Untouched(q) /\ Knows(q)
    BY DEF Counts
  <2> QED
    BY <1>6, <2>1, <2>2, <2>3, OtherUntouched
<1> QED
  BY <1>8, <1>11, <1>12, <1>13

LEMMA CountsStep ==
    ASSUME TypeOK, TypeOK', Books, Grows, [Next]_vars, \A r \in Runs : Knows(r), Counts
    PROVE  Counts'
<1>1. Alone'
  BY AloneStep DEF Counts
<1>2. ASSUME NEW r \in Runs, SendChunk(r)
      PROVE  Counts'
  BY <1>1, <1>2, SendCounts DEF Counts
<1>3. CASE \A r \in Runs : ~ SendChunk(r)
  <2>1. sent' = sent
    BY <1>3 DEF Next, Tick, Call, Reserve, Store, Cancel, CancelRemove, Work, Fault, Fire, Poll,
                Load, PopRemove, ReadTokens, TokensFail, ChunkRefused, Crash, vars
  <2>2. \A q \in Runs : Untouched(q) /\ Knows(q)
    BY DEF Counts
  <2>3. CASE Tick \/ UNCHANGED vars
    <3>1. \A q \in Runs : pc'[q] = pc[q] /\ job'[q] = job[q]
      BY <2>3 DEF Tick, vars
    <3> QED
      BY <1>1, <2>1, <2>2, <3>1, OtherUntouched, QuietCounts DEF Counts
  <2>4. ASSUME NEW c \in Callers, Call(c)
        PROVE  Counts'
    <3>1. \A q \in Runs : pc'[q] = pc[q] /\ job'[q] = job[q]
      BY <2>4, CallMovesNoRun
    <3> QED
      BY <1>1, <2>1, <2>2, <3>1, OtherUntouched, QuietCounts DEF Counts
  <2>5. ASSUME NEW r \in Runs, Fire(r) \/ Work(r) \/ Fault(r)
        PROVE  Counts'
    <3>1. Untouched(r)'
      BY <2>1, <2>2, <2>5, QuietUntouched
    <3>2. \A q \in Runs \ {r} : Untouched(q)'
      BY <2>1, <2>2, <2>5, OneMoves, OtherUntouched
    <3> QED
      BY <1>1, <2>1, <3>1, <3>2, QuietCounts DEF Counts
  <2> QED
    BY <2>3, <2>4, <2>5 DEF Next
<1> QED
  BY <1>2, <1>3

-----------------------------------------------------------------------------
(* How reservations end. *)

LEMMA InitEnds == Init => CancelHolds /\ NothingLost /\ EveryReceiverTried
  BY DEF Init, CancelHolds, NothingLost, EveryReceiverTried

LEMMA CancelStep ==
    ASSUME TypeOK, Books, Grows, [Next]_vars, Counts, CancelHolds
    PROVE  CancelHolds'
<1> SUFFICES ASSUME NEW i \in canceled' \ crossed'
             PROVE  /\ \A t \in Tokens : sent'[i][t] = 0
                    /\ \A r \in Runs : i \notin job'[r].results
  BY DEF CancelHolds
<1>1. ASSUME i \in canceled
      PROVE  /\ i \in Ids /\ i \notin due
             /\ \A t \in Tokens : sent[i][t] = 0
             /\ \A r \in Runs : i \notin job[r].results
  BY <1>1 DEF CancelHolds, Grows, Books, TypeOK
<1>2. CASE Tick \/ UNCHANGED vars
  BY <1>1, <1>2 DEF Tick, vars, history
<1>3. ASSUME NEW c \in Callers, Call(c)
      PROVE  /\ \A t \in Tokens : sent'[i][t] = 0
             /\ \A r \in Runs : i \notin job'[r].results
  <2>1. sent' = sent /\ job' = job
    BY <1>3 DEF Call, Reserve, Store, Cancel, CancelRemove
  <2>2. CASE i \in canceled
    BY <1>1, <2>1, <2>2
  <2>3. CASE i \notin canceled
    <3>1. CancelRemove(c) /\ i = ask[c].id
      BY <1>3, <2>3 DEF Call, Reserve, Store, Cancel, CancelRemove, history
    <3>2. ~ Ahead(i)
      BY <3>1 DEF CancelRemove
    <3>3. i \in Ids
      BY <3>1 DEF CancelRemove, TypeOK
    <3>4. \A t \in Tokens : sent[i][t] \in Nat /\ ~ (sent[i][t] > 0)
      BY <3>2, <3>3 DEF TypeOK, Counts, Sent
    <3>5. \A t \in Tokens : sent[i][t] = 0
      BY <3>4
    <3> QED
      BY <2>1, <3>2, <3>5 DEF Ahead
  <2> QED
    BY <2>2, <2>3
<1>4. ASSUME NEW r \in Runs, Fire(r) \/ Work(r) \/ Fault(r)
      PROVE  /\ \A t \in Tokens : sent'[i][t] = 0
             /\ \A q \in Runs : i \notin job'[q].results
  <2>1. canceled' = canceled
    BY <1>4 DEF Work, Fault, Fire, Poll, Load, PopRemove, ReadTokens, SendChunk, TokensFail,
                ChunkRefused, Crash, history
  <2>2. i \notin job'[r].results
    BY <1>1, <1>4, <2>1, TakeUp
  <2>3. \A q \in Runs \ {r} : i \notin job'[q].results
    BY <1>1, <1>4, <2>1, OneMoves
  <2>4. sent'[i] = sent[i]
    <3>1. CASE SendChunk(r)
      <4>1. First(job[r].results) # i
        BY <1>1, <2>1, <3>1, JobShape DEF SendChunk, TypeOK
      <4> QED
        BY <1>1, <2>1, <3>1, <4>1 DEF SendChunk, TypeOK
    <3>2. CASE ~ SendChunk(r)
      BY <1>4, <3>2 DEF Work, Fault, Fire, Poll, Load, PopRemove, ReadTokens, TokensFail,
                        ChunkRefused, Crash
    <3> QED
      BY <3>1, <3>2
  <2> QED
    BY <1>1, <2>1, <2>2, <2>3, <2>4
<1> QED
  BY <1>2, <1>3, <1>4 DEF Next

LEMMA LossStep ==
    ASSUME TypeOK, Books, Grows, [Next]_vars, \A r \in Runs : Knows(r) /\ Lists(r), NothingLost
    PROVE  NothingLost'
<1> SUFFICES ASSUME NEW i \in born' \ due'
             PROVE  \/ book'[i].titled = 0
                    \/ i \in canceled' \cup closed' \cup dropped'
                    \/ \E r \in Runs : i \in job'[r].results
  BY DEF NothingLost
<1>1. i \in born \ due =>
        \/ book'[i].titled = 0
        \/ i \in canceled' \cup closed' \cup dropped'
        \/ \E r \in Runs : i \in job[r].results
  BY DEF NothingLost, Grows
<1>2. CASE Tick \/ UNCHANGED vars
  BY <1>1, <1>2 DEF Tick, vars, store, history
<1>3. ASSUME NEW c \in Callers, Call(c)
      PROVE  \/ i \in born \ due /\ job' = job
             \/ i \in canceled'
  BY <1>3 DEF Call, Reserve, Store, Cancel, CancelRemove, store, history
<1>4. ASSUME NEW r \in Runs, Fire(r) \/ Work(r) \/ Fault(r)
      PROVE  \/ book'[i].titled = 0
             \/ i \in canceled' \cup closed' \cup dropped'
             \/ \E q \in Runs : i \in job'[q].results
  <2>1. born' = born /\ book' = book
    BY <1>4 DEF Work, Fault, Fire, Poll, Load, PopRemove, ReadTokens, SendChunk, TokensFail,
                ChunkRefused, Crash, store, history
  <2>2. CASE i \notin due
    <3>1. ASSUME NEW q \in Runs, i \in job[q].results
          PROVE  i \in closed' \cup dropped' \/ \E p \in Runs : i \in job'[p].results
      <4>1. CASE q = r
        BY <1>4, <3>1, <4>1, LetGo
      <4>2. CASE q # r
        BY <1>4, <3>1, <4>2, OneMoves
      <4> QED
        BY <4>1, <4>2
    <3> QED
      BY <1>1, <2>1, <2>2, <3>1
  <2>3. CASE i \in due
    <3>1. PopRemove(r) /\ i \in job[r].members
      BY <1>4, <2>3 DEF Work, Fault, Fire, Poll, Load, PopRemove, Removed, ReadTokens, SendChunk,
                        TokensFail, ChunkRefused, Crash, store
    <3>2. i \in job[r].results \/ book[i].titled = 0
      BY <2>3, <3>1 DEF Lists, PopRemove
    <3>3. i \in job[r].results => i \in job'[r].results
      <4>1. job[r] \in Job
        BY DEF TypeOK
      <4> QED
        BY <3>1, <4>1 DEF PopRemove, TypeOK, Job
    <3> QED
      BY <2>1, <3>2, <3>3
  <2> QED
    BY <2>2, <2>3
<1> QED
  BY <1>1, <1>2, <1>3, <1>4 DEF Next, Grows

LEMMA TriedStep ==
    ASSUME TypeOK, TypeOK', Books, Grows, [Next]_vars,
           \A r \in Runs : Knows(r) /\ Tries(r), EveryReceiverTried
    PROVE  EveryReceiverTried'
<1> SUFFICES ASSUME NEW i \in closed', NEW t \in Receivers(i)'
             PROVE  sent'[i][t] > 0 \/ t \in refused'[i]
  BY DEF EveryReceiverTried
<1>1. CASE i \in closed
  <2>1. i \in born /\ i \in Ids
    BY <1>1 DEF Books, TypeOK
  <2>2. t \in Receivers(i) /\ t \in Tokens
    BY <2>1 DEF Grows, Receivers, Addressed
  <2> QED
    BY <1>1, <2>1, <2>2 DEF EveryReceiverTried, Grows
<1>2. ASSUME NEW r \in Runs, ReadTokens(r) \/ SendChunk(r) \/ ChunkRefused(r), i \notin closed
      PROVE  sent'[i][t] > 0 \/ t \in refused'[i]
  <2>1. UNCHANGED book
    BY <1>2 DEF ReadTokens, SendChunk, ChunkRefused, store
  <2>2. t \in Receivers(i) /\ t \in Tokens
    BY <2>1 DEF Receivers, Addressed
  <2>3. CASE ReadTokens(r)
    BY <1>2, <2>2, <2>3, ReadTokensShape
  <2>4. CASE SendChunk(r) \/ ChunkRefused(r)
    <3>1. PICK C \in Chunks(job[r].receivers) :
            /\ AfterChunk(r, C)
            /\ \/ sent' = [sent EXCEPT ![First(job[r].results)] =
                              [u \in Tokens |-> IF u \in C THEN @[u] + 1 ELSE @[u]]]
               \/ refused' = [refused EXCEPT ![First(job[r].results)] = @ \cup C]
      BY <2>4 DEF SendChunk, ChunkRefused
    <3>2. pc[r] = "chunk" /\ job[r].results # {}
      BY <2>4 DEF SendChunk, ChunkRefused, TypeOK
    <3>3. i = First(job[r].results) /\ job[r].receivers = C
      BY <1>2, <3>1, <3>2, AfterChunkShape
    <3>4. i \in Ids
      BY <3>2, <3>3, JobShape
    <3>5. CASE t \in C
      BY <3>1, <3>3, <3>4, <3>5, ChunkTried
    <3>6. CASE t \notin C
      BY <2>2, <3>2, <3>3, <3>4, <3>6 DEF Tries, Grows
    <3> QED
      BY <3>5, <3>6
  <2> QED
    BY <1>2, <2>3, <2>4
<1>3. i \in closed \/ \E r \in Runs : ReadTokens(r) \/ SendChunk(r) \/ ChunkRefused(r)
  BY DEF Next, Tick, Call, Reserve, Store, Cancel, CancelRemove, Work, Fault, Fire, Poll, Load,
         PopRemove, TokensFail, Crash, vars, history
<1> QED
  BY <1>1, <1>2, <1>3

-----------------------------------------------------------------------------
(* Theorems. *)

IInv ==
    /\ TypeOK
    /\ Books
    /\ Asks
    /\ \A r \in Runs : Knows(r) /\ Lists(r) /\ Tries(r)
    /\ Counts
    /\ CancelHolds
    /\ NothingLost
    /\ EveryReceiverTried

\* What the theorems below rest on: the keys, the requests and what every run holds
\* fit together (pop-due-reservations.usecase.ts:19-58, push-notification.scheduler.ts:22-44).
THEOREM Invariant == Spec => []IInv
<1>1. Init => IInv
  BY InitTyped, InitBooks, InitFits, InitCounts, InitEnds DEF IInv
<1>2. IInv /\ [Next]_vars => IInv'
  <2> SUFFICES ASSUME IInv, [Next]_vars
               PROVE  IInv'
    OBVIOUS
  <2>1. TypeOK'
    BY TypeStep DEF IInv
  <2>2. Books' /\ Asks' /\ Grows /\ \A r \in Runs : Knows(r)' /\ Lists(r)' /\ Tries(r)'
    BY <2>1, AllFit DEF IInv
  <2>3. Counts'
    BY <2>1, <2>2, CountsStep DEF IInv
  <2>4. CancelHolds' /\ NothingLost' /\ EveryReceiverTried'
    BY <2>1, <2>2, CancelStep, LossStep, TriedStep DEF IInv
  <2> QED
    BY <2>1, <2>2, <2>3, <2>4 DEF IInv
<1> QED
  BY <1>1, <1>2, PTL DEF Spec

\* A receiver gets a reservation twice only when a run read it while another one held
\* it (pop-due-reservations.usecase.ts:30-55).
THEOREM SentOnceUnlessOverlap == Spec => []OnceUnlessOverlap
<1>1. IInv => OnceUnlessOverlap
  BY DEF IInv, Counts
<1> QED
  BY <1>1, Invariant, PTL

\* A cancellation that no run was ahead of stops the reservation for good
\* (cancel-reservation.usecase.ts:29-33).
THEOREM CancelIsFinal == Spec => []CancelHolds
<1>1. IInv => CancelHolds
  BY DEF IInv
<1> QED
  BY <1>1, Invariant, PTL

\* A titled reservation that left the book is accounted for
\* (pop-due-reservations.usecase.ts:47-55).
THEOREM NoneDisappears == Spec => []NothingLost
<1>1. IInv => NothingLost
  BY DEF IInv
<1> QED
  BY <1>1, Invariant, PTL

\* A run that is through with a reservation offered it to Expo for every receiver
\* (expo-notification.service.ts:46-53).
THEOREM AllAreTried == Spec => []EveryReceiverTried
<1>1. IInv => EveryReceiverTried
  BY DEF IInv
<1> QED
  BY <1>1, Invariant, PTL

\* The sorted set and the hashes name the same reservations
\* (reserve-push.usecase.ts:21-33, pop-due-reservations.usecase.ts:51-55).
THEOREM KeysStayTogether == Spec => []KeysAgree
<1>1. IInv => KeysAgree
  BY DEF IInv, Books, KeysAgree
<1> QED
  BY <1>1, Invariant, PTL

\* No reservation is sent before its time (pop-due-reservations.usecase.ts:20-24).
THEOREM NeverEarly == Spec => []NotEarly
<1>1. IInv => NotEarly
  BY DEF IInv, Counts, Sent, NotEarly
<1> QED
  BY <1>1, Invariant, PTL

-----------------------------------------------------------------------------
(* The promise of reservations. *)

\* What a step of the promise needs to know of the state it maps from.
SameBook(S) ==
    \A i \in S : Receivers(i)' = Receivers(i) /\ PhaseOf(i)' = PhaseOf(i)

SameOwed(Q) == \A q \in Q : OwedBy(q)' = OwedBy(q)

LEMMA StutterMaps ==
    ASSUME SameBook(Ids), SameOwed(Runs), sent' = sent
    PROVE  UNCHANGED Promise!vars
  BY DEF Promise!vars, SameBook, SameOwed

LEMMA GiveUpMaps ==
    ASSUME NEW r \in Runs, NEW P \in SUBSET OwedBy(r), OwedBy(r)' = OwedBy(r) \ P,
           SameBook(Ids), SameOwed(Runs \ {r}), sent' = sent
    PROVE  Promise!Next
<1>1. Promise!GiveUp(r, P)
  BY DEF Promise!GiveUp, SameBook, SameOwed
<1> QED
  BY <1>1 DEF Promise!Next

LEMMA DeliverMaps ==
    ASSUME TypeOK, NEW r \in Runs, NEW i \in Ids, NEW C \in SUBSET Tokens,
           \A t \in C : <<i, t>> \in OwedBy(r), OwedBy(r)' = OwedBy(r) \ ({i} \X C),
           SameBook(Ids), SameOwed(Runs \ {r}),
           sent' = [sent EXCEPT ![i] = [t \in Tokens |-> IF t \in C THEN @[t] + 1 ELSE @[t]]]
    PROVE  Promise!Next
<1>1. Promise!Deliver(r, i, C)
  BY DEF Promise!Deliver, SameBook, SameOwed
<1> QED
  BY <1>1 DEF Promise!Next

LEMMA PickMaps ==
    ASSUME NEW r \in Runs, NEW i \in Ids, PhaseOf(i) = "booked",
           OwedBy(r)' = OwedBy(r) \cup {<<i, t>> : t \in Receivers(i)},
           SameBook(Ids), SameOwed(Runs \ {r}), sent' = sent
    PROVE  Promise!Next
<1>1. Promise!Pick(r, i)
  BY DEF Promise!Pick, Promise!Pairs, SameBook, SameOwed
<1> QED
  BY <1>1 DEF Promise!Next

LEMMA RemoveMaps ==
    ASSUME NEW S \in SUBSET Ids, \A i \in S : PhaseOf(i) # "none" /\ PhaseOf(i)' = "out",
           \A i \in Ids \ S : PhaseOf(i)' = PhaseOf(i),
           \A i \in Ids : Receivers(i)' = Receivers(i),
           SameOwed(Runs), sent' = sent
    PROVE  [Promise!Next]_(Promise!vars)
<1>1. CASE S # {}
  <2>1. Promise!Remove(S)
    BY <1>1 DEF Promise!Remove, SameOwed
  <2> QED
    BY <2>1 DEF Promise!Next
<1>2. CASE S = {}
  BY <1>2 DEF Promise!vars, SameOwed
<1> QED
  BY <1>1, <1>2

LEMMA BookMaps ==
    ASSUME NEW i \in Ids, PhaseOf(i) = "none", PhaseOf(i)' = "booked",
           Receivers(i)' \in SUBSET Tokens,
           SameBook(Ids \ {i}), SameOwed(Runs), sent' = sent
    PROVE  Promise!Next
<1>1. Promise!Book(i, Receivers(i)')
  BY DEF Promise!Book, SameBook, SameOwed
<1> QED
  BY <1>1 DEF Promise!Next

\* What a run that does not move owes.
LEMMA OtherOwes ==
    ASSUME TypeOK, TypeOK', Grows, NEW q \in Runs, Knows(q),
           pc'[q] = pc[q], job'[q] = job[q]
    PROVE  OwedBy(q)' = OwedBy(q)
<1>1. \A i \in job[q].results : Receivers(i)' = Receivers(i)
  <2>1. \A i \in job[q].results : book'[i] = book[i]
    BY DEF Knows, Grows
  <2> QED
    BY <2>1 DEF Receivers, Addressed
<1>2. job[q].results # {} => First(job[q].results)' = First(job[q].results)
  BY FirstHeld DEF Knows, Grows
<1> QED
  BY <1>1, <1>2 DEF OwedBy

\* What a run owes where it is at no chunk.
LEMMA AllOwed ==
    ASSUME NEW q \in Runs, pc[q] # "chunk"
    PROVE  OwedBy(q) = {x \in Ids \X Tokens : x[1] \in job[q].results /\ x[2] \in Receivers(x[1])}
  BY DEF OwedBy

LEMMA InitPromised == Init => Promise!Init
<1> SUFFICES ASSUME Init
             PROVE  Promise!Init
  OBVIOUS
<1>1. \A i \in Ids : Receivers(i) = {} /\ PhaseOf(i) = "none"
  BY DEF Init, Receivers, Addressed, PhaseOf, Blank
<1>2. \A r \in Runs : OwedBy(r) = {}
  BY DEF Init, OwedBy, NoJob
<1>3. sent = [i \in Ids |-> [t \in Tokens |-> 0]]
  BY DEF Init
<1> QED
  BY <1>1, <1>2, <1>3 DEF Promise!Init

LEMMA CallPromised ==
    ASSUME TypeOK, TypeOK', Books, Asks, Grows, \A q \in Runs : Knows(q),
           NEW c \in Callers, Call(c)
    PROVE  [Promise!Next]_(Promise!vars)
<1>1. SameOwed(Runs) /\ sent' = sent
  <2>1. sent' = sent
    BY DEF Call, Reserve, Store, Cancel, CancelRemove
  <2>2. \A q \in Runs : OwedBy(q)' = OwedBy(q)
    BY CallMovesNoRun, OtherOwes
  <2> QED
    BY <2>1, <2>2 DEF SameOwed
<1>2. CASE (\E b \in Bookings : Reserve(c, b)) \/ \E i \in Ids : Cancel(c, i)
  <2>1. UNCHANGED <<due, book, born>>
    BY <1>2 DEF Reserve, Cancel, store, history
  <2>2. SameBook(Ids)
    BY <2>1 DEF SameBook, Receivers, Addressed, PhaseOf
  <2> QED
    BY <1>1, <2>2, StutterMaps
<1>3. CASE Store(c)
  <2> DEFINE i == ask[c].id
  <2>1. i \in Ids /\ i \notin born /\ i \notin due
    BY <1>3 DEF Store, Asks, Books
  <2>2. /\ due' = due \cup {i} /\ born' = born \cup {i}
        /\ \A k \in Ids \ {i} : book'[k] = book[k]
    BY <1>3 DEF Store, TypeOK
  <2> HIDE DEF i
  <2>3. SameBook(Ids \ {i})
    BY <2>2 DEF SameBook, Receivers, Addressed, PhaseOf
  <2>4. PhaseOf(i) = "none"
    BY <2>1 DEF PhaseOf
  <2>5. PICK k : k = i
    OBVIOUS
  <2>6. PhaseOf(k)' = "booked"
    BY <2>2, <2>5 DEF PhaseOf
  <2>7. Receivers(k)' \in SUBSET Tokens
    BY DEF Receivers, Addressed
  <2>8. Promise!Next
    BY <1>1, <2>1, <2>3, <2>4, <2>5, <2>6, <2>7, BookMaps
  <2> QED
    BY <2>8
<1>4. CASE CancelRemove(c)
  <2> DEFINE i == ask[c].id
  <2>1. i \in born /\ i \in Ids
    BY <1>4 DEF CancelRemove, Asks, TypeOK
  <2>2. due' = due \ {i} /\ UNCHANGED <<book, born>>
    BY <1>4 DEF CancelRemove
  <2> HIDE DEF i
  <2>3. \A k \in Ids : Receivers(k)' = Receivers(k)
    BY <2>2 DEF Receivers, Addressed
  <2>4. \A k \in Ids \ {i} : PhaseOf(k)' = PhaseOf(k)
    BY <2>2 DEF PhaseOf
  <2>5. PICK S : S = {i}
    OBVIOUS
  <2>6. \A k \in S : PhaseOf(k) # "none" /\ PhaseOf(k)' = "out"
    BY <2>1, <2>2, <2>5 DEF PhaseOf
  <2>7. S \in SUBSET Ids /\ \A k \in Ids \ S : PhaseOf(k)' = PhaseOf(k)
    BY <2>1, <2>4, <2>5
  <2> QED
    BY <1>1, <2>3, <2>6, <2>7, RemoveMaps
<1> QED
  BY <1>2, <1>3, <1>4 DEF Call

LEMMA ReaderPromised ==
    ASSUME TypeOK, TypeOK', Books, Grows, \A q \in Runs : Knows(q) /\ Lists(q),
           NEW r \in Runs, Fire(r) \/ Poll(r) \/ Load(r) \/ PopRemove(r),
           Knows(r)'
    PROVE  [Promise!Next]_(Promise!vars)
<1>1. SameOwed(Runs \ {r}) /\ sent' = sent
  <2>1. sent' = sent
    BY DEF Fire, Poll, Load, PopRemove
  <2>2. \A q \in Runs \ {r} : OwedBy(q)' = OwedBy(q)
    BY OneMoves, OtherOwes DEF Work
  <2> QED
    BY <2>1, <2>2 DEF SameOwed
<1>2. UNCHANGED <<book, born>>
  BY DEF Fire, Poll, Load, PopRemove, store, history
<1>3. \A k : Receivers(k)' = Receivers(k)
  BY <1>2 DEF Receivers, Addressed
<1>4. pc[r] # "chunk" /\ pc'[r] # "chunk"
  BY DEF Fire, Poll, Load, PopRemove, Goto, TypeOK
<1>5. /\ OwedBy(r) = {x \in Ids \X Tokens : x[1] \in job[r].results /\ x[2] \in Receivers(x[1])}
      /\ OwedBy(r)' = {x \in Ids \X Tokens : x[1] \in job'[r].results /\ x[2] \in Receivers(x[1])}
  BY <1>3, <1>4 DEF OwedBy
<1>6. job[r] \in Job
  BY DEF TypeOK
<1>7. ASSUME job'[r].results = job[r].results
      PROVE  SameOwed(Runs)
  BY <1>1, <1>5, <1>7 DEF SameOwed
<1>8. CASE Fire(r) \/ Poll(r)
  <2>1. due' = due
    BY <1>8 DEF Fire, Poll, store
  <2>2. SameBook(Ids)
    BY <1>2, <1>3, <2>1 DEF SameBook, PhaseOf
  <2>3. job[r].results = {}
    BY <1>8 DEF Fire, Poll, Knows
  <2>4. job'[r].results = {}
    <3>1. \A k \in job'[r].results \ job[r].results : Load(r)
      BY <1>8, TakeUp DEF Work
    <3>2. ~ Load(r)
      BY <1>8 DEF Fire, Poll, Load
    <3> QED
      BY <2>3, <3>1, <3>2
  <2> QED
    BY <1>1, <1>7, <2>2, <2>3, <2>4, StutterMaps
<1>9. CASE Load(r)
  <2> DEFINE i == First(job[r].left)
             got == IF Readable(i) THEN {i} ELSE {}
  <2>1. i \in Ids
    BY <1>9, JobShape DEF Load, TypeOK
  <2>2. job'[r].results = job[r].results \cup got
    <3>1. job' = [job EXCEPT ![r].left = @ \ {i}, ![r].results = @ \cup got]
      BY <1>9 DEF Load
    <3> HIDE DEF i, got
    <3> QED
      BY <1>6, <3>1 DEF TypeOK, Job
  <2>3. SameBook(Ids)
    BY <1>2, <1>3, <1>9 DEF SameBook, PhaseOf, Load, store
  <2>4. CASE Readable(i)
    <3>1. PhaseOf(i) = "booked"
      BY <2>4 DEF Readable, Books, PhaseOf
    <3>2. PICK k : k = i
      OBVIOUS
    <3>3. job'[r].results = job[r].results \cup {k} /\ k \in Ids
      BY <2>1, <2>2, <2>4, <3>2
    <3>4. Receivers(k) \subseteq Tokens
      BY DEF Receivers, Addressed
    <3>5. OwedBy(r)' = OwedBy(r) \cup {<<k, t>> : t \in Receivers(k)}
      <4>1. OwedBy(r)' \subseteq OwedBy(r) \cup {<<k, t>> : t \in Receivers(k)}
        BY <1>5, <3>3
      <4>2. OwedBy(r) \subseteq OwedBy(r)'
        BY <1>5, <3>3
      <4>3. {<<k, t>> : t \in Receivers(k)} \subseteq OwedBy(r)'
        BY <1>5, <3>3, <3>4
      <4> QED
        BY <4>1, <4>2, <4>3
    <3> QED
      BY <1>1, <2>3, <3>1, <3>2, <3>3, <3>5, PickMaps
  <2>5. CASE ~ Readable(i)
    BY <1>1, <1>7, <2>2, <2>3, <2>5, StutterMaps
  <2> QED
    BY <2>4, <2>5
<1>10. CASE PopRemove(r)
  <2>1. due' = due \ job[r].members /\ pc[r] = "remove"
    BY <1>10 DEF PopRemove, Removed
  <2>2. job[r].members \subseteq born /\ born \subseteq Ids
    BY <2>1 DEF Lists, TypeOK
  <2>3. job'[r].results = job[r].results
    <3>1. CASE job[r].results = {}
      BY <1>10, <3>1 DEF PopRemove, TypeOK, NoJob
    <3>2. CASE job[r].results # {}
      BY <1>6, <1>10, <3>2 DEF PopRemove, TypeOK, Job
    <3> QED
      BY <3>1, <3>2
  <2>4. PICK S : S = job[r].members
    OBVIOUS
  <2>5. S \in SUBSET Ids /\ \A k \in S : PhaseOf(k) # "none" /\ PhaseOf(k)' = "out"
    BY <1>2, <2>1, <2>2, <2>4 DEF PhaseOf
  <2>6. \A k \in Ids \ S : PhaseOf(k)' = PhaseOf(k)
    BY <1>2, <2>1, <2>4 DEF PhaseOf
  <2> QED
    BY <1>1, <1>3, <1>7, <2>3, <2>5, <2>6, RemoveMaps
<1> QED
  BY <1>8, <1>9, <1>10

LEMMA SenderPromised ==
    ASSUME TypeOK, TypeOK', Books, Grows, \A q \in Runs : Knows(q) /\ Tries(q),
           NEW r \in Runs, ReadTokens(r) \/ SendChunk(r) \/ Fault(r)
    PROVE  [Promise!Next]_(Promise!vars)
<1>1. SameOwed(Runs \ {r})
  <2>1. \A q \in Runs \ {r} : OwedBy(q)' = OwedBy(q)
    BY OneMoves, OtherOwes DEF Work
  <2> QED
    BY <2>1 DEF SameOwed
<1>2. UNCHANGED <<due, book, born>>
  BY DEF ReadTokens, SendChunk, Fault, TokensFail, ChunkRefused, Crash, store
<1>3. \A k : Receivers(k)' = Receivers(k) /\ Receivers(k) \subseteq Tokens
  BY <1>2 DEF Receivers, Addressed
<1>4. SameBook(Ids)
  BY <1>2, <1>3 DEF SameBook, PhaseOf
<1>5. CASE Crash(r)
  <2>1. job'[r].results = {} /\ sent' = sent
    BY <1>5 DEF Crash, TypeOK, NoJob
  <2>2. OwedBy(r)' = OwedBy(r) \ OwedBy(r)
    BY <2>1 DEF OwedBy
  <2>3. Promise!Next
    BY <1>1, <1>4, <2>1, <2>2, GiveUpMaps
  <2> QED
    BY <2>3
<1>6. PICK i : i = First(job[r].results)
  OBVIOUS
<1>7. ASSUME pc[r] = "tokens" \/ pc[r] = "chunk"
      PROVE  job[r].results # {} /\ i \in job[r].results /\ i \in Ids
  BY <1>6, <1>7, JobShape DEF TypeOK
<1>8. ASSUME pc'[r] # "chunk"
      PROVE  OwedBy(r)' = {x \in Ids \X Tokens : x[1] \in job'[r].results /\ x[2] \in Receivers(x[1])}
  BY <1>3, <1>8 DEF OwedBy
<1>9. ASSUME pc[r] = "tokens"
      PROVE  OwedBy(r) = {x \in Ids \X Tokens : x[1] \in job[r].results /\ x[2] \in Receivers(x[1])}
  BY <1>9 DEF OwedBy
<1>10. ASSUME pc[r] = "chunk"
       PROVE  OwedBy(r) = {x \in Ids \X Tokens :
                  /\ x[1] \in job[r].results
                  /\ IF x[1] = i THEN x[2] \in job[r].receivers ELSE x[2] \in Receivers(x[1])}
  BY <1>6, <1>10 DEF OwedBy
<1>11. ASSUME pc'[r] = "chunk", job[r].results # {}, job'[r].results = job[r].results
       PROVE  OwedBy(r)' = {x \in Ids \X Tokens :
                  /\ x[1] \in job[r].results
                  /\ IF x[1] = i THEN x[2] \in job'[r].receivers ELSE x[2] \in Receivers(x[1])}
  <2>1. First(job[r].results)' = i
    BY <1>2, <1>6, <1>11, FirstHeld
  <2> QED
    BY <1>3, <1>11, <2>1 DEF OwedBy
<1>12. CASE ReadTokens(r)
  <2>1. pc[r] = "tokens" /\ sent' = sent
    BY <1>12 DEF ReadTokens
  <2>2. CASE /\ pc'[r] = "chunk"
             /\ job'[r].results = job[r].results
             /\ job'[r].receivers = Receivers(i)
    <3>1. OwedBy(r)' = OwedBy(r)
      BY <1>7, <1>9, <1>11, <2>1, <2>2
    <3> QED
      BY <1>1, <1>4, <2>1, <3>1, StutterMaps DEF SameOwed
  <2>3. CASE /\ Receivers(i) = {}
             /\ job'[r].results = job[r].results \ {i}
             /\ pc'[r] # "chunk"
    <3>1. OwedBy(r)' = OwedBy(r)
      BY <1>8, <1>9, <2>1, <2>3
    <3> QED
      BY <1>1, <1>4, <2>1, <3>1, StutterMaps DEF SameOwed
  <2> QED
    BY <1>6, <1>12, <2>2, <2>3, ReadTokensShape
<1>13. CASE TokensFail(r)
  <2>1. pc[r] = "tokens" /\ Advance(r) /\ sent' = sent
    BY <1>13 DEF TokensFail
  <2>2. pc'[r] # "chunk" /\ job'[r].results = job[r].results \ {i}
    BY <1>6, <2>1, AdvanceShape
  <2> DEFINE P == {x \in OwedBy(r) : x[1] = i}
  <2>3. OwedBy(r)' = OwedBy(r) \ P
    BY <1>8, <1>9, <2>1, <2>2
  <2>4. Promise!Next
    BY <1>1, <1>4, <2>1, <2>3, GiveUpMaps
  <2> QED
    BY <2>4
<1>14. ASSUME NEW C \in Chunks(job[r].receivers), AfterChunk(r, C), pc[r] = "chunk"
       PROVE  /\ C \subseteq Tokens
              /\ \A t \in C : <<i, t>> \in OwedBy(r)
              /\ OwedBy(r)' = OwedBy(r) \ ({i} \X C)
  <2>1. i \in job[r].results /\ i \in Ids /\ job[r].results # {} /\ job[r].receivers \subseteq Tokens
    BY <1>7, <1>14, JobShape
  <2>2. C \subseteq job[r].receivers
    BY <1>14, AfterChunkShape
  <2>3. \A t \in C : <<i, t>> \in OwedBy(r)
    BY <1>10, <1>14, <2>1, <2>2
  <2>4. CASE /\ pc'[r] = "chunk"
             /\ job'[r].results = job[r].results
             /\ job'[r].receivers = job[r].receivers \ C
    <3>1. OwedBy(r)' = {x \in Ids \X Tokens :
              /\ x[1] \in job[r].results
              /\ IF x[1] = i THEN x[2] \in job[r].receivers \ C ELSE x[2] \in Receivers(x[1])}
      BY <1>11, <2>1, <2>4
    <3>2. OwedBy(r) = {x \in Ids \X Tokens :
              /\ x[1] \in job[r].results
              /\ IF x[1] = i THEN x[2] \in job[r].receivers ELSE x[2] \in Receivers(x[1])}
      BY <1>10, <1>14
    <3> QED
      BY <2>1, <2>2, <2>3, <3>1, <3>2
  <2>5. CASE /\ job[r].receivers = C
             /\ job'[r].results = job[r].results \ {i}
             /\ pc'[r] # "chunk"
    BY <1>8, <1>10, <1>14, <2>1, <2>5
  <2>6. OwedBy(r)' = OwedBy(r) \ ({i} \X C)
    BY <1>6, <1>14, <2>4, <2>5, AfterChunkShape
  <2> QED
    BY <2>1, <2>2, <2>3, <2>6
<1>15. CASE SendChunk(r)
  <2>1. pc[r] = "chunk"
    BY <1>15 DEF SendChunk
  <2>2. PICK C \in Chunks(job[r].receivers) :
          /\ sent' = [sent EXCEPT ![i] = [t \in Tokens |-> IF t \in C THEN @[t] + 1 ELSE @[t]]]
          /\ AfterChunk(r, C)
    BY <1>6, <1>15 DEF SendChunk
  <2>3. Promise!Next
    BY <1>1, <1>4, <1>7, <1>14, <2>1, <2>2, DeliverMaps
  <2> QED
    BY <2>3
<1>16. CASE ChunkRefused(r)
  <2>1. pc[r] = "chunk" /\ sent' = sent
    BY <1>16 DEF ChunkRefused
  <2>2. PICK C \in Chunks(job[r].receivers) : AfterChunk(r, C)
    BY <1>16 DEF ChunkRefused
  <2>3. {i} \X C \subseteq OwedBy(r) /\ OwedBy(r)' = OwedBy(r) \ ({i} \X C)
    BY <1>14, <2>1, <2>2
  <2>4. Promise!Next
    BY <1>1, <1>4, <2>1, <2>3, GiveUpMaps
  <2> QED
    BY <2>4
<1> QED
  BY <1>5, <1>12, <1>13, <1>15, <1>16 DEF Fault

\* The scheduler and the use cases implement the promise of reservations: every step is
\* a step of ReservationPromise or leaves what it speaks of alone
\* (push-notification.scheduler.ts:26-43, pop-due-reservations.usecase.ts:19-58).
THEOREM ImplementsPromise == Spec => PromiseSpec
<1>1. Init => Promise!Init
  BY InitPromised
<1>2. IInv /\ IInv' /\ [Next]_vars => [Promise!Next]_(Promise!vars)
  <2> SUFFICES ASSUME IInv, IInv', [Next]_vars
               PROVE  [Promise!Next]_(Promise!vars)
    OBVIOUS
  <2>1. Books' /\ Asks' /\ Grows /\ \A r \in Runs : Knows(r)' /\ Lists(r)' /\ Tries(r)'
    BY AllFit DEF IInv
  <2>2. CASE Tick \/ UNCHANGED vars
    <3>1. /\ UNCHANGED <<due, book, born, sent>>
          /\ \A q \in Runs : pc'[q] = pc[q] /\ job'[q] = job[q]
      BY <2>2 DEF Tick, vars, store, history
    <3>2. SameBook(Ids)
      BY <3>1 DEF SameBook, Receivers, Addressed, PhaseOf
    <3>3. SameOwed(Runs)
      BY <2>1, <3>1, OtherOwes DEF SameOwed, IInv
    <3> QED
      BY <3>1, <3>2, <3>3, StutterMaps
  <2>3. ASSUME NEW c \in Callers, Call(c)
        PROVE  [Promise!Next]_(Promise!vars)
    BY <2>1, <2>3, CallPromised DEF IInv
  <2>4. ASSUME NEW r \in Runs, Fire(r) \/ Work(r) \/ Fault(r)
        PROVE  [Promise!Next]_(Promise!vars)
    BY <2>1, <2>4, ReaderPromised, SenderPromised DEF IInv, Work
  <2> QED
    BY <2>2, <2>3, <2>4 DEF Next
<1>3. Spec => []IInv
  BY Invariant
<1> QED
  BY <1>1, <1>2, <1>3, PTL DEF Spec, PromiseSpec, Promise!Spec

=============================================================================
