--------------------------- MODULE JobWorkerProofs ---------------------------
(* Theorems about JobWorker and their proofs. *)
EXTENDS JobWorker, FiniteSetTheorems, TLAPS

-----------------------------------------------------------------------------
(* What the helpers do to well-shaped variables. *)

LEMMA PutType ==
    ASSUME NEW queue \in [Message -> Nat], NEW m \in Message
    PROVE  /\ Put(queue, m) \in [Message -> Nat]
           /\ Put(queue, m)[m] > 0
           /\ \A n \in Message \ {m} : Put(queue, m)[n] = queue[n]
           /\ \A n \in Message : queue[n] > 0 => Put(queue, m)[n] > 0
  BY DEF Put

LEMMA GotoType ==
    ASSUME TypeOK, NEW w \in Workers, NEW point \in PCs, Goto(w, point)
    PROVE  /\ pc' \in [Workers -> PCs]
           /\ pc'[w] = point
           /\ \A v \in Workers \ {w} : pc'[v] = pc[v]
  BY DEF TypeOK, Goto

LEMMA EndType ==
    ASSUME TypeOK, NEW w \in Workers, End(w)
    PROVE  /\ pc' \in [Workers -> PCs]
           /\ pc'[w] = "idle"
           /\ \A v \in Workers \ {w} : pc'[v] = pc[v]
           /\ adrift' = adrift \ {w}
<1>1. "idle" \in PCs
  BY DEF PCs
<1> QED
  BY <1>1, GotoType DEF End

LEMMA UnlockType ==
    ASSUME TypeOK, NEW w \in Workers, Unlock(w)
    PROVE  /\ lock' \in [Jobs -> Workers \cup {NoWorker}]
           /\ stolen' \subseteq Jobs
           /\ stolen \subseteq stolen'
           /\ \A j \in Jobs \ {Job(w)} : lock'[j] = lock[j]
           /\ Guarding(Job(w)) => lock[Job(w)] = w \/ Job(w) \in stolen'
  BY DEF TypeOK, Unlock, Job, Message

LEMMA RetryType ==
    ASSUME TypeOK, NEW w \in Workers
    PROVE  Retry(msg[w]) \in Message /\ Retry(msg[w]).job = Job(w)
<1>1. msg[w] \in Message /\ msg[w].retry # 3
  BY DEF TypeOK
<1> QED
  BY <1>1 DEF Retry, Message, Job

LEMMA FaultType == ASSUME TypeOK, Fault PROVE faults' \in 0 .. MaxFaults
  BY ConstantsAssumption DEF TypeOK, Fault

\* Messages in the request queue have retries left.
QueuesOK ==
    /\ requested \in [Message -> Nat]
    /\ parked \in [Message -> Nat]
    /\ \A m \in Message : m.retry = 3 => requested[m] = 0

LEMMA RedeliverType ==
    ASSUME TypeOK, NEW w \in Workers, Redeliver(w), parked' = parked
    PROVE  /\ QueuesOK'
           /\ \A m \in Message : requested[m] > 0 => requested'[m] > 0
           /\ \A m \in Message \ {msg[w]} : requested'[m] = requested[m]
           /\ w \notin adrift => requested'[msg[w]] > 0
<1>1. msg[w] \in Message /\ msg[w].retry # 3 /\ requested \in [Message -> Nat]
  BY DEF TypeOK
<1>2. CASE w \in adrift
  BY <1>1, <1>2 DEF TypeOK, Redeliver, QueuesOK
<1>3. CASE w \notin adrift
  <2>1. requested' = Put(requested, msg[w])
    BY <1>3 DEF Redeliver
  <2>2. /\ requested' \in [Message -> Nat]
        /\ requested'[msg[w]] > 0
        /\ \A n \in Message \ {msg[w]} : requested'[n] = requested[n]
        /\ \A n \in Message : requested[n] > 0 => requested'[n] > 0
    BY <1>1, <2>1, PutType
  <2> QED
    BY <1>1, <2>2 DEF TypeOK, QueuesOK
<1> QED
  BY <1>2, <1>3

LEMMA TypeInit == Init => TypeOK
<1> SUFFICES ASSUME Init PROVE TypeOK
  OBVIOUS
<1>1. msg \in [Workers -> Message] /\ \A w \in Workers : msg[w].retry # 3
  BY DEF Init, Message
<1> QED
  BY <1>1, ConstantsAssumption DEF Init, TypeOK, PCs

LEMMA TypeStep == TypeOK /\ [Next]_vars => TypeOK'
<1> SUFFICES ASSUME TypeOK, [Next]_vars PROVE TypeOK'
  OBVIOUS
<1> USE DEF broker, redis
<1>1. \A w \in Workers : msg[w] \in Message /\ msg[w].retry # 3 /\ Job(w) \in Jobs
  BY DEF TypeOK, Message, Job
<1>2. ASSUME NEW j \in Jobs, Publish(j) PROVE TypeOK'
  <2>1. [job |-> j, retry |-> 0] \in Message
    BY DEF Message
  <2>2. requested' = Put(requested, [job |-> j, retry |-> 0]) /\ requested \in [Message -> Nat]
    BY <1>2 DEF Publish, TypeOK
  <2>3. /\ requested' \in [Message -> Nat]
        /\ \A n \in Message \ {[job |-> j, retry |-> 0]} : requested'[n] = requested[n]
    BY <2>1, <2>2, PutType
  <2>4. \A n \in Message : n.retry = 3 => requested'[n] = 0
    BY <2>3 DEF TypeOK
  <2> QED
    BY <1>2, <2>3, <2>4 DEF Publish, TypeOK
<1>3. ASSUME NEW j \in Jobs, LockExpires(j) PROVE TypeOK'
  BY <1>3 DEF LockExpires, TypeOK
<1>4. ASSUME NEW j \in Jobs, LockExpiresEarly(j) PROVE TypeOK'
  BY <1>4, FaultType DEF LockExpiresEarly, TypeOK
<1>5. ASSUME NEW m \in Message, DelayOver(m) PROVE TypeOK'
  <2>1. parked' \in [Message -> Nat]
    BY <1>5 DEF DelayOver, TypeOK
  <2>2. m.retry # 3
    BY <1>5 DEF DelayOver, Delayed
  <2>3. requested' = Put(requested, m) /\ requested \in [Message -> Nat]
    BY <1>5 DEF DelayOver, TypeOK
  <2>4. /\ requested' \in [Message -> Nat]
        /\ \A n \in Message \ {m} : requested'[n] = requested[n]
    BY <2>3, PutType
  <2> QED
    BY <1>5, <2>1, <2>2, <2>4 DEF DelayOver, TypeOK
<1>6. ASSUME NEW w \in Workers, NEW m \in Message, Deliver(w, m) PROVE TypeOK'
  <2>1. requested' \in [Message -> Nat] /\ m.retry # 3
        /\ \A n \in Message : n.retry = 3 => requested'[n] = 0
    BY <1>6 DEF Deliver, TypeOK
  <2>2. msg' \in [Workers -> Message] /\ \A v \in Workers : msg'[v].retry # 3
    BY <1>6, <2>1 DEF Deliver, TypeOK
  <2>3. "check" \in PCs
    BY DEF PCs
  <2> QED
    BY <1>6, <2>1, <2>2, <2>3, GotoType DEF Deliver, TypeOK
<1>7. ASSUME NEW w \in Workers,
             CheckDone(w) \/ TakeLock(w) \/ Send(w) \/ Ack(w) \/ AckFailed(w)
      PROVE  TypeOK'
  <2>1. /\ pc' \in [Workers -> PCs]
        /\ \A v \in Workers \ {w} : pc'[v] = pc[v]
        /\ \/ adrift' = adrift /\ pc'[w] \notin {"idle", "stuck"}
           \/ adrift' = adrift \ {w}
    BY <1>7, GotoType, EndType
    DEF CheckDone, TakeLock, Send, Ack, AckFailed, PCs
  <2>2. lock' \in [Jobs -> Workers \cup {NoWorker}] /\ sends' \in [Jobs -> Nat]
    BY <1>1, <1>7 DEF CheckDone, TakeLock, Send, Ack, AckFailed, TypeOK
  <2> QED
    BY <1>7, <2>1, <2>2 DEF CheckDone, TakeLock, Send, Ack, AckFailed, TypeOK
<1>8. ASSUME NEW w \in Workers, Requeue(w) PROVE TypeOK'
  <2>1. CASE End(w) /\ Redeliver(w)
    BY <1>8, <2>1, EndType, RedeliverType DEF Requeue, TypeOK, QueuesOK
  <2>2. CASE Goto(w, "failed") /\ UNCHANGED <<adrift, requested>>
    BY <1>8, <2>2, GotoType DEF Requeue, TypeOK, PCs
  <2> QED
    BY <1>8, <2>1, <2>2 DEF Requeue
<1>9. ASSUME NEW w \in Workers, Mark(w) \/ FailureUnlock(w) PROVE TypeOK'
  <2>1. /\ pc' \in [Workers -> PCs]
        /\ \A v \in Workers \ {w} : pc'[v] = pc[v]
        /\ pc'[w] \notin {"idle", "stuck"}
    BY <1>9, GotoType DEF Mark, FailureUnlock, PCs
  <2>2. done' \subseteq Jobs
    BY <1>1, <1>9 DEF Mark, FailureUnlock, TypeOK
  <2> QED
    BY <1>9, <2>1, <2>2, UnlockType DEF Mark, FailureUnlock, TypeOK
<1>10. ASSUME NEW w \in Workers, Republish(w) PROVE TypeOK'
  <2>1. parked' \in [Message -> Nat]
    BY <1>10, RetryType, PutType DEF Republish, Parked, TypeOK
  <2> QED
    BY <1>10, <2>1, GotoType DEF Republish, TypeOK, PCs
<1>11. ASSUME NEW w \in Workers, Throw(w) PROVE TypeOK'
  <2>1. /\ pc' \in [Workers -> PCs]
        /\ \A v \in Workers \ {w} : pc'[v] = pc[v]
        /\ pc'[w] \notin {"idle", "stuck"}
    BY <1>11, GotoType DEF Throw, PCs
  <2>2. /\ done' \subseteq Jobs /\ sends' \in [Jobs -> Nat]
        /\ lock' \in [Jobs -> Workers \cup {NoWorker}] /\ stolen' \subseteq Jobs
    BY <1>1, <1>11, UnlockType DEF Throw, TypeOK
  <2> QED
    BY <1>11, <2>1, <2>2, FaultType DEF Throw, TypeOK
<1>12. ASSUME NEW w \in Workers, FailureThrows(w) PROVE TypeOK'
  <2>1. parked' = parked \/ parked' = Put(parked, Retry(msg[w]))
    BY <1>12 DEF FailureThrows, Parked
  <2>3. parked' \in [Message -> Nat]
    BY <2>1, RetryType, PutType DEF TypeOK
  <2>2. /\ pc' \in [Workers -> PCs]
        /\ \A v \in Workers \ {w} : pc'[v] = pc[v]
        /\ adrift' = adrift \ {w}
    BY <1>12, GotoType, EndType DEF FailureThrows, PCs
  <2> QED
    BY <1>12, <2>2, <2>3, FaultType DEF FailureThrows, TypeOK
<1>13. ASSUME NEW w \in Workers, Crash(w) PROVE TypeOK'
  BY <1>13, EndType, RedeliverType, FaultType DEF Crash, TypeOK, QueuesOK
<1>14. ASSUME NEW w \in Workers, Disconnect(w) PROVE TypeOK'
  <2>1. /\ pc' \in [Workers -> PCs]
        /\ adrift' \subseteq Workers
        /\ \A v \in adrift' : pc'[v] \notin {"idle", "stuck"}
    BY <1>14, EndType DEF Disconnect, TypeOK
  <2>2. QueuesOK' /\ faults' \in 0 .. MaxFaults
    BY <1>14, RedeliverType, FaultType DEF Disconnect
  <2> QED
    BY <1>14, <2>1, <2>2 DEF Disconnect, TypeOK, QueuesOK
<1>15. CASE UNCHANGED vars
  BY <1>15 DEF vars, TypeOK
<1> QED
  BY <1>2, <1>3, <1>4, <1>5, <1>6, <1>7, <1>8, <1>9, <1>10, <1>11, <1>12, <1>13, <1>14,
     <1>15
  DEF Next, Handler, Faulty

\* Every variable keeps its shape and no message exceeds its retries.
THEOREM TypeCorrect == Spec => []TypeOK
  BY TypeInit, TypeStep, PTL DEF Spec

-----------------------------------------------------------------------------
(* The inductive invariant. *)

\* Unless the lock key of j was taken away, whoever sends j holds it.
Held == \A j \in Jobs \ stolen : \A w \in Workers : Sending(w, j) => lock[j] = w

\* A copy of j that outlasts the ack of any handler about to acknowledge.
Kept(j) ==
    \/ j \in done
    \/ \E m \in Message : m.job = j /\ (requested[m] > 0 \/ parked[m] > 0)
    \/ \E w \in Workers : Carrying(w, j) /\ pc[w] # "ackfail"

\* What is queued, handled and done was published, sent before it was marked
\* and marked before it is acknowledged; nothing unretried is parked.
Tracked ==
    /\ done \subseteq published
    /\ \A m \in Message : m.retry = 0 => parked[m] = 0
    /\ \A m \in Message : requested[m] > 0 \/ parked[m] > 0 => m.job \in published
    /\ \A w \in Workers : pc[w] # "idle" => Job(w) \in published
    /\ \A w \in Workers : pc[w] = "mark" => sends[Job(w)] > 0
    /\ \A w \in Workers : pc[w] = "ack" => Job(w) \in done

IInv ==
    /\ TypeOK
    /\ Held
    /\ Tracked
    /\ \A j \in published : Kept(j)

LEMMA InitInvariant == Init => IInv
  BY TypeInit DEF Init, IInv, Held, Tracked, Sending

\* Unlocking leaves the lock key of every other sender, or counts as a theft.
LEMMA UnlockHeld ==
    ASSUME TypeOK, Held, NEW w \in Workers, Unlock(w), msg' = msg,
           pc'[w] \notin {"send", "mark"}, \A v \in Workers \ {w} : pc'[v] = pc[v]
    PROVE  Held'
<1> SUFFICES ASSUME NEW j \in Jobs \ stolen', NEW v \in Workers, Sending(v, j)'
             PROVE  lock'[j] = v
  BY DEF Held
<1>1. v # w /\ Sending(v, j) /\ j \notin stolen
  BY UnlockType DEF Sending, Job
<1>2. lock[j] = v
  BY <1>1 DEF Held
<1>3. CASE j # Job(w)
  BY <1>2, <1>3, UnlockType
<1>4. CASE j = Job(w)
  <2>1. Guarding(j)
    BY <1>1, <1>2 DEF Guarding
  <2>2. lock[j] # w
    BY <1>1, <1>2
  <2> QED
    BY <1>4, <2>1, <2>2, UnlockType
<1> QED
  BY <1>3, <1>4

\* A step that adds no sender and takes no lock key away.
LEMMA SameHeld ==
    ASSUME Held, lock' = lock, stolen' = stolen,
           \A w \in Workers : \A j \in Jobs : Sending(w, j)' => Sending(w, j)
    PROVE  Held'
  BY DEF Held

LEMMA HeldStep == IInv /\ [Next]_vars => Held'
<1> SUFFICES ASSUME IInv, [Next]_vars PROVE Held'
  OBVIOUS
<1> USE DEF broker, redis
<1>1. TypeOK /\ Held
  BY DEF IInv
<1>2. ASSUME NEW j \in Jobs, Publish(j) PROVE Held'
  BY <1>1, <1>2, SameHeld DEF Publish, Sending, Job
<1>3. ASSUME NEW j \in Jobs, LockExpires(j) PROVE Held'
  BY <1>1, <1>3 DEF LockExpires, Held, Sending, Job, Guarding, TypeOK
<1>4. ASSUME NEW j \in Jobs, LockExpiresEarly(j) PROVE Held'
  BY <1>1, <1>4 DEF LockExpiresEarly, Held, Sending, Job, TypeOK
<1>5. ASSUME NEW m \in Message, DelayOver(m) PROVE Held'
  BY <1>1, <1>5, SameHeld DEF DelayOver, Sending, Job
<1>6. ASSUME NEW w \in Workers, NEW m \in Message, Deliver(w, m) PROVE Held'
  <2>1. pc' \in [Workers -> PCs] /\ pc'[w] = "check"
        /\ \A v \in Workers \ {w} : pc'[v] = pc[v]
    BY <1>1, <1>6, GotoType DEF Deliver, PCs
  <2>2. \A v \in Workers \ {w} : msg'[v] = msg[v]
    BY <1>1, <1>6 DEF Deliver, TypeOK
  <2> QED
    BY <1>1, <1>6, <2>1, <2>2, SameHeld DEF Deliver, Sending, Job
<1>7. ASSUME NEW w \in Workers, TakeLock(w) PROVE Held'
  <2>1. pc'[w] = "send" /\ \A v \in Workers \ {w} : pc'[v] = pc[v]
    BY <1>1, <1>7, GotoType DEF TakeLock, PCs
  <2>2. lock[Job(w)] = NoWorker /\ lock' = [lock EXCEPT ![Job(w)] = w]
    BY <1>7 DEF TakeLock, Acquired
  <2> SUFFICES ASSUME NEW j \in Jobs \ stolen', NEW v \in Workers, Sending(v, j)'
               PROVE  lock'[j] = v
    BY DEF Held
  <2>3. msg' = msg /\ stolen' = stolen /\ lock \in [Jobs -> Workers \cup {NoWorker}]
    BY <1>1, <1>7 DEF TakeLock, TypeOK
  <2>4. CASE v = w
    BY <2>2, <2>3, <2>4 DEF Sending, Job
  <2>5. CASE v # w
    <3>1. lock[j] = v
      BY <1>1, <2>1, <2>3, <2>5 DEF Held, Sending, Job
    <3> QED
      BY <2>2, <2>3, <3>1, ConstantsAssumption
  <2> QED
    BY <2>4, <2>5
<1>8. ASSUME NEW w \in Workers, CheckDone(w) \/ Requeue(w) \/ Ack(w) \/ AckFailed(w)
      PROVE  Held'
  <2>1. pc'[w] \notin {"send", "mark"} /\ \A v \in Workers \ {w} : pc'[v] = pc[v]
    BY <1>1, <1>8, GotoType, EndType DEF CheckDone, Requeue, Ack, AckFailed, PCs
  <2>2. msg' = msg /\ lock' = lock /\ stolen' = stolen
    BY <1>8 DEF CheckDone, Requeue, Ack, AckFailed
  <2> QED
    BY <1>1, <2>1, <2>2, SameHeld DEF Sending, Job
<1>9. ASSUME NEW w \in Workers, Send(w) PROVE Held'
  <2>1. pc[w] = "send" /\ \A v \in Workers \ {w} : pc'[v] = pc[v]
    BY <1>1, <1>9, GotoType DEF Send, PCs
  <2> QED
    BY <1>1, <1>9, <2>1, SameHeld DEF Send, Sending, Job
<1>10. ASSUME NEW w \in Workers, Mark(w) \/ FailureUnlock(w) PROVE Held'
  <2>1. pc'[w] \notin {"send", "mark"} /\ \A v \in Workers \ {w} : pc'[v] = pc[v]
    BY <1>1, <1>10, GotoType DEF Mark, FailureUnlock, PCs
  <2>2. msg' = msg /\ Unlock(w)
    BY <1>10 DEF Mark, FailureUnlock
  <2> QED
    BY <1>1, <2>1, <2>2, UnlockHeld
<1>11. ASSUME NEW w \in Workers, Republish(w) PROVE Held'
  <2>1. pc'[w] = "ackfail" /\ \A v \in Workers \ {w} : pc'[v] = pc[v]
    BY <1>1, <1>11, GotoType DEF Republish, PCs
  <2> QED
    BY <1>1, <1>11, <2>1, SameHeld DEF Republish, Sending, Job
<1>12. ASSUME NEW w \in Workers, Throw(w) PROVE Held'
  <2>1. pc'[w] = "failed" /\ \A v \in Workers \ {w} : pc'[v] = pc[v]
    BY <1>1, <1>12, GotoType DEF Throw, PCs
  <2>2. CASE Unlock(w)
    BY <1>1, <1>12, <2>1, <2>2, UnlockHeld DEF Throw
  <2>3. CASE lock' = lock /\ stolen' = stolen
    BY <1>1, <1>12, <2>1, <2>3, SameHeld DEF Throw, Sending, Job
  <2> QED
    BY <1>12, <2>2, <2>3 DEF Throw
<1>13. ASSUME NEW w \in Workers, FailureThrows(w) \/ Crash(w) \/ Disconnect(w)
       PROVE  Held'
  <2>1. /\ pc'[w] \in {"idle", "stuck", pc[w]}
        /\ \A v \in Workers \ {w} : pc'[v] = pc[v]
    BY <1>1, <1>13, GotoType, EndType DEF FailureThrows, Crash, Disconnect, PCs
  <2>2. msg' = msg /\ lock' = lock /\ stolen' = stolen
    BY <1>13 DEF FailureThrows, Crash, Disconnect
  <2> QED
    BY <1>1, <2>1, <2>2, SameHeld DEF Sending, Job
<1>14. CASE UNCHANGED vars
  BY <1>1, <1>14, SameHeld DEF vars, Sending, Job
<1> QED
  BY <1>2, <1>3, <1>4, <1>5, <1>6, <1>7, <1>8, <1>9, <1>10, <1>11, <1>12, <1>13, <1>14
  DEF Next, Handler, Faulty

-----------------------------------------------------------------------------
(* What a step of one handler does to the copies of the jobs. *)

\* The step leaves every other handler alone.
OthersStay(w) ==
    \A v \in Workers \ {w} :
        pc'[v] = pc[v] /\ msg'[v] = msg[v] /\ (v \in adrift' <=> v \in adrift)

LEMMA HandlerStays ==
    ASSUME TypeOK, NEW w \in Workers, Handler(w) \/ Faulty(w)
    PROVE  /\ OthersStay(w)
           /\ msg' = msg
           /\ published' = published
           /\ pc[w] # "idle"
<1> USE DEF broker, redis
<1>1. CASE CheckDone(w) \/ TakeLock(w) \/ Send(w) \/ Mark(w) \/ Ack(w)
  BY <1>1, GotoType, EndType DEF CheckDone, TakeLock, Send, Mark, Ack, OthersStay, PCs
<1>2. CASE Requeue(w) \/ FailureUnlock(w) \/ Republish(w) \/ AckFailed(w)
  BY <1>2, GotoType, EndType
  DEF Requeue, FailureUnlock, Republish, AckFailed, OthersStay, PCs
<1>3. CASE Throw(w) \/ FailureThrows(w)
  BY <1>3, GotoType, EndType DEF Throw, FailureThrows, OthersStay, PCs
<1>4. CASE Crash(w) \/ Disconnect(w)
  BY <1>4, EndType DEF Crash, Disconnect, OthersStay
<1> QED
  BY <1>1, <1>2, <1>3, <1>4 DEF Handler, Faulty

\* A copy in a queue stays there, or the handler puts its own message back.
LEMMA QueuesKeep ==
    ASSUME TypeOK, NEW w \in Workers, Handler(w) \/ Faulty(w)
    PROVE  /\ \A m \in Message : requested[m] > 0 => requested'[m] > 0
           /\ \A m \in Message : parked[m] > 0 => parked'[m] > 0
           /\ \A m \in Message \ {msg[w]} : requested'[m] = requested[m]
           /\ \A m \in Message \ {Retry(msg[w])} : parked'[m] = parked[m]
<1> USE DEF broker, redis
<1>1. CASE CheckDone(w) \/ TakeLock(w) \/ Send(w) \/ Mark(w) \/ Ack(w)
           \/ FailureUnlock(w) \/ AckFailed(w) \/ Throw(w)
  BY <1>1 DEF CheckDone, TakeLock, Send, Mark, Ack, FailureUnlock, AckFailed, Throw
<1>2. CASE parked' = parked /\ (Redeliver(w) \/ UNCHANGED requested)
  BY <1>2, RedeliverType
<1>3. CASE requested' = requested
           /\ (parked' = parked \/ parked' = Put(parked, Retry(msg[w])))
  <2>1. parked \in [Message -> Nat]
    BY DEF TypeOK
  <2> QED
    BY <1>3, <2>1, PutType, RetryType
<1>4. CASE Requeue(w) \/ Crash(w) \/ Disconnect(w)
  BY <1>2, <1>4 DEF Requeue, Crash, Disconnect
<1>5. CASE Republish(w) \/ FailureThrows(w)
  BY <1>3, <1>5 DEF Republish, FailureThrows, Parked
<1> QED
  BY <1>1, <1>4, <1>5 DEF Handler, Faulty

\* What the step does to the job it works on.
LEMMA OwnJob ==
    ASSUME TypeOK, Tracked, NEW w \in Workers, Handler(w) \/ Faulty(w)
    PROVE  /\ done \subseteq done' /\ done' \subseteq done \cup {Job(w)}
           /\ \A j \in Jobs : sends[j] > 0 => sends'[j] > 0
           /\ \A j \in Jobs \ {Job(w)} : sends'[j] = sends[j]
           /\ pc'[w] = "mark" => sends'[Job(w)] > 0
           /\ pc'[w] = "ack" => Job(w) \in done'
<1> USE DEF broker, redis
<1>1. Job(w) \in Jobs /\ sends \in [Jobs -> Nat]
  BY DEF TypeOK, Job, Message
<1>2. CASE Send(w)
  <2>1. pc'[w] = "mark" /\ sends' = [sends EXCEPT ![Job(w)] = @ + 1] /\ done' = done
    BY <1>2, GotoType DEF Send, PCs
  <2> QED
    BY <1>1, <2>1
<1>3. CASE Throw(w)
  <2>1. pc'[w] = "failed"
    BY <1>3, GotoType DEF Throw, PCs
  <2> QED
    BY <1>1, <1>3, <2>1 DEF Throw
<1>4. CASE Mark(w)
  <2>1. pc'[w] = "ack" /\ done' = done \cup {Job(w)} /\ sends' = sends
    BY <1>4, GotoType DEF Mark, PCs
  <2> QED
    BY <2>1
<1>5. CASE CheckDone(w) \/ TakeLock(w) \/ Ack(w) \/ Requeue(w)
  <2>1. pc'[w] \in {"lock", "idle", "failed", "send"}
    BY <1>5, GotoType, EndType DEF CheckDone, TakeLock, Ack, Requeue, PCs
  <2> QED
    BY <1>5, <2>1 DEF CheckDone, TakeLock, Ack, Requeue
<1>6. CASE FailureUnlock(w) \/ Republish(w) \/ AckFailed(w)
  <2>1. pc'[w] \in {"republish", "ackfail", "idle"}
    BY <1>6, GotoType, EndType DEF FailureUnlock, Republish, AckFailed, PCs
  <2> QED
    BY <1>6, <2>1 DEF FailureUnlock, Republish, AckFailed
<1>7. CASE FailureThrows(w) \/ Crash(w) \/ Disconnect(w)
  <2>1. pc'[w] \in {"idle", "stuck", pc[w]}
    BY <1>7, GotoType, EndType DEF FailureThrows, Crash, Disconnect, PCs
  <2>2. done' = done /\ sends' = sends
    BY <1>7 DEF FailureThrows, Crash, Disconnect
  <2> QED
    BY <2>1, <2>2 DEF Tracked
<1> QED
  BY <1>2, <1>3, <1>4, <1>5, <1>6, <1>7 DEF Handler, Faulty

LEMMA TrackedStep == IInv /\ [Next]_vars => Tracked'
<1> SUFFICES ASSUME IInv, [Next]_vars PROVE Tracked'
  OBVIOUS
<1> USE DEF broker, redis
<1>1. TypeOK /\ Tracked
  BY DEF IInv
<1>2. \A w \in Workers : msg[w] \in Message /\ msg[w].retry # 3 /\ Job(w) \in Jobs
  BY <1>1 DEF TypeOK, Message, Job
<1>3. ASSUME NEW j \in Jobs, Publish(j) PROVE Tracked'
  <2>1. [job |-> j, retry |-> 0] \in Message
    BY DEF Message
  <2>2. /\ published' = published \cup {j}
        /\ requested' = Put(requested, [job |-> j, retry |-> 0])
        /\ requested \in [Message -> Nat]
    BY <1>1, <1>3 DEF Publish, TypeOK
  <2>3. \A n \in Message \ {[job |-> j, retry |-> 0]} : requested'[n] = requested[n]
    BY <2>1, <2>2, PutType
  <2>4. \A m \in Message : requested'[m] > 0 \/ parked'[m] > 0 => m.job \in published'
    BY <1>1, <1>3, <2>2, <2>3 DEF Publish, Tracked
  <2> QED
    BY <1>1, <1>3, <2>4 DEF Publish, Tracked, Job
<1>4. ASSUME NEW j \in Jobs, LockExpires(j) \/ LockExpiresEarly(j) PROVE Tracked'
  BY <1>1, <1>4 DEF LockExpires, LockExpiresEarly, Tracked, Job
<1>5. ASSUME NEW m \in Message, DelayOver(m) PROVE Tracked'
  <2>1. requested' = Put(requested, m) /\ requested \in [Message -> Nat]
    BY <1>1, <1>5 DEF DelayOver, TypeOK
  <2>2. \A n \in Message \ {m} : requested'[n] = requested[n]
    BY <2>1, PutType
  <2>3. /\ parked[m] > 0
        /\ \A n \in Message : parked'[n] > 0 => parked[n] > 0
        /\ \A n \in Message : n.retry = 0 => parked'[n] = 0
    BY <1>1, <1>5 DEF DelayOver, Delayed, TypeOK, Tracked
  <2>4. \A n \in Message : requested'[n] > 0 \/ parked'[n] > 0 => n.job \in published
    BY <1>1, <2>2, <2>3 DEF Tracked
  <2> QED
    BY <1>1, <1>5, <2>3, <2>4 DEF DelayOver, Tracked, Job
<1>6. ASSUME NEW w \in Workers, NEW m \in Message, Deliver(w, m) PROVE Tracked'
  <2>1. /\ pc'[w] = "check"
        /\ \A v \in Workers \ {w} : pc'[v] = pc[v] /\ msg'[v] = msg[v]
    BY <1>1, <1>6, GotoType DEF Deliver, TypeOK, PCs
  <2>2. msg'[w] = m /\ m.job \in published
    BY <1>1, <1>6 DEF Deliver, TypeOK, Tracked
  <2>3. \A n \in Message : requested'[n] > 0 => requested[n] > 0
    BY <1>1, <1>6 DEF Deliver, TypeOK
  <2>4. published' = published /\ parked' = parked /\ done' = done /\ sends' = sends
    BY <1>6 DEF Deliver
  <2>5. \A v \in Workers : /\ pc'[v] # "idle" => msg'[v].job \in published
                           /\ pc'[v] = "mark" => sends[msg'[v].job] > 0
                           /\ pc'[v] = "ack" => msg'[v].job \in done
    BY <1>1, <2>1, <2>2 DEF Tracked, Job
  <2> QED
    BY <1>1, <2>3, <2>4, <2>5 DEF Tracked, Job
<1>7. ASSUME NEW w \in Workers, Handler(w) \/ Faulty(w) PROVE Tracked'
  <2>1. OthersStay(w) /\ msg' = msg /\ published' = published /\ pc[w] # "idle"
    BY <1>1, <1>7, HandlerStays
  <2>2. Job(w) \in published
    BY <1>1, <2>1 DEF Tracked
  <2>3. done' \subseteq published
    BY <1>1, <1>7, <2>2, OwnJob DEF Tracked
  <2>4. Retry(msg[w]) \in Message /\ Retry(msg[w]).job = Job(w) /\ Retry(msg[w]).retry # 0
    BY <1>1, <1>2, RetryType DEF Retry, Message
  <2>5. /\ \A m \in Message \ {msg[w]} : requested'[m] = requested[m]
        /\ \A m \in Message \ {Retry(msg[w])} : parked'[m] = parked[m]
    BY <1>1, <1>7, QueuesKeep
  <2>6. \A m \in Message : m.retry = 0 => parked'[m] = 0
    BY <1>1, <2>4, <2>5 DEF Tracked
  <2>7. \A m \in Message : requested'[m] > 0 \/ parked'[m] > 0 => m.job \in published
    BY <1>1, <2>2, <2>4, <2>5 DEF Tracked, Job
  <2>8. \A v \in Workers : pc'[v] # "idle" => Job(v) \in published
    BY <1>1, <2>1, <2>2 DEF Tracked, OthersStay
  <2>9. \A v \in Workers : /\ pc'[v] = "mark" => sends'[Job(v)] > 0
                           /\ pc'[v] = "ack" => Job(v) \in done'
    <3>1. /\ done \subseteq done'
          /\ \A j \in Jobs : sends[j] > 0 => sends'[j] > 0
          /\ pc'[w] = "mark" => sends'[Job(w)] > 0
          /\ pc'[w] = "ack" => Job(w) \in done'
      BY <1>1, <1>7, OwnJob
    <3> QED
      BY <1>1, <1>2, <2>1, <3>1 DEF Tracked, OthersStay
  <2> QED
    BY <2>1, <2>3, <2>6, <2>7, <2>8, <2>9 DEF Tracked, Job
<1>8. CASE UNCHANGED vars
  BY <1>1, <1>8 DEF vars, Tracked, Job
<1> QED
  BY <1>3, <1>4, <1>5, <1>6, <1>7, <1>8 DEF Next

\* If the handler w gives its message up, another copy is left or the job is done.
LEMMA OwnCopy ==
    ASSUME IInv, NEW w \in Workers, Handler(w) \/ Faulty(w),
           pc[w] # "ackfail", w \notin adrift
    PROVE  Kept(Job(w))'
<1> USE DEF broker, redis
<1>1. TypeOK /\ Tracked /\ Job(w) \in Jobs /\ msg[w] \in Message
  BY DEF IInv, TypeOK, Job, Message
<1>2. msg' = msg
  BY <1>1, HandlerStays
<1>3. CASE pc'[w] \notin {"idle", "ackfail"} /\ w \notin adrift'
  BY <1>2, <1>3 DEF Kept, Carrying, Job
<1>4. CASE Redeliver(w) /\ parked' = parked
  <2>1. requested'[msg[w]] > 0
    BY <1>1, <1>4, RedeliverType
  <2> QED
    BY <1>1, <1>2, <2>1 DEF Kept, Job
<1>5. CASE Job(w) \in done /\ done' = done
  BY <1>2, <1>5 DEF Kept, Job
<1>6. CASE CheckDone(w)
  <2>1. CASE Skip(w)
    BY <1>5, <1>6, <2>1 DEF CheckDone, Skip
  <2>2. CASE ~Skip(w)
    BY <1>1, <1>3, <1>6, <2>2, GotoType DEF CheckDone, PCs
  <2> QED
    BY <2>1, <2>2
<1>7. CASE TakeLock(w) \/ Send(w) \/ Mark(w) \/ FailureUnlock(w) \/ Throw(w)
  <2>1. pc'[w] \in {"send", "mark", "ack", "republish", "failed"}
    BY <1>1, <1>7, GotoType DEF TakeLock, Send, Mark, FailureUnlock, Throw, PCs
  <2> QED
    BY <1>3, <1>7, <2>1 DEF TakeLock, Send, Mark, FailureUnlock, Throw
<1>8. CASE Requeue(w) \/ Crash(w) \/ Disconnect(w)
  BY <1>4, <1>8 DEF Requeue, Crash, Disconnect
<1>9. CASE Ack(w)
  BY <1>1, <1>5, <1>9 DEF Ack, Tracked
<1>10. CASE Republish(w)
  <2>1. parked' = Put(parked, Retry(msg[w])) /\ parked \in [Message -> Nat]
    BY <1>1, <1>10 DEF Republish, Parked, TypeOK
  <2>2. Retry(msg[w]) \in Message /\ Retry(msg[w]).job = Job(w)
    BY <1>1, RetryType
  <2>3. parked'[Retry(msg[w])] > 0
    BY <2>1, <2>2, PutType
  <2> QED
    BY <1>2, <2>2, <2>3 DEF Kept, Job
<1>11. CASE FailureThrows(w)
  BY <1>1, <1>3, <1>11, GotoType DEF FailureThrows, PCs
<1> QED
  BY <1>6, <1>7, <1>8, <1>9, <1>10, <1>11 DEF Handler, Faulty, AckFailed

LEMMA KeptStep == IInv /\ [Next]_vars => (\A j \in published : Kept(j))'
<1> SUFFICES ASSUME IInv, [Next]_vars, NEW j \in published' PROVE Kept(j)'
  OBVIOUS
<1> USE DEF broker, redis
<1>1. TypeOK /\ Tracked /\ (j \in published => Kept(j))
  BY DEF IInv
<1>2. ASSUME NEW k \in Jobs, Publish(k) PROVE Kept(j)'
  <2>1. [job |-> k, retry |-> 0] \in Message
    BY DEF Message
  <2>2. /\ requested' = Put(requested, [job |-> k, retry |-> 0])
        /\ requested \in [Message -> Nat]
    BY <1>1, <1>2 DEF Publish, TypeOK
  <2>3. /\ requested'[[job |-> k, retry |-> 0]] > 0
        /\ \A m \in Message : requested[m] > 0 => requested'[m] > 0
    BY <2>1, <2>2, PutType
  <2>4. CASE j = k
    BY <2>1, <2>3, <2>4 DEF Kept
  <2>5. CASE j # k
    BY <1>1, <1>2, <2>3, <2>5 DEF Publish, Kept, Carrying, Job
  <2> QED
    BY <2>4, <2>5
<1>3. ASSUME NEW k \in Jobs, LockExpires(k) \/ LockExpiresEarly(k) PROVE Kept(j)'
  BY <1>1, <1>3 DEF LockExpires, LockExpiresEarly, Kept, Carrying, Job
<1>4. ASSUME NEW m \in Message, DelayOver(m) PROVE Kept(j)'
  <2>1. requested' = Put(requested, m) /\ requested \in [Message -> Nat]
    BY <1>1, <1>4 DEF DelayOver, TypeOK
  <2>2. requested'[m] > 0 /\ \A n \in Message : requested[n] > 0 => requested'[n] > 0
    BY <2>1, PutType
  <2>3. \A n \in Message \ {m} : parked'[n] = parked[n]
    BY <1>1, <1>4 DEF DelayOver, TypeOK
  <2> QED
    BY <1>1, <1>4, <2>2, <2>3 DEF DelayOver, Kept, Carrying, Job
<1>5. ASSUME NEW w \in Workers, NEW m \in Message, Deliver(w, m) PROVE Kept(j)'
  <2>1. /\ pc'[w] = "check" /\ msg'[w] = m /\ w \notin adrift'
        /\ \A v \in Workers \ {w} : pc'[v] = pc[v] /\ msg'[v] = msg[v]
    BY <1>1, <1>5, GotoType DEF Deliver, TypeOK, PCs
  <2>2. \A n \in Message \ {m} : requested'[n] = requested[n]
    BY <1>1, <1>5 DEF Deliver, TypeOK
  <2>3. CASE j = m.job
    BY <2>1, <2>3 DEF Kept, Carrying, Job
  <2>4. CASE j # m.job
    <3>1. \A v \in Workers \ {w} : Carrying(v, j) => Carrying(v, j)'
      BY <1>5, <2>1 DEF Deliver, Carrying, Job
    <3> QED
      BY <1>1, <1>5, <2>1, <2>2, <2>4, <3>1 DEF Deliver, Kept, Carrying
  <2> QED
    BY <2>3, <2>4
<1>6. ASSUME NEW w \in Workers, Handler(w) \/ Faulty(w) PROVE Kept(j)'
  <2>1. OthersStay(w) /\ msg' = msg /\ published' = published
    BY <1>1, <1>6, HandlerStays
  <2>2. CASE j \in done
    BY <1>1, <1>6, <2>2, OwnJob DEF Kept
  <2>3. CASE \E m \in Message : m.job = j /\ (requested[m] > 0 \/ parked[m] > 0)
    BY <1>1, <1>6, <2>3, QueuesKeep DEF Kept
  <2>4. ASSUME NEW v \in Workers, Carrying(v, j), pc[v] # "ackfail" PROVE Kept(j)'
    <3>1. CASE v = w
      <4>1. Kept(Job(w))' /\ Job(w) = j /\ Job(w)' = Job(w)
        BY <1>6, <2>1, <2>4, <3>1, OwnCopy DEF Carrying, Job
      <4> QED
        BY <4>1
    <3>2. CASE v # w
      BY <2>1, <2>4, <3>2 DEF OthersStay, Kept, Carrying, Job
    <3> QED
      BY <3>1, <3>2
  <2> QED
    BY <1>1, <2>1, <2>2, <2>3, <2>4 DEF Kept
<1>7. CASE UNCHANGED vars
  BY <1>1, <1>7 DEF vars, Kept, Carrying, Job
<1> QED
  BY <1>2, <1>3, <1>4, <1>5, <1>6, <1>7 DEF Next

LEMMA StepInvariant == IInv /\ [Next]_vars => IInv'
  BY TypeStep, HeldStep, TrackedStep, KeptStep DEF IInv

THEOREM Invariant == Spec => []IInv
  BY InitInvariant, StepInvariant, PTL DEF Spec

-----------------------------------------------------------------------------
(* What the invariant says of the jobs. *)

\* The lock admits one sender of a job unless its key was taken away.
THEOREM SendsAlone == Spec => []SingleSender
<1>1. IInv => SingleSender
  BY DEF IInv, Held, SingleSender
<1> QED
  BY <1>1, Invariant, PTL

LEMMA KeptIsNotLost ==
    ASSUME IInv, NEW j \in published
    PROVE  j \in done \/ Waiting(j) \/ Dead(j)
<1>1. Kept(j) /\ TypeOK /\ Tracked
  BY DEF IInv
<1>2. ASSUME NEW m \in Message, m.job = j, requested[m] > 0 \/ parked[m] > 0
      PROVE  Waiting(j) \/ Dead(j)
  <2>1. m.retry \in {0, 1, 2, 3}
    BY DEF Message
  <2>2. m.retry # 0 \/ requested[m] > 0
    BY <1>1, <1>2 DEF Tracked
  <2> QED
    BY <1>2, <2>1, <2>2 DEF Waiting, Dead, Delayed
<1> QED
  BY <1>1, <1>2 DEF Kept, Waiting

\* No crash, closed channel or error loses a published job.
THEOREM NothingIsLost == Spec => []NoLoss
<1>1. IInv => NoLoss
  BY KeptIsNotLost DEF NoLoss
<1> QED
  BY <1>1, Invariant, PTL

-----------------------------------------------------------------------------
(* The workers implement JobPromise. *)

\* Under the invariant no job is lost, and its phase tells where it is.
PhasesOK ==
    \A j \in Jobs :
        /\ phase[j] = "new" <=> j \notin published
        /\ phase[j] = "sent" <=> j \in done
        /\ phase[j] \in {"new", "sent", "waiting", "dead"}
        /\ j \in published /\ j \notin done /\ Waiting(j) => phase[j] = "waiting"

LEMMA PhasesNow == IInv => PhasesOK
<1> SUFFICES ASSUME IInv, NEW j \in Jobs
             PROVE  /\ phase[j] = "new" <=> j \notin published
                    /\ phase[j] = "sent" <=> j \in done
                    /\ phase[j] \in {"new", "sent", "waiting", "dead"}
                    /\ j \in published /\ j \notin done /\ Waiting(j) => phase[j] = "waiting"
  BY DEF PhasesOK
<1>1. done \subseteq published
  BY DEF IInv, Tracked
<1>2. j \in published => j \in done \/ Waiting(j) \/ Dead(j)
  BY KeptIsNotLost
<1> QED
  BY <1>1, <1>2, Zenon DEF phase

LEMMA PhasesNext == IInv' => PhasesOK'
  BY PhasesNow, PTL

\* The step works on job j: it leaves the copies of the other jobs alone.
Only(j) ==
    /\ \A m \in Message : m.job # j => requested'[m] = requested[m] /\ parked'[m] = parked[m]
    /\ \A w \in Workers : \A k \in Jobs \ {j} : Carrying(w, k)' <=> Carrying(w, k)

LEMMA OthersKeepPhase ==
    ASSUME NEW j \in Jobs, NEW k \in Jobs \ {j}, Only(j),
           k \in published' <=> k \in published, k \in done' <=> k \in done
    PROVE  phase'[k] = phase[k]
<1>1. Waiting(k)' <=> Waiting(k)
  BY DEF Only, Waiting, Delayed
<1>2. Dead(k)' <=> Dead(k)
  BY DEF Only, Dead
<1> QED
  BY <1>1, <1>2 DEF phase

LEMMA HandlerOnly ==
    ASSUME IInv, NEW w \in Workers, Handler(w) \/ Faulty(w)
    PROVE  Only(Job(w))
<1>1. TypeOK
  BY DEF IInv
<1>2. OthersStay(w) /\ msg' = msg
  BY <1>1, HandlerStays
<1>3. /\ \A m \in Message \ {msg[w]} : requested'[m] = requested[m]
      /\ \A m \in Message \ {Retry(msg[w])} : parked'[m] = parked[m]
      /\ Retry(msg[w]).job = Job(w)
  BY <1>1, QueuesKeep, RetryType
<1> QED
  BY <1>2, <1>3 DEF Only, OthersStay, Carrying, Job

LEMMA PhaseMoves ==
    ASSUME NEW j \in Jobs, \A k \in Jobs \ {j} : phase'[k] = phase[k]
    PROVE  phase' = [phase EXCEPT ![j] = phase'[j]]
<1>1. phase' = [k \in Jobs |-> phase'[k]] /\ phase = [k \in Jobs |-> phase[k]]
  BY Zenon DEF phase
<1> HIDE DEF phase
<1> QED
  BY <1>1

\* A step that works on one job and neither sends nor records it.
LEMMA PlainStep ==
    ASSUME IInv, IInv', NEW j \in Jobs, Only(j), published' = published, done' = done,
           sends' = sends
    PROVE  [Promise!Next]_(Promise!promise)
<1>1. \A k \in Jobs \ {j} : phase'[k] = phase[k]
  BY OthersKeepPhase
<1>2. phase' = [phase EXCEPT ![j] = phase'[j]]
  BY <1>1, PhaseMoves
<1>3. \/ phase'[j] = phase[j]
      \/ phase[j] = "waiting" /\ phase'[j] = "dead"
      \/ phase[j] = "dead" /\ phase'[j] = "waiting"
  <2>1. /\ phase[j] = "new" <=> j \notin published
        /\ phase[j] = "sent" <=> j \in done
        /\ phase[j] \in {"new", "sent", "waiting", "dead"}
    BY PhasesNow DEF PhasesOK
  <2>2. /\ phase'[j] = "new" <=> j \notin published
        /\ phase'[j] = "sent" <=> j \in done
        /\ phase'[j] \in {"new", "sent", "waiting", "dead"}
    BY PhasesNext DEF PhasesOK
  <2> HIDE DEF phase
  <2> QED
    BY <2>1, <2>2
<1>4. phase = [k \in Jobs |-> phase[k]]
  BY Zenon DEF phase
<1> HIDE DEF phase
<1>5. CASE phase'[j] = phase[j]
  <2>1. phase' = phase
    BY <1>2, <1>4, <1>5
  <2> QED
    BY <2>1 DEF Promise!promise
<1>6. CASE phase[j] = "waiting" /\ phase'[j] = "dead"
  <2>1. Promise!GiveUp(j)
    BY <1>2, <1>6 DEF Promise!GiveUp, Promise!Move
  <2> QED
    BY <2>1 DEF Promise!Next
<1>7. CASE phase[j] = "dead" /\ phase'[j] = "waiting"
  <2>1. Promise!Revive(j)
    BY <1>2, <1>7 DEF Promise!Revive, Promise!Move
  <2> QED
    BY <2>1 DEF Promise!Next
<1> QED
  BY <1>3, <1>5, <1>6, <1>7

\* A step that records job j as sent.
LEMMA RecordStep ==
    ASSUME IInv, IInv', NEW j \in Jobs, Only(j), published' = published,
           done' = done \cup {j}, sends' = sends, j \in published, sends[j] > 0
    PROVE  [Promise!Next]_(Promise!promise)
<1>1. \A k \in Jobs \ {j} : phase'[k] = phase[k]
  BY OthersKeepPhase
<1>2. phase' = [phase EXCEPT ![j] = phase'[j]]
  BY <1>1, PhaseMoves
<1>3. phase'[j] = "sent" /\ phase[j] \in {"sent", "waiting", "dead"}
  BY PhasesNow, PhasesNext DEF PhasesOK
<1>4. phase = [k \in Jobs |-> phase[k]]
  BY Zenon DEF phase
<1> HIDE DEF phase
<1>5. CASE phase[j] = "sent"
  <2>1. phase' = phase
    BY <1>2, <1>3, <1>4, <1>5
  <2> QED
    BY <2>1 DEF Promise!promise
<1>6. CASE phase[j] \in {"waiting", "dead"}
  <2>1. Promise!Record(j)
    BY <1>2, <1>3, <1>6 DEF Promise!Record, Promise!Move
  <2> QED
    BY <2>1 DEF Promise!Next
<1> QED
  BY <1>3, <1>5, <1>6

\* A step that sends job j and moves nothing.
LEMMA SendStep ==
    ASSUME IInv, IInv', NEW j \in Jobs, Only(j), published' = published, done' = done,
           Waiting(j)' <=> Waiting(j), Dead(j)' <=> Dead(j), j \in published,
           sends' = [sends EXCEPT ![j] = @ + 1]
    PROVE  [Promise!Next]_(Promise!promise)
<1>1. \A k \in Jobs : phase'[k] = phase[k]
  <2>1. \A k \in Jobs \ {j} : phase'[k] = phase[k]
    BY OthersKeepPhase
  <2>2. phase'[j] = phase[j]
    BY DEF phase
  <2> QED
    BY <2>1, <2>2
<1>2. phase' = phase
  <2>1. phase' = [k \in Jobs |-> phase'[k]] /\ phase = [k \in Jobs |-> phase[k]]
    BY Zenon DEF phase
  <2> HIDE DEF phase
  <2> QED
    BY <1>1, <2>1
<1>3. phase[j] # "new"
  BY PhasesNow DEF PhasesOK
<1> HIDE DEF phase
<1>4. Promise!Send(j)
  BY <1>2, <1>3 DEF Promise!Send
<1> QED
  BY <1>4 DEF Promise!Next

LEMMA PromiseStep == IInv /\ IInv' /\ [Next]_vars => [Promise!Next]_(Promise!promise)
<1> SUFFICES ASSUME IInv, IInv', [Next]_vars PROVE [Promise!Next]_(Promise!promise)
  OBVIOUS
<1> USE DEF broker, redis
<1>1. TypeOK /\ Tracked
  BY DEF IInv
<1>2. \A w \in Workers : Job(w) \in Jobs /\ msg[w] \in Message
  BY <1>1 DEF TypeOK, Job, Message
<1>3. ASSUME NEW j \in Jobs, Publish(j) PROVE [Promise!Next]_(Promise!promise)
  <2>1. [job |-> j, retry |-> 0] \in Message
    BY DEF Message
  <2>2. /\ requested' = Put(requested, [job |-> j, retry |-> 0])
        /\ requested \in [Message -> Nat]
    BY <1>1, <1>3 DEF Publish, TypeOK
  <2>3. /\ requested'[[job |-> j, retry |-> 0]] > 0
        /\ \A m \in Message \ {[job |-> j, retry |-> 0]} : requested'[m] = requested[m]
    BY <2>1, <2>2, PutType
  <2>4. Only(j)
    BY <1>3, <2>3 DEF Publish, Only, Carrying, Job
  <2>5. \A k \in Jobs \ {j} : phase'[k] = phase[k]
    BY <1>3, <2>4, OthersKeepPhase DEF Publish
  <2>6. phase' = [phase EXCEPT ![j] = phase'[j]]
    BY <2>5, PhaseMoves
  <2>7. phase[j] = "new" /\ phase'[j] = "waiting"
    <3>1. Waiting(j)'
      BY <2>1, <2>3 DEF Waiting
    <3>2. j \notin done' /\ j \in published'
      BY <1>1, <1>3 DEF Publish, Tracked
    <3> QED
      BY <1>3, <3>1, <3>2, PhasesNow, PhasesNext DEF PhasesOK, Publish
  <2> HIDE DEF phase
  <2>8. Promise!Accept(j)
    BY <1>3, <2>6, <2>7 DEF Publish, Promise!Accept, Promise!Move
  <2> QED
    BY <2>8 DEF Promise!Next
<1>4. ASSUME NEW j \in Jobs, LockExpires(j) \/ LockExpiresEarly(j)
      PROVE  [Promise!Next]_(Promise!promise)
  <2>1. Only(j) /\ published' = published /\ done' = done /\ sends' = sends
    BY <1>4 DEF LockExpires, LockExpiresEarly, Only, Carrying, Job
  <2> QED
    BY <2>1, PlainStep
<1>5. ASSUME NEW m \in Message, DelayOver(m) PROVE [Promise!Next]_(Promise!promise)
  <2>1. requested' = Put(requested, m) /\ requested \in [Message -> Nat]
    BY <1>1, <1>5 DEF DelayOver, TypeOK
  <2>2. \A n \in Message \ {m} : requested'[n] = requested[n] /\ parked'[n] = parked[n]
    BY <1>1, <1>5, <2>1, PutType DEF DelayOver, TypeOK
  <2>3. Only(m.job) /\ m.job \in Jobs
    BY <1>5, <2>2 DEF DelayOver, Only, Carrying, Job, Message
  <2> QED
    BY <1>5, <2>3, PlainStep DEF DelayOver
<1>6. ASSUME NEW w \in Workers, NEW m \in Message, Deliver(w, m)
      PROVE  [Promise!Next]_(Promise!promise)
  <2>1. /\ pc[w] = "idle" /\ pc'[w] = "check" /\ msg'[w] = m
        /\ \A v \in Workers \ {w} : pc'[v] = pc[v] /\ msg'[v] = msg[v]
    BY <1>1, <1>6, GotoType DEF Deliver, TypeOK, PCs
  <2>2. \A n \in Message \ {m} : requested'[n] = requested[n]
    BY <1>1, <1>6 DEF Deliver, TypeOK
  <2>3. Only(m.job) /\ m.job \in Jobs
    BY <1>6, <2>1, <2>2 DEF Deliver, Only, Carrying, Job, Message
  <2> QED
    BY <1>6, <2>3, PlainStep DEF Deliver
<1>7. ASSUME NEW w \in Workers, Handler(w) \/ Faulty(w)
      PROVE  [Promise!Next]_(Promise!promise)
  <2>1. /\ Only(Job(w)) /\ Job(w) \in Jobs /\ Job(w) \in published
        /\ published' = published /\ msg' = msg /\ OthersStay(w)
    BY <1>1, <1>2, <1>7, HandlerOnly, HandlerStays DEF Tracked
  <2>2. CASE done' = done /\ sends' = sends
    BY <2>1, <2>2, PlainStep
  <2>3. CASE /\ pc[w] = "send" /\ pc'[w] # "idle" /\ done' = done
             /\ adrift' = adrift /\ requested' = requested /\ parked' = parked
             /\ sends' = [sends EXCEPT ![Job(w)] = @ + 1]
    <3>1. \A j \in Jobs : Waiting(j)' <=> Waiting(j)
      BY <2>1, <2>3 DEF Waiting, Carrying, OthersStay, Job, Delayed
    <3>2. \A j \in Jobs : Dead(j)' <=> Dead(j)
      BY <2>3 DEF Dead
    <3> QED
      BY <2>1, <2>3, <3>1, <3>2, SendStep
  <2>4. CASE pc[w] = "mark" /\ done' = done \cup {Job(w)} /\ sends' = sends
    BY <1>1, <2>1, <2>4, RecordStep DEF Tracked
  <2>5. CASE Send(w)
    BY <1>1, <2>3, <2>5, GotoType DEF Send, PCs
  <2>6. CASE Mark(w)
    BY <2>4, <2>6 DEF Mark
  <2>7. CASE Throw(w)
    <3>1. pc'[w] # "idle" /\ adrift' = adrift /\ requested' = requested /\ parked' = parked
      BY <1>1, <2>7, GotoType DEF Throw, PCs
    <3> QED
      BY <2>2, <2>3, <2>4, <2>7, <3>1 DEF Throw
  <2>8. CASE CheckDone(w) \/ TakeLock(w) \/ Requeue(w) \/ Ack(w) \/ FailureUnlock(w)
             \/ Republish(w) \/ AckFailed(w)
    BY <2>2, <2>8 DEF CheckDone, TakeLock, Requeue, Ack, FailureUnlock, Republish, AckFailed
  <2>9. CASE FailureThrows(w) \/ Crash(w) \/ Disconnect(w)
    BY <2>2, <2>9 DEF FailureThrows, Crash, Disconnect
  <2> QED
    BY <1>7, <2>5, <2>6, <2>7, <2>8, <2>9 DEF Handler, Faulty
<1>8. CASE UNCHANGED vars
  <2>1. phase' = phase
    BY <1>8 DEF vars, phase, Waiting, Dead, Delayed, Carrying, Job
  <2> HIDE DEF phase
  <2> QED
    BY <1>8, <2>1 DEF vars, Promise!promise
<1> QED
  BY <1>3, <1>4, <1>5, <1>6, <1>7, <1>8 DEF Next

\* The workers keep what JobPromise promises the publisher of a job.
THEOREM WorkersKeepPromise == Spec => PromiseSpec
<1>1. Init => Promise!Init
  BY DEF Init, phase, Promise!Init
<1> QED
  BY <1>1, PromiseStep, Invariant, PTL DEF Spec, PromiseSpec, Promise!Spec

-----------------------------------------------------------------------------
(* How often a job can still be sent.  The sends of a job and the chances   *)
(* it has left (copies in a queue, handlers before the delivery, handlers   *)
(* that may put their message back) together grow only with a fault: a      *)
(* retry or a requeue gives one chance up for another, and from the done    *)
(* marker on only handlers past the check of the done key have one.         *)

\* The handler w has yet to send job j, or to make somebody else send it.
MaySend(w, j) ==
    /\ Job(w) = j
    /\ pc[w] \in IF j \in done THEN {"lock", "send"}
                 ELSE {"check", "lock", "send", "failed", "republish", "stuck"}

Senders(j) == {w \in Workers : MaySend(w, j)}

\* The copies of j in a queue.
Copies(queue, j) ==
    queue[[job |-> j, retry |-> 0]] + queue[[job |-> j, retry |-> 1]]
    + queue[[job |-> j, retry |-> 2]] + queue[[job |-> j, retry |-> 3]]

Chances(j) ==
    (IF j \in done THEN 0 ELSE Copies(requested, j) + Copies(parked, j))
    + Cardinality(Senders(j))

Allowed(j) == IF j \in published THEN 1 + faults ELSE 0

Budget(j) == IsFiniteSet(Senders(j)) /\ sends[j] + Chances(j) <= Allowed(j)

BudgetInv == IInv /\ \A j \in Jobs : Budget(j)

LEMMA CopiesType ==
    ASSUME NEW queue \in [Message -> Nat], NEW j \in Jobs
    PROVE  Copies(queue, j) \in Nat
<1>1. \A r \in 0 .. 3 : queue[[job |-> j, retry |-> r]] \in Nat
  BY DEF Message
<1> QED
  BY <1>1 DEF Copies

\* Changing the number of one message changes the copies of its job alone.
LEMMA CopiesChange ==
    ASSUME NEW queue \in [Message -> Nat], NEW m \in Message, NEW n \in Nat, NEW j \in Jobs
    PROVE  Copies([queue EXCEPT ![m] = n], j) =
               IF m.job = j THEN Copies(queue, j) - queue[m] + n ELSE Copies(queue, j)
<1> DEFINE M(r) == [job |-> j, retry |-> r]
           q == [queue EXCEPT ![m] = n]
<1>1. \A r \in 0 .. 3 : M(r) \in Message /\ queue[M(r)] \in Nat
  BY DEF Message
<1>2. \A r \in 0 .. 3 : q[M(r)] = IF M(r) = m THEN n ELSE queue[M(r)]
  BY <1>1
<1>3. CASE m.job = j
  <2>1. PICK r \in 0 .. 3 : m = M(r)
    BY <1>3 DEF Message
  <2>2. \A s \in 0 .. 3 : M(s) = m <=> s = r
    BY <2>1
  <2>3. \A s \in 0 .. 3 : q[M(s)] = IF s = r THEN n ELSE queue[M(s)]
    BY <1>2, <2>2
  <2>4. queue[m] = queue[M(r)] /\ queue[m] \in Nat
    BY <2>1
  <2>5. /\ Copies(q, j) = q[M(0)] + q[M(1)] + q[M(2)] + q[M(3)]
        /\ Copies(queue, j) = queue[M(0)] + queue[M(1)] + queue[M(2)] + queue[M(3)]
    BY DEF Copies
  <2> HIDE DEF M, q
  <2>6. r = 0 \/ r = 1 \/ r = 2 \/ r = 3
    OBVIOUS
  <2>7. Copies(q, j) = Copies(queue, j) - queue[m] + n
    BY <1>1, <2>3, <2>4, <2>5, <2>6
  <2> QED
    BY <1>3, <2>7 DEF q
<1>4. CASE m.job # j
  <2>1. \A r \in 0 .. 3 : M(r) # m
    BY <1>4
  <2>2. \A r \in 0 .. 3 : q[M(r)] = queue[M(r)]
    BY <1>2, <2>1
  <2>3. Copies(q, j) = Copies(queue, j)
    BY <2>2 DEF Copies
  <2> QED
    BY <1>4, <2>3
<1> QED
  BY <1>3, <1>4

LEMMA CopiesPut ==
    ASSUME NEW queue \in [Message -> Nat], NEW m \in Message, NEW j \in Jobs
    PROVE  Copies(Put(queue, m), j) =
               IF m.job = j THEN Copies(queue, j) + 1 ELSE Copies(queue, j)
<1>1. queue[m] + 1 \in Nat /\ Put(queue, m) = [queue EXCEPT ![m] = queue[m] + 1]
  BY DEF Put
<1>2. PICK n \in Nat : n = queue[m] + 1
  BY <1>1
<1>3. Copies([queue EXCEPT ![m] = n], j) =
          IF m.job = j THEN Copies(queue, j) - queue[m] + n ELSE Copies(queue, j)
  BY CopiesChange
<1>4. Copies(queue, j) \in Nat /\ queue[m] \in Nat
  BY CopiesType
<1> QED
  BY <1>1, <1>2, <1>3, <1>4

\* One handler moving changes the handlers that may send j by at most itself.
LEMMA SendersMove ==
    ASSUME NEW w \in Workers, NEW j \in Jobs, IsFiniteSet(Senders(j)), done \subseteq done',
           \A v \in Workers \ {w} : pc'[v] = pc[v] /\ msg'[v] = msg[v]
    PROVE  /\ IsFiniteSet(Senders(j)')
           /\ Cardinality(Senders(j)) \in Nat
           /\ Cardinality(Senders(j)') \in Nat
           /\ Cardinality(Senders(j)') <= Cardinality(Senders(j)) + 1
           /\ MaySend(w, j) \/ ~MaySend(w, j)' =>
                  Cardinality(Senders(j)') <= Cardinality(Senders(j))
           /\ MaySend(w, j) /\ ~MaySend(w, j)' =>
                  Cardinality(Senders(j)') <= Cardinality(Senders(j)) - 1
<1> DEFINE S == Senders(j)
           T == Senders(j)'
<1>1. \A v \in Workers \ {w} : MaySend(v, j)' => MaySend(v, j)
  BY DEF MaySend, Job
<1>2. \A v \in T \ {w} : v \in S
  BY <1>1 DEF Senders
<1>3. (w \in S <=> MaySend(w, j)) /\ (w \in T <=> MaySend(w, j)')
  BY DEF Senders
<1>4. IsFiniteSet(S)
  OBVIOUS
<1> HIDE DEF S, T
<1>5. /\ IsFiniteSet(S \cup {w}) /\ IsFiniteSet(S \ {w})
      /\ Cardinality(S \cup {w}) = IF w \in S THEN Cardinality(S) ELSE Cardinality(S) + 1
      /\ Cardinality(S \ {w}) = IF w \in S THEN Cardinality(S) - 1 ELSE Cardinality(S)
  BY <1>4, FS_AddElement, FS_RemoveElement
<1>6. T \in SUBSET (S \cup {w})
  BY <1>2
<1>7. /\ IsFiniteSet(T) /\ Cardinality(T) <= Cardinality(S \cup {w})
      /\ Cardinality(S) \in Nat /\ Cardinality(T) \in Nat
  BY <1>4, <1>5, <1>6, FS_Subset, FS_CardinalityType
<1>8. w \notin T => Cardinality(T) <= Cardinality(S \ {w})
  <2>1. w \notin T => T \in SUBSET (S \ {w})
    BY <1>2
  <2> QED
    BY <1>5, <2>1, FS_Subset
<1>9. /\ Cardinality(T) <= Cardinality(S) + 1
      /\ (w \in S \/ w \notin T => Cardinality(T) <= Cardinality(S))
      /\ (w \in S /\ w \notin T => Cardinality(T) <= Cardinality(S) - 1)
  BY <1>5, <1>7, <1>8
<1> QED
  BY <1>3, <1>7, <1>9 DEF S, T

LEMMA BudgetInit == Init => BudgetInv
<1> SUFFICES ASSUME Init, NEW j \in Jobs PROVE Budget(j)
  BY InitInvariant DEF BudgetInv
<1>1. Senders(j) = {}
  BY DEF Init, Senders, MaySend
<1>2. IsFiniteSet(Senders(j)) /\ Cardinality(Senders(j)) = 0
  BY <1>1, FS_EmptySet
<1>3. Copies(requested, j) = 0 /\ Copies(parked, j) = 0
  <2>1. \A r \in 0 .. 3 : [job |-> j, retry |-> r] \in Message
    BY DEF Message
  <2> QED
    BY <2>1 DEF Init, Copies
<1>4. sends[j] = 0 /\ j \notin published /\ j \notin done
  BY DEF Init
<1> QED
  BY <1>2, <1>3, <1>4 DEF Budget, Chances, Allowed

\* Numbers that every budget is made of.
LEMMA BudgetTypes ==
    ASSUME BudgetInv, NEW j \in Jobs
    PROVE  /\ Copies(requested, j) \in Nat
           /\ Copies(parked, j) \in Nat
           /\ IsFiniteSet(Senders(j))
           /\ Cardinality(Senders(j)) \in Nat
           /\ sends[j] \in Nat
           /\ faults \in Nat
<1>1. TypeOK /\ IsFiniteSet(Senders(j))
  BY DEF BudgetInv, IInv, Budget
<1>2. requested \in [Message -> Nat] /\ parked \in [Message -> Nat]
      /\ sends[j] \in Nat /\ faults \in Nat
  BY <1>1 DEF TypeOK
<1>3. Copies(requested, j) \in Nat /\ Copies(parked, j) \in Nat
  BY <1>2, CopiesType
<1>4. Cardinality(Senders(j)) \in Nat
  BY <1>1, FS_CardinalityType
<1> QED
  BY <1>1, <1>2, <1>3, <1>4

\* A job the acting handler does not work on has no new chance.
LEMMA BudgetOfOthers ==
    ASSUME BudgetInv, NEW w \in Workers, NEW j \in Jobs \ {Job(w)},
           Handler(w) \/ Faulty(w)
    PROVE  Budget(j)'
<1>1. TypeOK /\ Tracked /\ Budget(j)
  BY DEF BudgetInv, IInv
<1>2. OthersStay(w) /\ msg' = msg /\ published' = published
  BY <1>1, HandlerStays
<1>3. /\ done \subseteq done' /\ (j \in done' => j \in done)
      /\ sends'[j] = sends[j]
  BY <1>1, OwnJob
<1>4. ~MaySend(w, j) /\ ~MaySend(w, j)'
  BY <1>2 DEF MaySend, Job
<1>5. IsFiniteSet(Senders(j)') /\ Cardinality(Senders(j)') <= Cardinality(Senders(j))
      /\ Cardinality(Senders(j)') \in Nat
  BY <1>1, <1>2, <1>3, <1>4, SendersMove DEF OthersStay, Budget
<1>6. Copies(requested, j)' = Copies(requested, j) /\ Copies(parked, j)' = Copies(parked, j)
  <2>1. \A r \in 0 .. 3 : /\ [job |-> j, retry |-> r] \in Message
                          /\ [job |-> j, retry |-> r] # msg[w]
                          /\ [job |-> j, retry |-> r] # Retry(msg[w])
    <3>1. Retry(msg[w]).job = Job(w) /\ msg[w].job = Job(w)
      BY <1>1, RetryType DEF Job
    <3> QED
      BY <3>1 DEF Message
  <2>2. \A r \in 0 .. 3 :
            /\ requested'[[job |-> j, retry |-> r]] = requested[[job |-> j, retry |-> r]]
            /\ parked'[[job |-> j, retry |-> r]] = parked[[job |-> j, retry |-> r]]
    BY <1>1, <2>1, QueuesKeep
  <2> QED
    BY <2>2 DEF Copies
<1>7. faults' \in Nat /\ faults <= faults'
  BY <1>1
  DEF TypeOK, Handler, Faulty, Fault, CheckDone, TakeLock, Requeue, Send, Mark, Ack,
      FailureUnlock, Republish, AckFailed, Throw, FailureThrows, Crash, Disconnect
<1> QED
  BY <1>1, <1>2, <1>3, <1>5, <1>6, <1>7, BudgetTypes DEF Budget, Chances, Allowed
\* What a handler puts back or parks is one copy of its own job.
LEMMA OwnCopies ==
    ASSUME TypeOK, NEW w \in Workers, NEW j \in Jobs, j = Job(w)
    PROVE  /\ Copies(Put(requested, msg[w]), j) = Copies(requested, j) + 1
           /\ Copies(Put(parked, Retry(msg[w])), j) = Copies(parked, j) + 1
<1>1. /\ msg[w] \in Message /\ msg[w].job = j
      /\ requested \in [Message -> Nat] /\ parked \in [Message -> Nat]
  BY DEF TypeOK, Job
<1>2. Retry(msg[w]) \in Message /\ Retry(msg[w]).job = j
  BY RetryType
<1> QED
  BY <1>1, <1>2, CopiesPut

\* The job the acting handler works on: each step pays for the chance it gives
\* by one it takes, by the done marker or by a fault.
LEMMA BudgetOfOwn ==
    ASSUME BudgetInv, NEW w \in Workers, NEW j \in Jobs, j = Job(w),
           Handler(w) \/ Faulty(w)
    PROVE  Budget(j)'
<1> USE DEF broker, redis
<1>1. TypeOK /\ Tracked /\ Budget(j)
  BY DEF BudgetInv, IInv
<1>2. /\ OthersStay(w) /\ msg' = msg /\ published' = published /\ pc[w] # "idle"
      /\ j \in published /\ Job(w)' = j
  BY <1>1, HandlerStays DEF Tracked, Job
<1>3. done \subseteq done' /\ (pc[w] = "ack" => j \in done)
  BY <1>1, OwnJob DEF Tracked
<1> DEFINE C == Cardinality(Senders(j))
           D == Cardinality(Senders(j)')
           Q == Copies(requested, j)
           P == Copies(parked, j)
           R == Copies(requested, j)'
           O == Copies(parked, j)'
<1>4. /\ IsFiniteSet(Senders(j)') /\ C \in Nat /\ D \in Nat /\ D <= C + 1
      /\ MaySend(w, j) \/ ~MaySend(w, j)' => D <= C
      /\ MaySend(w, j) /\ ~MaySend(w, j)' => D <= C - 1
  BY <1>1, <1>2, <1>3, SendersMove DEF OthersStay, Budget
<1>5. /\ Q \in Nat /\ P \in Nat /\ sends[j] \in Nat /\ faults \in Nat
      /\ sends[j] + ((IF j \in done THEN 0 ELSE Q + P) + C) <= 1 + faults
  BY <1>1, <1>2, BudgetTypes DEF Budget, Chances, Allowed
<1>6. SUFFICES sends'[j] + ((IF j \in done' THEN 0 ELSE R + O) + D) <= 1 + faults'
  BY <1>2, <1>4 DEF Budget, Chances, Allowed
<1>7. /\ requested' = requested => R = Q
      /\ parked' = parked => O = P
      /\ Redeliver(w) => R = Q \/ R = Q + 1
      /\ parked' = Parked(msg[w]) => O = P + 1
  BY <1>1, OwnCopies DEF Copies, Redeliver, Parked
<1>8. /\ MaySend(w, j) <=>
            pc[w] \in IF j \in done THEN {"lock", "send"}
                      ELSE {"check", "lock", "send", "failed", "republish", "stuck"}
      /\ MaySend(w, j)' <=>
            pc'[w] \in IF j \in done' THEN {"lock", "send"}
                       ELSE {"check", "lock", "send", "failed", "republish", "stuck"}
  BY <1>2 DEF MaySend
<1> HIDE DEF C, D, Q, P, R, O
<1>9. CASE CheckDone(w)
  <2>1. /\ pc[w] = "check" /\ done' = done /\ sends' = sends /\ faults' = faults
        /\ R = Q /\ O = P
    BY <1>7, <1>9 DEF CheckDone
  <2>2. IF j \in done THEN pc'[w] \in {"idle", "failed"} ELSE pc'[w] = "lock"
    BY <1>1, <1>9, GotoType, EndType DEF CheckDone, Skip, PCs
  <2>3. D <= C
    BY <1>4, <1>8, <2>1, <2>2
  <2> QED
    BY <1>4, <1>5, <2>1, <2>3
<1>10. CASE TakeLock(w)
  <2>1. /\ pc[w] = "lock" /\ done' = done /\ sends' = sends /\ faults' = faults
        /\ R = Q /\ O = P
    BY <1>7, <1>10 DEF TakeLock
  <2>2. D <= C
    BY <1>4, <1>8, <2>1
  <2> QED
    BY <1>4, <1>5, <2>1, <2>2
<1>11. CASE Requeue(w)
  <2>1. /\ pc[w] = "lock" /\ done' = done /\ sends' = sends /\ faults' = faults /\ O = P
        /\ \/ pc'[w] = "idle" /\ (R = Q \/ R = Q + 1)
           \/ R = Q
    BY <1>1, <1>7, <1>11, EndType DEF Requeue
  <2>2. D <= C /\ (pc'[w] = "idle" => D <= C - 1)
    BY <1>4, <1>8, <2>1
  <2> QED
    BY <1>4, <1>5, <2>1, <2>2
<1>12. CASE Send(w)
  <2>1. /\ pc[w] = "send" /\ pc'[w] = "mark" /\ done' = done /\ faults' = faults
        /\ sends'[j] = sends[j] + 1 /\ R = Q /\ O = P
    BY <1>1, <1>7, <1>12, GotoType DEF Send, PCs, TypeOK
  <2>2. D <= C - 1
    BY <1>4, <1>8, <2>1
  <2> QED
    BY <1>4, <1>5, <2>1, <2>2
<1>13. CASE Mark(w)
  <2>1. /\ pc'[w] = "ack" /\ j \in done' /\ faults' = faults /\ sends' = sends
    BY <1>1, <1>13, GotoType DEF Mark, PCs
  <2>2. D <= C
    BY <1>4, <1>8, <2>1
  <2> QED
    BY <1>4, <1>5, <2>1, <2>2
<1>14. CASE Ack(w)
  <2>1. /\ pc'[w] \in {"idle", "failed"} /\ j \in done /\ j \in done'
        /\ faults' = faults /\ sends' = sends
    BY <1>1, <1>3, <1>14, GotoType, EndType DEF Ack, PCs
  <2>2. D <= C
    BY <1>4, <1>8, <2>1
  <2> QED
    BY <1>4, <1>5, <2>1, <2>2
<1>15. CASE FailureUnlock(w)
  <2>1. /\ pc[w] = "failed" /\ pc'[w] = "republish" /\ done' = done /\ faults' = faults
        /\ sends' = sends /\ R = Q /\ O = P
    BY <1>1, <1>7, <1>15, GotoType DEF FailureUnlock, PCs
  <2>2. D <= C
    BY <1>4, <1>8, <2>1
  <2> QED
    BY <1>4, <1>5, <2>1, <2>2
<1>16. CASE Republish(w)
  <2>1. /\ pc[w] = "republish" /\ pc'[w] = "ackfail" /\ done' = done /\ faults' = faults
        /\ sends' = sends /\ R = Q /\ O = P + 1
    BY <1>1, <1>7, <1>16, GotoType DEF Republish, PCs
  <2>2. D <= C /\ (j \notin done => D <= C - 1)
    BY <1>4, <1>8, <2>1
  <2> QED
    BY <1>4, <1>5, <2>1, <2>2
<1>17. CASE AckFailed(w)
  <2>1. /\ pc'[w] = "idle" /\ done' = done /\ faults' = faults /\ sends' = sends
        /\ R = Q /\ O = P
    BY <1>1, <1>7, <1>17, EndType DEF AckFailed
  <2>2. D <= C
    BY <1>4, <1>8, <2>1
  <2> QED
    BY <1>4, <1>5, <2>1, <2>2
<1>18. CASE Throw(w)
  <2>1. /\ pc'[w] = "failed" /\ faults' = faults + 1 /\ R = Q /\ O = P
    BY <1>1, <1>7, <1>18, GotoType DEF Throw, Fault, PCs
  <2>2. CASE done' = done /\ sends' = sends
    BY <1>4, <1>5, <2>1, <2>2
  <2>3. CASE pc[w] = "send" /\ sends'[j] = sends[j] + 1 /\ done' = done
    <3>1. D <= C
      BY <1>4, <1>8, <2>3
    <3> QED
      BY <1>4, <1>5, <2>1, <2>3, <3>1
  <2>4. CASE j \in done' /\ sends' = sends
    BY <1>4, <1>5, <2>1, <2>4
  <2> QED
    BY <1>1, <1>18, <2>2, <2>3, <2>4 DEF Throw, TypeOK
<1>19. CASE FailureThrows(w)
  <2>1. /\ pc[w] \in {"failed", "republish"} /\ pc'[w] \in {"idle", "stuck"}
        /\ faults' = faults + 1 /\ done' = done /\ sends' = sends /\ R = Q
        /\ O = P \/ O = P + 1
    BY <1>1, <1>7, <1>19, GotoType, EndType DEF FailureThrows, Fault, PCs
  <2>2. D <= C
    BY <1>4, <1>8, <2>1
  <2> QED
    BY <1>4, <1>5, <2>1, <2>2
<1>20. CASE Crash(w) \/ Disconnect(w)
  <2>1. /\ pc'[w] \in {"idle", pc[w]} /\ faults' = faults + 1 /\ done' = done
        /\ sends' = sends /\ (R = Q \/ R = Q + 1) /\ O = P
    BY <1>1, <1>7, <1>20, EndType DEF Crash, Disconnect, Fault
  <2>2. D <= C
    BY <1>4, <1>8, <2>1
  <2> QED
    BY <1>4, <1>5, <2>1, <2>2
<1> QED
  BY <1>9, <1>10, <1>11, <1>12, <1>13, <1>14, <1>15, <1>16, <1>17, <1>18, <1>19, <1>20
  DEF Handler, Faulty

\* A step that moves no handler, queue or marker of j.
LEMMA BudgetSame ==
    ASSUME BudgetInv, NEW j \in Jobs,
           UNCHANGED <<requested, parked, pc, msg, done, sends>>,
           j \in published' <=> j \in published,
           faults' \in Nat, faults <= faults'
    PROVE  Budget(j)'
<1>1. Senders(j)' = Senders(j)
  BY DEF Senders, MaySend, Job
<1>2. Copies(requested, j)' = Copies(requested, j) /\ Copies(parked, j)' = Copies(parked, j)
  BY DEF Copies
<1>3. Budget(j)
  BY DEF BudgetInv
<1> QED
  BY <1>1, <1>2, <1>3, BudgetTypes DEF Budget, Chances, Allowed

LEMMA BudgetStep == BudgetInv /\ [Next]_vars => BudgetInv'
<1> SUFFICES ASSUME BudgetInv, [Next]_vars, NEW j \in Jobs PROVE Budget(j)'
  BY StepInvariant DEF BudgetInv
<1> USE DEF broker, redis
<1>1. TypeOK /\ Tracked /\ Budget(j)
  BY DEF BudgetInv, IInv
<1>2. faults \in Nat /\ requested \in [Message -> Nat] /\ parked \in [Message -> Nat]
  BY <1>1 DEF TypeOK
<1>3. ASSUME NEW k \in Jobs, Publish(k) PROVE Budget(j)'
  <2>1. /\ k \notin published /\ published' = published \cup {k}
        /\ UNCHANGED <<parked, pc, msg, done, sends, faults>>
        /\ requested' = Put(requested, [job |-> k, retry |-> 0])
    BY <1>3 DEF Publish
  <2>2. /\ Senders(j)' = Senders(j)
        /\ Copies(parked, j)' = Copies(parked, j)
    BY <2>1 DEF Senders, MaySend, Job, Copies
  <2>3. [job |-> k, retry |-> 0] \in Message
    BY DEF Message
  <2>4. PICK m \in Message : m = [job |-> k, retry |-> 0]
    BY <2>3
  <2>5. Copies(Put(requested, m), j) =
            IF m.job = j THEN Copies(requested, j) + 1 ELSE Copies(requested, j)
    BY <1>2, CopiesPut
  <2>6. Copies(requested, j)' = Copies(Put(requested, m), j)
    BY <2>1, <2>4 DEF Copies
  <2>7. m.job = k
    BY <2>4
  <2> QED
    BY <1>1, <2>1, <2>2, <2>5, <2>6, <2>7, BudgetTypes DEF Budget, Chances, Allowed
<1>4. ASSUME NEW k \in Jobs, LockExpires(k) \/ LockExpiresEarly(k) PROVE Budget(j)'
  <2>1. /\ UNCHANGED <<requested, parked, pc, msg, done, sends, published>>
        /\ faults' \in Nat /\ faults <= faults'
    BY <1>2, <1>4 DEF LockExpires, LockExpiresEarly, Fault
  <2> QED
    BY <2>1, BudgetSame
<1>5. ASSUME NEW m \in Message, DelayOver(m) PROVE Budget(j)'
  <2>1. /\ parked[m] > 0 /\ parked' = [parked EXCEPT ![m] = parked[m] - 1]
        /\ requested' = Put(requested, m)
        /\ UNCHANGED <<published, pc, msg, done, sends, faults>>
    BY <1>5 DEF DelayOver
  <2>2. Senders(j)' = Senders(j)
    BY <2>1 DEF Senders, MaySend, Job
  <2>3. PICK n \in Nat : n = parked[m] - 1
    BY <1>2, <2>1
  <2>4. Copies([parked EXCEPT ![m] = n], j) =
            IF m.job = j THEN Copies(parked, j) - parked[m] + n ELSE Copies(parked, j)
    <3>1. PICK queue \in [Message -> Nat] : queue = parked
      BY <1>2
    <3>2. Copies([queue EXCEPT ![m] = n], j) =
              IF m.job = j THEN Copies(queue, j) - queue[m] + n ELSE Copies(queue, j)
      BY CopiesChange
    <3> QED
      BY <3>1, <3>2
  <2>5. Copies(Put(requested, m), j) =
            IF m.job = j THEN Copies(requested, j) + 1 ELSE Copies(requested, j)
    BY <1>2, CopiesPut
  <2>6. /\ Copies(requested, j)' = Copies(Put(requested, m), j)
        /\ Copies(parked, j)' = Copies([parked EXCEPT ![m] = n], j)
    BY <2>1, <2>3 DEF Copies
  <2>7. Copies(requested, j)' + Copies(parked, j)' = Copies(requested, j) + Copies(parked, j)
    BY <1>2, <2>3, <2>4, <2>5, <2>6, BudgetTypes
  <2> QED
    BY <1>1, <2>1, <2>2, <2>7, BudgetTypes DEF Budget, Chances, Allowed
<1>6. ASSUME NEW w \in Workers, NEW m \in Message, Deliver(w, m) PROVE Budget(j)'
  <2>1. /\ pc[w] = "idle" /\ pc'[w] = "check" /\ msg'[w] = m
        /\ \A v \in Workers \ {w} : pc'[v] = pc[v] /\ msg'[v] = msg[v]
        /\ requested[m] > 0 /\ requested' = [requested EXCEPT ![m] = requested[m] - 1]
        /\ UNCHANGED <<published, parked, done, sends, faults>>
    BY <1>1, <1>6, GotoType DEF Deliver, PCs, TypeOK
  <2>2. ~MaySend(w, j) /\ (MaySend(w, j)' => m.job = j /\ j \notin done)
    BY <2>1 DEF MaySend, Job
  <2>3. /\ IsFiniteSet(Senders(j)')
        /\ Cardinality(Senders(j)) \in Nat /\ Cardinality(Senders(j)') \in Nat
        /\ Cardinality(Senders(j)') <= Cardinality(Senders(j)) + 1
        /\ ~MaySend(w, j)' => Cardinality(Senders(j)') <= Cardinality(Senders(j))
    BY <1>1, <2>1, SendersMove DEF Budget
  <2>4. PICK n \in Nat : n = requested[m] - 1
    BY <1>2, <2>1
  <2>5. Copies([requested EXCEPT ![m] = n], j) =
            IF m.job = j THEN Copies(requested, j) - requested[m] + n ELSE Copies(requested, j)
    <3>1. PICK queue \in [Message -> Nat] : queue = requested
      BY <1>2
    <3>2. Copies([queue EXCEPT ![m] = n], j) =
              IF m.job = j THEN Copies(queue, j) - queue[m] + n ELSE Copies(queue, j)
      BY CopiesChange
    <3> QED
      BY <3>1, <3>2
  <2>6. /\ Copies(requested, j)' = Copies([requested EXCEPT ![m] = n], j)
        /\ Copies(parked, j)' = Copies(parked, j)
    BY <2>1, <2>4 DEF Copies
  <2>7. Copies(requested, j)' =
            IF m.job = j THEN Copies(requested, j) - 1 ELSE Copies(requested, j)
    BY <1>2, <2>4, <2>5, <2>6, BudgetTypes
  <2> QED
    BY <1>1, <2>1, <2>2, <2>3, <2>6, <2>7, BudgetTypes DEF Budget, Chances, Allowed
<1>7. ASSUME NEW w \in Workers, Handler(w) \/ Faulty(w) PROVE Budget(j)'
  BY <1>7, BudgetOfOthers, BudgetOfOwn
<1>8. CASE UNCHANGED vars
  BY <1>2, <1>8, BudgetSame DEF vars
<1> QED
  BY <1>3, <1>4, <1>5, <1>6, <1>7, <1>8 DEF Next

\* A job is sent at most once more than there were faults, whatever its retries,
\* redeliveries and requeues were, on any number of workers.
THEOREM SendsAreBounded == Spec => []SendsBounded
<1>1. BudgetInv => SendsBounded
  <2> SUFFICES ASSUME BudgetInv, NEW j \in Jobs PROVE sends[j] <= 1 + faults
    BY DEF SendsBounded
  <2>1. Budget(j)
    BY DEF BudgetInv
  <2> QED
    BY <2>1, BudgetTypes DEF Budget, Chances, Allowed
<1> QED
  BY <1>1, BudgetInit, BudgetStep, PTL DEF Spec

=============================================================================
