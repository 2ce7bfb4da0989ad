------------------------------ MODULE JobWorker ------------------------------
(***************************************************************************)
(* The queue workers: apps/push-worker and apps/email-worker process the   *)
(* jobs the API publishes to RabbitMQ by one and the same protocol, with   *)
(* Redis for the lock and the done marker of each job and with two delayed *)
(* retry queues and a dead-letter queue.                                   *)
(*                                                                         *)
(* A worker here is one handler slot: a process runs up to five handlers   *)
(* at once (prefetchCount).  A message stays unacknowledged until its      *)
(* handler acks it; the broker puts it back when the channel or the        *)
(* process goes away.  A handler whose channel is gone runs on, and its    *)
(* ack or nack throws.                                                     *)
(*                                                                         *)
(* The status and retry keys are written for operators and read by no      *)
(* code; they are left out.  The done marker outlives the retries (24      *)
(* hours against six minutes) and does not expire here.                    *)
(***************************************************************************)
EXTENDS Integers, FiniteSets

CONSTANTS
    Jobs,       \* job ids
    Workers,    \* handler slots
    NoWorker,   \* the holder of a lock nobody holds
    MaxFaults   \* bound: crashes, lost channels, errors and late expiries

ASSUME ConstantsAssumption ==
    /\ NoWorker \notin Workers
    /\ MaxFaults \in Nat

VARIABLES
    published,  \* the jobs the API has published
    requested,  \* the number of copies of each message in the request queue
    parked,     \* ... in the retry queue or dead-letter queue of its retryCount
    pc,         \* where each handler stands
    msg,        \* the message each handler was given
    adrift,     \* the handlers whose channel is gone
    done,       \* the jobs with a done marker
    lock,       \* the handler that set the lock key of each job
    sends,      \* history: how often each job's side effect happened
    stolen,     \* history: jobs whose lock key went away under its live holder
    faults      \* faults so far

broker == <<published, requested, parked>>
redis == <<done, lock>>
vars == <<published, requested, parked, pc, msg, adrift, done, lock, sends, stolen, faults>>

-----------------------------------------------------------------------------
(* The shape of the data. *)

\* retryCount 1 is parked in the one-minute queue, 2 in the five-minute queue
\* and 3 in the dead-letter queue.
Message == [job : Jobs, retry : 0 .. 3]

(* "check"     before redis.get of the done key
   "lock"      before SET NX of the lock key
   "send"      lock acquired
   "mark"      push or mail sent
   "ack"       done marker set
   "failed"    in the catch block, before the lock key is deleted
   "republish" lock key deleted, retry not published
   "ackfail"   retry published
   "stuck"     handleFailure threw: the message stays unacknowledged *)
PCs == {"idle", "check", "lock", "send", "mark", "ack", "failed", "republish",
        "ackfail", "stuck"}

Init ==
    /\ published = {}
    /\ requested = [m \in Message |-> 0]
    /\ parked = [m \in Message |-> 0]
    /\ pc = [w \in Workers |-> "idle"]
    /\ msg \in [Workers -> {[job |-> j, retry |-> 0] : j \in Jobs}]
    /\ adrift = {}
    /\ done = {}
    /\ lock = [j \in Jobs |-> NoWorker]
    /\ sends = [j \in Jobs |-> 0]
    /\ stolen = {}
    /\ faults = 0

-----------------------------------------------------------------------------
(* Helpers. *)

Job(w) == msg[w].job

Put(queue, m) == [queue EXCEPT ![m] = @ + 1]

Goto(w, point) == pc' = [pc EXCEPT ![w] = point]

\* The handler is over; if its channel was gone, the slot has a new one.
End(w) == Goto(w, "idle") /\ adrift' = adrift \ {w}

Fault == faults < MaxFaults /\ faults' = faults + 1

\* w is between acquiring the lock key of j and deleting it.
Sending(w, j) == pc[w] \in {"send", "mark"} /\ Job(w) = j

\* The lock key of job j is set by a handler that still relies on it.
Guarding(j) == \E w \in Workers : lock[j] = w /\ Sending(w, j)

\* DEL of the lock key by w, which does not look whose lock it is.
Unlock(w) ==
    /\ lock' = [lock EXCEPT ![Job(w)] = NoWorker]
    /\ stolen' = IF Guarding(Job(w)) /\ lock[Job(w)] # w THEN stolen \cup {Job(w)}
                 ELSE stolen

\* Variant: consumed with noAck, so that the broker has nothing to put back.
Redeliver_NoAck(w) == UNCHANGED requested

\* The broker puts the unacknowledged message of w back.
Redeliver(w) == requested' = IF w \in adrift THEN requested ELSE Put(requested, msg[w])

-----------------------------------------------------------------------------
(* The broker. *)

\* SendPushMessageUseCase, SendNoticePushUseCase and AuthService.sendEmail.
Publish(j) ==
    /\ j \notin published
    /\ published' = published \cup {j}
    /\ requested' = Put(requested, [job |-> j, retry |-> 0])
    /\ UNCHANGED <<parked, pc, msg, adrift, redis, sends, stolen, faults>>

Deliver(w, m) ==
    /\ pc[w] = "idle"
    /\ requested[m] > 0
    /\ requested' = [requested EXCEPT ![m] = @ - 1]
    /\ Goto(w, "check")
    /\ msg' = [msg EXCEPT ![w] = m]
    /\ UNCHANGED <<published, parked, adrift, redis, sends, stolen, faults>>

\* Only the retry queues have a time to live and a dead-letter routing key.
Delayed(m) == m.retry \in {1, 2}

DelayOver(m) ==
    /\ Delayed(m)
    /\ parked[m] > 0
    /\ parked' = [parked EXCEPT ![m] = @ - 1]
    /\ requested' = Put(requested, m)
    /\ UNCHANGED <<published, pc, msg, adrift, redis, sends, stolen, faults>>

-----------------------------------------------------------------------------
(* processPushMessage, handleEmailVerificationRequested *)

\* Variant: the done key is not looked at.
Skip_Never(w) == FALSE

Skip(w) == Job(w) \in done

CheckDone(w) ==
    /\ pc[w] = "check"
    /\ \/ ~Skip(w) /\ Goto(w, "lock") /\ UNCHANGED adrift
       \/ Skip(w) /\ w \notin adrift /\ End(w)
       \/ Skip(w) /\ w \in adrift /\ Goto(w, "failed") /\ UNCHANGED adrift
    /\ UNCHANGED <<broker, msg, redis, sends, stolen, faults>>

\* Variant: SET without NX.
Acquired_Overwrites(w) == TRUE

Acquired(w) == lock[Job(w)] = NoWorker

TakeLock(w) ==
    /\ pc[w] = "lock"
    /\ Acquired(w)
    /\ lock' = [lock EXCEPT ![Job(w)] = w]
    /\ Goto(w, "send")
    /\ UNCHANGED <<broker, msg, adrift, done, sends, stolen, faults>>

\* nack with requeue
Requeue(w) ==
    /\ pc[w] = "lock"
    /\ ~Acquired(w)
    /\ \/ w \notin adrift /\ End(w) /\ Redeliver(w)
       \/ w \in adrift /\ Goto(w, "failed") /\ UNCHANGED <<adrift, requested>>
    /\ UNCHANGED <<published, parked, msg, redis, sends, stolen, faults>>

\* Expo or SMTP delivery, or the reservation of a push.
Send(w) ==
    /\ pc[w] = "send"
    /\ sends' = [sends EXCEPT ![Job(w)] = @ + 1]
    /\ Goto(w, "mark")
    /\ UNCHANGED <<broker, msg, adrift, redis, stolen, faults>>

Mark(w) ==
    /\ pc[w] = "mark"
    /\ done' = done \cup {Job(w)}
    /\ Unlock(w)
    /\ Goto(w, "ack")
    /\ UNCHANGED <<broker, msg, adrift, sends, faults>>

Ack(w) ==
    /\ pc[w] = "ack"
    /\ \/ w \notin adrift /\ End(w)
       \/ w \in adrift /\ Goto(w, "failed") /\ UNCHANGED adrift
    /\ UNCHANGED <<broker, msg, redis, sends, stolen, faults>>

-----------------------------------------------------------------------------
(* handleFailure, and the ack that follows it. *)

FailureUnlock(w) ==
    /\ pc[w] = "failed"
    /\ Unlock(w)
    /\ Goto(w, "republish")
    /\ UNCHANGED <<broker, msg, adrift, done, sends, faults>>

Retry(m) == [m EXCEPT !.retry = @ + 1]

\* Variant: a message out of retries is dropped.
Parked_NoDeadLetter(m) == IF m.retry = 2 THEN parked ELSE Put(parked, Retry(m))

Parked(m) == Put(parked, Retry(m))

Republish(w) ==
    /\ pc[w] = "republish"
    /\ parked' = Parked(msg[w])
    /\ Goto(w, "ackfail")
    /\ UNCHANGED <<published, requested, msg, adrift, redis, sends, stolen, faults>>

\* Without a channel this ack throws out of the handler, which ends it as well.
AckFailed(w) ==
    /\ pc[w] = "ackfail"
    /\ End(w)
    /\ UNCHANGED <<broker, msg, redis, sends, stolen, faults>>

-----------------------------------------------------------------------------
(* Faults. *)

\* An awaited call of the try block throws; what it asked for may have happened.
Throw(w) ==
    /\ Fault
    /\ pc[w] \in {"check", "lock", "send", "mark"}
    /\ Goto(w, "failed")
    /\ \/ UNCHANGED <<sends, redis, stolen>>
       \/ /\ pc[w] = "send"
          /\ sends' = [sends EXCEPT ![Job(w)] = @ + 1]
          /\ UNCHANGED <<redis, stolen>>
       \/ /\ pc[w] = "mark"
          /\ done' = done \cup {Job(w)}
          /\ Unlock(w)
          /\ UNCHANGED sends
    /\ UNCHANGED <<broker, msg, adrift>>

\* A call of handleFailure throws: no ack follows.
FailureThrows(w) ==
    /\ Fault
    /\ pc[w] \in {"failed", "republish"}
    /\ \/ w \in adrift /\ End(w)
       \/ w \notin adrift /\ Goto(w, "stuck") /\ UNCHANGED adrift
    /\ \/ UNCHANGED parked
       \/ pc[w] = "republish" /\ parked' = Parked(msg[w])
    /\ UNCHANGED <<published, requested, msg, redis, sends, stolen>>

\* The worker process dies: its lock key stays.
Crash(w) ==
    /\ Fault
    /\ pc[w] # "idle"
    /\ Redeliver(w)
    /\ End(w)
    /\ UNCHANGED <<published, parked, msg, redis, sends, stolen>>

\* The channel of w closes while its handler runs.
Disconnect(w) ==
    /\ Fault
    /\ pc[w] # "idle"
    /\ w \notin adrift
    /\ Redeliver(w)
    /\ \/ pc[w] = "stuck" /\ End(w)
       \/ pc[w] # "stuck" /\ adrift' = adrift \cup {w} /\ UNCHANGED pc
    /\ UNCHANGED <<published, parked, msg, redis, sends, stolen>>

\* Variant: SET without EX.
LockExpires_Never(j) == FALSE /\ UNCHANGED vars

\* The lock key of a job nobody guards any more expires after ten minutes.
LockExpires(j) ==
    /\ lock[j] # NoWorker
    /\ ~Guarding(j)
    /\ lock' = [lock EXCEPT ![j] = NoWorker]
    /\ UNCHANGED <<broker, pc, msg, adrift, done, sends, stolen, faults>>

\* A delivery takes longer than the lock key lives.
LockExpiresEarly(j) ==
    /\ Fault
    /\ Guarding(j)
    /\ lock' = [lock EXCEPT ![j] = NoWorker]
    /\ stolen' = stolen \cup {j}
    /\ UNCHANGED <<broker, pc, msg, adrift, done, sends>>

-----------------------------------------------------------------------------

Handler(w) ==
    \/ CheckDone(w) \/ TakeLock(w) \/ Requeue(w) \/ Send(w) \/ Mark(w) \/ Ack(w)
    \/ FailureUnlock(w) \/ Republish(w) \/ AckFailed(w)

Faulty(w) == Throw(w) \/ FailureThrows(w) \/ Crash(w) \/ Disconnect(w)

Next ==
    \/ \E j \in Jobs : Publish(j) \/ LockExpires(j) \/ LockExpiresEarly(j)
    \/ \E m \in Message : DelayOver(m) \/ \E w \in Workers : Deliver(w, m)
    \/ \E w \in Workers : Handler(w) \/ Faulty(w)

Spec == Init /\ [][Next]_vars

\* Awaited calls return or throw, keys and delays expire, and the queue hands
\* every message out in turn although a requeued one comes back to its head.
Fairness ==
    /\ \A w \in Workers : WF_vars(Handler(w))
    /\ \A j \in Jobs : WF_vars(LockExpires(j))
    /\ \A m \in Message : /\ WF_vars(DelayOver(m))
                          /\ SF_vars(\E w \in Workers : Deliver(w, m))

FairSpec == Spec /\ Fairness

-----------------------------------------------------------------------------
(* Properties. *)

\* Every variable keeps its shape; a message out of retries never comes back
\* into the request queue, and a handler without a channel is one that runs.
TypeOK ==
    /\ published \subseteq Jobs
    /\ requested \in [Message -> Nat]
    /\ parked \in [Message -> Nat]
    /\ pc \in [Workers -> PCs]
    /\ msg \in [Workers -> Message]
    /\ adrift \subseteq Workers
    /\ done \subseteq Jobs
    /\ lock \in [Jobs -> Workers \cup {NoWorker}]
    /\ sends \in [Jobs -> Nat]
    /\ stolen \subseteq Jobs
    /\ faults \in 0 .. MaxFaults
    /\ \A m \in Message : m.retry = 3 => requested[m] = 0
    /\ \A w \in Workers : msg[w].retry # 3
    /\ \A w \in adrift : pc[w] \notin {"idle", "stuck"}

\* w has an unacknowledged message of job j, which the broker would redeliver.
Carrying(w, j) == pc[w] # "idle" /\ w \notin adrift /\ Job(w) = j

\* The broker keeps a copy of job j that some handler will still see.
Waiting(j) ==
    \/ \E m \in Message : m.job = j /\ (requested[m] > 0 \/ (Delayed(m) /\ parked[m] > 0))
    \/ \E w \in Workers : Carrying(w, j)

Dead(j) == \E m \in Message : m.job = j /\ m.retry = 3 /\ parked[m] > 0

\* A published job is never lost, whatever crashes, closes or throws: it is
\* marked done, waits for a handler, or lies in the dead-letter queue.
NoLoss == \A j \in published : j \in done \/ Waiting(j) \/ Dead(j)

\* Two handlers send the same job at once only if its lock key was taken away
\* from a live holder: by its expiry, or by the DEL of a failing handler that
\* never had it.
SingleSender ==
    \A j \in Jobs \ stolen : \A v, w \in Workers :
        Sending(v, j) /\ Sending(w, j) => v = w

\* Retries and redeliveries together send a job at most once more for every
\* fault there was.
SendsBounded == \A j \in Jobs : sends[j] <= 1 + faults

\* Every published job is eventually done or dead-lettered, or hangs in a handler
\* whose failure handling threw, or waits while all handlers hang that way.
Settles ==
    \A j \in Jobs :
        j \in published ~> \/ j \in done
                           \/ Dead(j)
                           \/ \E w \in Workers : pc[w] = "stuck" /\ Job(w) = j
                           \/ \A w \in Workers : pc[w] = "stuck"

\* The workers keep the promise of JobPromise.
phase == [j \in Jobs |-> IF j \notin published THEN "new"
                         ELSE IF j \in done THEN "sent"
                         ELSE IF Waiting(j) THEN "waiting"
                         ELSE IF Dead(j) THEN "dead" ELSE "lost"]

Promise == INSTANCE JobPromise WITH phase <- phase, sends <- sends
PromiseSpec == Promise!Spec
=============================================================================
