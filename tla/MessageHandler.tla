---------------------------- MODULE MessageHandler ----------------------------
(***************************************************************************)
(* The life of a RabbitMQ message in lary: publication, delivery to a      *)
(* consumer, the idempotency record kept in MongoDB, the handler, and the  *)
(* retry or dead-letter decision taken when the handler throws             *)
(* (src/infrastructure/rabbitmq).                                          *)
(*                                                                         *)
(* A worker is one consumer callback in some process: every await of       *)
(* RabbitMqMessageHandler.execute and executeWithoutTransaction is a label *)
(* of pc, so two workers interleave at each call to MongoDB or RabbitMQ.   *)
(* The broker is external: it redelivers what was delivered and never      *)
(* settled, keeps retry copies until their delay elapses, and moves        *)
(* negatively acknowledged copies to the dead-letter queue.                *)
(***************************************************************************)
EXTENDS Integers, FiniteSets

CONSTANTS
    Messages,     \* message identifiers (randomUUID, never reused)
    TxMessages,   \* those whose consumer calls execute (with a transaction)
    Workers,      \* concurrent consumer callbacks, over all processes
    RetryDelays,  \* retryDelaysMs.length of the domain
    FaultKinds,   \* the faults a run may meet
    MaxFaults,    \* bound: how many faults a behaviour meets
    NoJob         \* what an idle worker is working on

AllFaults == {"storeError", "publishError", "markFailedError", "slowRelease",
              "timeout", "connectionLoss", "crash"}

ASSUME ConstantsAssumption ==
    /\ TxMessages \subseteq Messages
    /\ RetryDelays \in Nat
    /\ FaultKinds \subseteq AllFaults
    /\ MaxFaults \in Nat

Attempts == 1..(RetryDelays + 1)
Copies == [msg : Messages, attempt : Attempts]

ASSUME NoJobAssumption == NoJob \notin Copies

VARIABLES
    published,  \* messages the application has published
    ready,      \* copies waiting in a main queue, by copy
    delayed,    \* copies waiting in a retry queue, by copy
    dlq,        \* copies in the dead-letter queue, by message
    record,     \* processed_messages: the idempotency record, by message
    effects,    \* how often the handler's effect has been made durable
    pc,         \* where each worker's callback is
    job,        \* the copy each worker is handling
    held,       \* workers whose delivery the broker still counts as unsettled
    faults      \* faults met so far

brokerVars == <<published, ready, delayed, dlq>>
vars == <<published, ready, delayed, dlq, record, effects, pc, job, held, faults>>

(* "overdue" is status PROCESSING with startedAt older than                *)
(* processingTimeoutMs; "absent" is no document.                           *)
Statuses == {"absent", "processing", "overdue", "completed", "failed"}
InProgress == {"processing", "overdue"}

Labels == {"idle", "create", "find", "delete", "recreate", "reclaim",
           "handle", "complete", "publish", "release", "fail",
           "ack", "nack", "requeue"}

Busy(w) == pc[w] # "idle"
On(w, m) == Busy(w) /\ job[w].msg = m
Goto(w, label) == pc' = [pc EXCEPT ![w] = label]

TypeOK ==
    /\ published \subseteq Messages
    /\ ready \in [Copies -> Nat]
    /\ delayed \in [Copies -> Nat]
    /\ dlq \in [Messages -> Nat]
    /\ record \in [Messages -> Statuses]
    /\ effects \in [Messages -> Nat]
    /\ pc \in [Workers -> Labels]
    /\ job \in [Workers -> Copies \cup {NoJob}]
    /\ \A w \in Workers : Busy(w) => job[w] \in Copies
    /\ held \subseteq {w \in Workers : Busy(w)}
    /\ faults \in 0..MaxFaults

Init ==
    /\ published = {}
    /\ ready = [c \in Copies |-> 0]
    /\ delayed = [c \in Copies |-> 0]
    /\ dlq = [m \in Messages |-> 0]
    /\ record = [m \in Messages |-> "absent"]
    /\ effects = [m \in Messages |-> 0]
    /\ pc = [w \in Workers |-> "idle"]
    /\ job = [w \in Workers |-> NoJob]
    /\ held = {}
    /\ faults = 0

-------------------------------------------------------------------------------
(* Publication and delivery.                                               *)

Publish(m) ==
    /\ m \notin published
    /\ published' = published \cup {m}
    /\ ready' = [ready EXCEPT ![[msg |-> m, attempt |-> 1]] = @ + 1]
    /\ UNCHANGED <<delayed, dlq, record, effects, pc, job, held, faults>>

Deliver(w, c) ==
    /\ pc[w] = "idle"
    /\ ready[c] > 0
    /\ ready' = [ready EXCEPT ![c] = @ - 1]
    /\ job' = [job EXCEPT ![w] = c]
    /\ held' = held \cup {w}
    /\ Goto(w, "create")
    /\ UNCHANGED <<published, delayed, dlq, record, effects, faults>>

-------------------------------------------------------------------------------
(* MessageIdempotencyService.startProcessing: insert, else look, else      *)
(* replace a failed record or take over an overdue one.                    *)

CreateProcessing(w) ==
    /\ pc[w] = "create"
    /\ IF record[job[w].msg] = "absent"
       THEN /\ record' = [record EXCEPT ![job[w].msg] = "processing"]
            /\ Goto(w, "handle")
       ELSE /\ Goto(w, "find")
            /\ UNCHANGED record
    /\ UNCHANGED <<brokerVars, effects, job, held, faults>>

AfterFind == [absent |-> "ack", completed |-> "ack", failed |-> "delete",
              processing |-> "reclaim", overdue |-> "reclaim"]

FindExisting(w) ==
    /\ pc[w] = "find"
    /\ Goto(w, AfterFind[record[job[w].msg]])
    /\ UNCHANGED <<brokerVars, record, effects, job, held, faults>>

DeleteFailed(w) ==
    /\ pc[w] = "delete"
    /\ record' = [record EXCEPT ![job[w].msg] = "absent"]
    /\ Goto(w, "recreate")
    /\ UNCHANGED <<brokerVars, effects, job, held, faults>>

RecreateProcessing(w) ==
    /\ pc[w] = "recreate"
    /\ IF record[job[w].msg] = "absent"
       THEN /\ record' = [record EXCEPT ![job[w].msg] = "processing"]
            /\ Goto(w, "handle")
       ELSE /\ Goto(w, "ack")
            /\ UNCHANGED record
    /\ UNCHANGED <<brokerVars, effects, job, held, faults>>

(* Mutant: the age of the record is not looked at.                         *)
ReclaimableAtAnyAge(m) == record[m] \in InProgress

Reclaimable(m) == record[m] = "overdue"

ReclaimStaleProcessing(w) ==
    /\ pc[w] = "reclaim"
    /\ IF Reclaimable(job[w].msg)
       THEN /\ record' = [record EXCEPT ![job[w].msg] = "processing"]
            /\ Goto(w, "handle")
       ELSE /\ Goto(w, "ack")
            /\ UNCHANGED record
    /\ UNCHANGED <<brokerVars, effects, job, held, faults>>

-------------------------------------------------------------------------------
(* The retry decision and what a thrown error leads to.                    *)

NextAttempt(attempt) == attempt + 1

ShouldRetry(attempt) ==
    LET delayIndex == NextAttempt(attempt) - 2
    IN  0 <= delayIndex /\ delayIndex < RetryDelays

(* Mutant: the copy is published again with its attempt unchanged.         *)
RetryCopySameAttempt(c) == c

RetryCopy(c) == [c EXCEPT !.attempt = NextAttempt(@)]

RetryableError(w) ==
    Goto(w, IF ShouldRetry(job[w].attempt) THEN "publish" ELSE "fail")

HandlingFails(w) ==
    /\ RetryableError(w)
    /\ UNCHANGED <<record, effects>>

(* execute: the handler's writes and markCompleted commit together, or     *)
(* markCompleted finds no PROCESSING record, throws, and both are undone.  *)
CommitTransaction(w) ==
    /\ pc[w] = "handle"
    /\ job[w].msg \in TxMessages
    /\ IF record[job[w].msg] \in InProgress
       THEN /\ record' = [record EXCEPT ![job[w].msg] = "completed"]
            /\ effects' = [effects EXCEPT ![job[w].msg] = @ + 1]
            /\ Goto(w, "ack")
       ELSE HandlingFails(w)
    /\ UNCHANGED <<brokerVars, job, held, faults>>

(* Mutant: markCompleted is called before the handler.                     *)
CompletesBeforeHandling(w) ==
    /\ pc[w] = "handle"
    /\ job[w].msg \notin TxMessages
    /\ record' = [record EXCEPT ![job[w].msg] = "completed"]
    /\ \/ effects' = [effects EXCEPT ![job[w].msg] = @ + 1] /\ Goto(w, "ack")
       \/ RetryableError(w) /\ UNCHANGED effects
    /\ UNCHANGED <<brokerVars, job, held, faults>>

(* executeWithoutTransaction: the effect first, markCompleted afterwards.  *)
HandlerReturns(w) ==
    /\ pc[w] = "handle"
    /\ job[w].msg \notin TxMessages
    /\ effects' = [effects EXCEPT ![job[w].msg] = @ + 1]
    /\ Goto(w, "complete")
    /\ UNCHANGED <<brokerVars, record, job, held, faults>>

MarkCompleted(w) ==
    /\ pc[w] = "complete"
    /\ IF record[job[w].msg] \in InProgress
       THEN /\ record' = [record EXCEPT ![job[w].msg] = "completed"]
            /\ Goto(w, "ack")
            /\ UNCHANGED effects
       ELSE HandlingFails(w)
    /\ UNCHANGED <<brokerVars, job, held, faults>>

HandlerThrowsRetryable(w) ==
    /\ pc[w] = "handle"
    /\ HandlingFails(w)
    /\ UNCHANGED <<brokerVars, job, held, faults>>

HandlerThrowsNonRetryable(w) ==
    /\ pc[w] = "handle"
    /\ Goto(w, "fail")
    /\ UNCHANGED <<brokerVars, record, effects, job, held, faults>>

PublishRetry(w) ==
    /\ pc[w] = "publish"
    /\ delayed' = [delayed EXCEPT ![RetryCopy(job[w])] = @ + 1]
    /\ Goto(w, "release")
    /\ UNCHANGED <<published, ready, dlq, record, effects, job, held, faults>>

(* Mutant: the record gets a status of its own instead of being deleted.   *)
ReleaseAsPending(w) ==
    /\ pc[w] = "release"
    /\ record' = [record EXCEPT ![job[w].msg] = "pending"]
    /\ Goto(w, "ack")
    /\ UNCHANGED <<brokerVars, effects, job, held, faults>>

(* Mutant: the record is left as it is.                                    *)
ReleaseForgotten(w) ==
    /\ pc[w] = "release"
    /\ Goto(w, "ack")
    /\ UNCHANGED <<brokerVars, record, effects, job, held, faults>>

(* Mutant: the delivery is requeued although its retry copy is published.  *)
ReleaseAndRequeue(w) ==
    /\ pc[w] = "release"
    /\ record' = [record EXCEPT ![job[w].msg] = "absent"]
    /\ Goto(w, "requeue")
    /\ UNCHANGED <<brokerVars, effects, job, held, faults>>

ReleaseForRetry(w) ==
    /\ pc[w] = "release"
    /\ record' = [record EXCEPT ![job[w].msg] = "absent"]
    /\ Goto(w, "ack")
    /\ UNCHANGED <<brokerVars, effects, job, held, faults>>

MarkFailed(w) ==
    /\ pc[w] = "fail"
    /\ record' = [record EXCEPT ![job[w].msg] =
                    IF @ \in InProgress THEN "failed" ELSE @]
    /\ Goto(w, "nack")
    /\ UNCHANGED <<brokerVars, effects, job, held, faults>>

-------------------------------------------------------------------------------
(* Settling the delivery.  A worker whose channel is gone settles nothing. *)

EndJob(w) ==
    /\ Goto(w, "idle")
    /\ job' = [job EXCEPT ![w] = NoJob]
    /\ held' = held \ {w}

BackToQueue(w) ==
    ready' = IF w \in held THEN [ready EXCEPT ![job[w]] = @ + 1] ELSE ready

Ack(w) ==
    /\ pc[w] = "ack"
    /\ EndJob(w)
    /\ UNCHANGED <<brokerVars, record, effects, faults>>

Nack(w) ==
    /\ pc[w] = "nack"
    /\ dlq' = IF w \in held THEN [dlq EXCEPT ![job[w].msg] = @ + 1] ELSE dlq
    /\ EndJob(w)
    /\ UNCHANGED <<published, ready, delayed, record, effects, faults>>

(* An exception that leaves the callback: the library requeues the copy.   *)
Requeue(w) ==
    /\ pc[w] = "requeue"
    /\ BackToQueue(w)
    /\ EndJob(w)
    /\ UNCHANGED <<published, delayed, dlq, record, effects, faults>>

-------------------------------------------------------------------------------
(* Faults.  Each is counted, and enabled only if the run allows its kind.  *)

Fault(kind) ==
    /\ kind \in FaultKinds
    /\ faults < MaxFaults
    /\ faults' = faults + 1

(* A retry delay (5 s, 30 s, 3 min) normally outlasts the delete that      *)
(* follows the publication of the copy; "slowRelease" is the delay that    *)
(* elapses first.                                                          *)
DelayElapses(c) ==
    /\ delayed[c] > 0
    /\ IF \E w \in Workers : pc[w] = "release" /\ job[w].msg = c.msg
       THEN Fault("slowRelease")
       ELSE UNCHANGED faults
    /\ delayed' = [delayed EXCEPT ![c] = @ - 1]
    /\ ready' = [ready EXCEPT ![c] = @ + 1]
    /\ UNCHANGED <<published, dlq, record, effects, pc, job, held>>

(* MongoDB refuses a call: before the try block the exception leaves the   *)
(* callback, in markCompleted it is an unknown error, and in               *)
(* releaseForRetry it is taken for a failed publication.                   *)
StoreError(w) ==
    /\ Fault("storeError")
    /\ \/ /\ pc[w] \in {"create", "find", "delete", "recreate", "reclaim"}
          /\ Goto(w, "requeue")
       \/ pc[w] = "complete" /\ RetryableError(w)
       \/ pc[w] = "release" /\ Goto(w, "fail")
    /\ UNCHANGED <<brokerVars, record, effects, job, held>>

(* Mutant: the failed publication is logged and the delivery acknowledged. *)
PublishErrorSwallowed(w) ==
    /\ pc[w] = "publish"
    /\ Fault("publishError")
    /\ Goto(w, "ack")
    /\ UNCHANGED <<brokerVars, record, effects, job, held>>

PublishError(w) ==
    /\ pc[w] = "publish"
    /\ Fault("publishError")
    /\ Goto(w, "fail")
    /\ UNCHANGED <<brokerVars, record, effects, job, held>>

MarkFailedError(w) ==
    /\ pc[w] = "fail"
    /\ Fault("markFailedError")
    /\ Goto(w, "requeue")
    /\ UNCHANGED <<brokerVars, record, effects, job, held>>

(* Five minutes pass since startedAt, whoever owns the record.             *)
ProcessingTimeout(m) ==
    /\ record[m] = "processing"
    /\ Fault("timeout")
    /\ record' = [record EXCEPT ![m] = "overdue"]
    /\ UNCHANGED <<brokerVars, effects, pc, job, held>>

(* The channel closes: the copy is redelivered, the callback runs on.      *)
ConnectionLoss(w) ==
    /\ w \in held
    /\ Fault("connectionLoss")
    /\ BackToQueue(w)
    /\ held' = held \ {w}
    /\ UNCHANGED <<published, delayed, dlq, record, effects, pc, job>>

Crash(w) ==
    /\ Busy(w)
    /\ Fault("crash")
    /\ BackToQueue(w)
    /\ EndJob(w)
    /\ UNCHANGED <<published, delayed, dlq, record, effects>>

-------------------------------------------------------------------------------
StartStep(w) ==
    \/ CreateProcessing(w) \/ FindExisting(w) \/ DeleteFailed(w)
    \/ RecreateProcessing(w) \/ ReclaimStaleProcessing(w)

HandlerStep(w) ==
    \/ CommitTransaction(w) \/ HandlerReturns(w) \/ MarkCompleted(w)
    \/ HandlerThrowsRetryable(w) \/ HandlerThrowsNonRetryable(w)

ErrorStep(w) == PublishRetry(w) \/ ReleaseForRetry(w) \/ MarkFailed(w)

SettleStep(w) == Ack(w) \/ Nack(w) \/ Requeue(w)

WorkerStep(w) == StartStep(w) \/ HandlerStep(w) \/ ErrorStep(w) \/ SettleStep(w)

WorkerFault(w) ==
    \/ StoreError(w) \/ PublishError(w) \/ MarkFailedError(w)
    \/ ConnectionLoss(w) \/ Crash(w)

Next ==
    \/ \E m \in Messages : Publish(m) \/ ProcessingTimeout(m)
    \/ \E c \in Copies : DelayElapses(c)
    \/ \E w \in Workers, c \in Copies : Deliver(w, c)
    \/ \E w \in Workers : WorkerStep(w) \/ WorkerFault(w)

(* Every callback is run to its end (the HTTP and LLM clients have          *)
(* timeouts), the broker delivers to an idle consumer, and delays elapse.  *)
(* Nothing obliges the application to publish or a fault to happen.        *)
Fairness ==
    /\ \A w \in Workers : WF_vars(WorkerStep(w))
    /\ \A w \in Workers : WF_vars(\E c \in Copies : Deliver(w, c))
    /\ \A c \in Copies : WF_vars(DelayElapses(c))

Spec == Init /\ [][Next]_vars
FairSpec == Spec /\ Fairness

-------------------------------------------------------------------------------
Settled(m) == effects[m] >= 1 \/ dlq[m] >= 1

InFlight(m) ==
    \/ \E c \in Copies : c.msg = m /\ ready[c] + delayed[c] > 0
    \/ \E w \in Workers : On(w, m)

(* A published message is executed, or dead-lettered, or something still   *)
(* carries it: startProcessing never talks the last copy of a message into *)
(* being acknowledged as a duplicate.                                      *)
NothingLost == \A m \in published : Settled(m) \/ InFlight(m)

(* The effect of a message handled by execute is made durable at most      *)
(* once, whatever is delivered twice or retried.                           *)
AtMostOnce == \A m \in TxMessages : effects[m] <= 1

(* The PROCESSING record is a lock: two callbacks never run the handler of *)
(* the same message at the same time.                                      *)
SoleOwner ==
    \A v, w \in Workers :
        (v # w /\ pc[v] \in {"handle", "complete"} /\ On(w, job[v].msg))
            => pc[w] \notin {"handle", "complete"}

(* A callback that may still execute its message, retry it, dead-letter it *)
(* or put it back, and the copies of a message in the queues, one by one.  *)
Undecided(w) == pc[w] \notin {"idle", "release", "ack"}
Bearers(m) == {w \in Workers : On(w, m) /\ Undecided(w)}

Queued(c) == ready[c] + delayed[c]
InQueues(m) == UNION {{c} \X (1..Queued(c)) : c \in {d \in Copies : d.msg = m}}

Burden(m) == Cardinality(InQueues(m)) + Cardinality(Bearers(m))

(* Conservation: a fault adds at most one copy of a message to what the    *)
(* queues and the callbacks carry, and an execution or a dead-letter uses  *)
(* one up.  So redelivery, retry and takeover of overdue records never     *)
(* multiply a message beyond one execution more per fault.                 *)
Conservation ==
    \A m \in Messages :
        Burden(m) + dlq[m] + (IF m \in TxMessages THEN effects[m] ELSE 0)
            <= 1 + faults

(* A COMPLETED record is proof that the effect is durable: it never stands *)
(* for work that was rolled back or never ran.                             *)
CompletedMeansExecuted ==
    \A m \in Messages : record[m] = "completed" => effects[m] >= 1

(* A message marked FAILED that nothing carries any more is in the         *)
(* dead-letter queue (sprint-04-product-synchronization.md, line 261).     *)
FailedIsDeadLettered ==
    \A m \in Messages :
        record[m] = "failed" /\ ~InFlight(m) => dlq[m] >= 1

(* What startProcessing turns away is a duplicate or an active message     *)
(* (the warning of rabbitmq.message-handler.ts, line 37): the message is   *)
(* settled, or another callback or copy still carries it.                  *)
Ignores(w) ==
    /\ pc[w] \in {"find", "recreate", "reclaim"}
    /\ pc'[w] = "ack"

CarriedByOther(w, m) ==
    \/ \E c \in Copies : c.msg = m /\ ready[c] + delayed[c] > 0
    \/ \E v \in Workers \ {w} : On(v, m)

IgnoredIsDuplicateOrActive ==
    [][\A w \in Workers :
        Ignores(w) => Settled(job[w].msg) \/ CarriedByOther(w, job[w].msg)]_vars

(* Every published message is executed or dead-lettered in the end.        *)
EventuallySettled == \A m \in Messages : m \in published ~> Settled(m)
===============================================================================
