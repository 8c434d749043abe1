------------------------- MODULE MessageHandlerProofs -------------------------
(***************************************************************************)
(* Proofs about MessageHandler for every set of messages and workers,      *)
(* every number of retry delays and every number of faults.                *)
(***************************************************************************)
EXTENDS MCMessageHandler, MessageHandlerRefinement, FiniteSetTheorems, TLAPS

(* What Publish puts into a queue is a copy.                               *)
LEMMA FirstCopy ==
    ASSUME NEW m \in Messages
    PROVE  [msg |-> m, attempt |-> 1] \in Copies
BY ConstantsAssumption DEF Copies, Attempts

(* A retry copy is a copy of the same message.                             *)
LEMMA RetryCopyType ==
    ASSUME NEW c \in Copies, ShouldRetry(c.attempt)
    PROVE  RetryCopy(c) \in Copies /\ RetryCopy(c).msg = c.msg
BY ConstantsAssumption DEF Copies, Attempts, ShouldRetry, RetryCopy, NextAttempt

(* Counting one up keeps a function to Nat one.                            *)
LEMMA OneMore ==
    ASSUME NEW S, NEW f \in [S -> Nat], NEW x
    PROVE  [f EXCEPT ![x] = @ + 1] \in [S -> Nat]
<1>1. CASE x \in S
  BY <1>1
<1>2. CASE x \notin S
  BY <1>2
<1> QED
  BY <1>1, <1>2

(* Every variable keeps its type, whatever faults happen.                  *)
LEMMA TypeStep == TypeOK /\ [Next]_vars => TypeOK'
<1> SUFFICES ASSUME TypeOK, [Next]_vars PROVE TypeOK'
  OBVIOUS
<1> USE DEF TypeOK, Busy, Goto, brokerVars
<1>1. ASSUME NEW m \in Messages, Publish(m) PROVE TypeOK'
  BY <1>1, FirstCopy DEF Publish
<1>2. ASSUME NEW m \in Messages, ProcessingTimeout(m) PROVE TypeOK'
  BY <1>2, ConstantsAssumption DEF ProcessingTimeout, Fault, Statuses
<1>3. ASSUME NEW c \in Copies, DelayElapses(c) PROVE TypeOK'
  <2>1. faults' \in 0..MaxFaults
    BY <1>3, ConstantsAssumption DEF DelayElapses, Fault
  <2> QED
    BY <1>3, <2>1 DEF DelayElapses
<1>4. ASSUME NEW w \in Workers, NEW c \in Copies, Deliver(w, c) PROVE TypeOK'
  BY <1>4 DEF Deliver, Labels
<1>5. ASSUME NEW w \in Workers, StartStep(w) PROVE TypeOK'
  <2>1. CASE CreateProcessing(w)
    BY <2>1 DEF CreateProcessing, Labels, Statuses, Copies
  <2>2. CASE FindExisting(w)
    <3>1. AfterFind[record[job[w].msg]] \in Labels \ {"idle"}
      BY <2>2 DEF FindExisting, AfterFind, Statuses, Labels, Copies
    <3> QED
      BY <2>2, <3>1 DEF FindExisting, Labels
  <2>3. CASE DeleteFailed(w)
    BY <2>3 DEF DeleteFailed, Labels, Statuses, Copies
  <2>4. CASE RecreateProcessing(w)
    BY <2>4 DEF RecreateProcessing, Labels, Statuses, Copies
  <2>5. CASE ReclaimStaleProcessing(w)
    BY <2>5 DEF ReclaimStaleProcessing, Labels, Statuses, Copies
  <2> QED
    BY <1>5, <2>1, <2>2, <2>3, <2>4, <2>5 DEF StartStep
<1>6. ASSUME NEW w \in Workers, HandlerStep(w) PROVE TypeOK'
  <2> USE DEF HandlingFails, RetryableError
  <2>1. CASE CommitTransaction(w)
    BY <2>1 DEF CommitTransaction, Labels, Statuses, Copies
  <2>2. CASE HandlerReturns(w)
    BY <2>2 DEF HandlerReturns, Labels, Copies
  <2>3. CASE MarkCompleted(w)
    BY <2>3 DEF MarkCompleted, Labels, Statuses, Copies
  <2>4. CASE HandlerThrowsRetryable(w)
    BY <2>4 DEF HandlerThrowsRetryable, Labels
  <2>5. CASE HandlerThrowsNonRetryable(w)
    BY <2>5 DEF HandlerThrowsNonRetryable, Labels
  <2> QED
    BY <1>6, <2>1, <2>2, <2>3, <2>4, <2>5 DEF HandlerStep
<1>7. ASSUME NEW w \in Workers, ErrorStep(w) PROVE TypeOK'
  <2>1. CASE PublishRetry(w)
    <3>1. delayed' \in [Copies -> Nat]
      BY <2>1, OneMore DEF PublishRetry
    <3> QED
      BY <2>1, <3>1 DEF PublishRetry, Labels
  <2>2. CASE ReleaseForRetry(w)
    BY <2>2 DEF ReleaseForRetry, Labels, Statuses, Copies
  <2>3. CASE MarkFailed(w)
    BY <2>3 DEF MarkFailed, Labels, Statuses, Copies
  <2> QED
    BY <1>7, <2>1, <2>2, <2>3 DEF ErrorStep
<1>8. ASSUME NEW w \in Workers, SettleStep(w) PROVE TypeOK'
  <2> USE DEF EndJob, Labels
  <2>1. CASE Ack(w)
    BY <2>1 DEF Ack
  <2>2. CASE Nack(w)
    BY <2>2 DEF Nack, Copies
  <2>3. CASE Requeue(w)
    BY <2>3 DEF Requeue, BackToQueue
  <2> QED
    BY <1>8, <2>1, <2>2, <2>3 DEF SettleStep
<1>9. ASSUME NEW w \in Workers, WorkerFault(w) PROVE TypeOK'
  <2>1. faults' \in 0..MaxFaults
    BY <1>9, ConstantsAssumption
       DEF WorkerFault, StoreError, PublishError, MarkFailedError,
           ConnectionLoss, Crash, Fault
  <2>2. CASE StoreError(w)
    BY <2>1, <2>2 DEF StoreError, RetryableError, Labels
  <2>3. CASE PublishError(w)
    BY <2>1, <2>3 DEF PublishError, Labels
  <2>4. CASE MarkFailedError(w)
    BY <2>1, <2>4 DEF MarkFailedError, Labels
  <2>5. CASE ConnectionLoss(w)
    BY <2>1, <2>5 DEF ConnectionLoss, BackToQueue
  <2>6. CASE Crash(w)
    BY <2>1, <2>6 DEF Crash, BackToQueue, EndJob, Labels
  <2> QED
    BY <1>9, <2>2, <2>3, <2>4, <2>5, <2>6 DEF WorkerFault
<1>10. CASE UNCHANGED vars
  BY <1>10 DEF vars
<1> QED
  BY <1>1, <1>2, <1>3, <1>4, <1>5, <1>6, <1>7, <1>8, <1>9, <1>10
     DEF Next, WorkerStep

(* The initial state has its types.                                        *)
LEMMA TypeInit == Init => TypeOK
BY ConstantsAssumption
   DEF Init, TypeOK, Statuses, Labels, Busy

(* The state stays well formed for every instance of the constants.        *)
THEOREM TypeCorrect == Spec => []TypeOK
<1>1. Init => TypeOK
  BY TypeInit
<1>2. TypeOK /\ [Next]_vars => TypeOK'
  BY TypeStep
<1> QED
  BY <1>1, <1>2, PTL DEF Spec

-------------------------------------------------------------------------------
(* Only markCompleted writes COMPLETED, in the transaction of the effect   *)
(* or after it, so a completed record never lies.  No fault is excluded.   *)
LEMMA CompletedStep ==
    CompletedInv /\ [Next]_vars => CompletedInv'
<1> SUFFICES ASSUME CompletedInv, [Next]_vars PROVE CompletedInv'
  OBVIOUS
<1>1. TypeOK /\ TypeOK'
  BY TypeStep DEF CompletedInv
<1> USE <1>1 DEF TypeOK, CompletedInv, CompletedMeansExecuted, Busy, Goto,
        brokerVars, Copies
<1>2. ASSUME NEW m \in Messages, Publish(m) \/ ProcessingTimeout(m)
      PROVE  CompletedInv'
  BY <1>2 DEF Publish, ProcessingTimeout
<1>3. ASSUME NEW c \in Copies, DelayElapses(c) PROVE CompletedInv'
  BY <1>3 DEF DelayElapses
<1>4. ASSUME NEW w \in Workers, NEW c \in Copies, Deliver(w, c)
      PROVE  CompletedInv'
  BY <1>4 DEF Deliver
<1>5. ASSUME NEW w \in Workers, StartStep(w) PROVE CompletedInv'
  <2>1. CASE FindExisting(w)
    <3>1. AfterFind[record[job[w].msg]] # "complete"
      BY <2>1 DEF FindExisting, AfterFind, Statuses
    <3> QED
      BY <2>1, <3>1 DEF FindExisting
  <2> QED
    BY <1>5, <2>1 DEF StartStep, CreateProcessing, DeleteFailed,
       RecreateProcessing, ReclaimStaleProcessing
<1>6. ASSUME NEW w \in Workers, HandlerStep(w) PROVE CompletedInv'
  <2> USE DEF HandlingFails, RetryableError
  <2>1. CASE CommitTransaction(w)
    BY <2>1 DEF CommitTransaction
  <2>2. CASE HandlerReturns(w)
    BY <2>2 DEF HandlerReturns
  <2>3. CASE MarkCompleted(w)
    BY <2>3 DEF MarkCompleted
  <2> QED
    BY <1>6, <2>1, <2>2, <2>3
       DEF HandlerStep, HandlerThrowsRetryable, HandlerThrowsNonRetryable
<1>7. ASSUME NEW w \in Workers, ErrorStep(w) PROVE CompletedInv'
  BY <1>7 DEF ErrorStep, PublishRetry, ReleaseForRetry, MarkFailed
<1>8. ASSUME NEW w \in Workers, SettleStep(w) PROVE CompletedInv'
  BY <1>8 DEF SettleStep, Ack, Nack, Requeue, EndJob
<1>9. ASSUME NEW w \in Workers, WorkerFault(w) PROVE CompletedInv'
  BY <1>9 DEF WorkerFault, StoreError, RetryableError, PublishError,
     MarkFailedError, ConnectionLoss, Crash, EndJob
<1>10. CASE UNCHANGED vars
  BY <1>10 DEF vars
<1> QED
  BY <1>2, <1>3, <1>4, <1>5, <1>6, <1>7, <1>8, <1>9, <1>10 DEF Next, WorkerStep

(* A record marked COMPLETED stands for a durable effect.                  *)
THEOREM CompletedRecordsAreTrue == Spec => []CompletedMeansExecuted
<1>1. Init => CompletedInv
  BY TypeInit DEF Init, CompletedInv, CompletedMeansExecuted
<1>2. CompletedInv /\ [Next]_vars => CompletedInv'
  BY CompletedStep
<1>3. CompletedInv => CompletedMeansExecuted
  BY DEF CompletedInv
<1> QED
  BY <1>1, <1>2, <1>3, PTL DEF Spec

-------------------------------------------------------------------------------
(* Nothing is lost under the tolerated faults.  The steps below hold for   *)
(* one action each; CarriedStep says what they share.                      *)

(* A callback keeps its delivery until it settles it.                      *)
LEMMA HeldStep ==
    ASSUME FaultKinds \subseteq ToleratedFaults,
           NothingLostInv, [Next]_vars
    PROVE  DeliveryHeld' /\ RetryAllowed'
<1>1. TypeOK /\ TypeOK'
  BY TypeStep DEF NothingLostInv, CompletedInv
<1> USE <1>1 DEF TypeOK, NothingLostInv, DeliveryHeld, RetryAllowed, Busy, Goto,
        brokerVars
<1>2. ASSUME NEW m \in Messages, Publish(m) \/ ProcessingTimeout(m)
      PROVE  DeliveryHeld' /\ RetryAllowed'
  BY <1>2 DEF Publish, ProcessingTimeout
<1>3. ASSUME NEW c \in Copies, DelayElapses(c) PROVE DeliveryHeld' /\ RetryAllowed'
  BY <1>3 DEF DelayElapses
<1>4. ASSUME NEW w \in Workers, NEW c \in Copies, Deliver(w, c)
      PROVE  DeliveryHeld' /\ RetryAllowed'
  BY <1>4 DEF Deliver
<1>5. ASSUME NEW w \in Workers, StartStep(w) PROVE DeliveryHeld' /\ RetryAllowed'
  <2>1. CASE FindExisting(w)
    <3>1. AfterFind[record[job[w].msg]] # "publish"
      BY <2>1 DEF FindExisting, AfterFind, Statuses, Copies
    <3> QED
      BY <2>1, <3>1 DEF FindExisting
  <2> QED
    BY <1>5, <2>1 DEF StartStep, CreateProcessing, DeleteFailed,
       RecreateProcessing, ReclaimStaleProcessing
<1>6. ASSUME NEW w \in Workers, HandlerStep(w) PROVE DeliveryHeld' /\ RetryAllowed'
  <2> USE DEF HandlingFails, RetryableError
  <2>1. CASE CommitTransaction(w)
    BY <2>1 DEF CommitTransaction
  <2>2. CASE MarkCompleted(w)
    BY <2>2 DEF MarkCompleted
  <2> QED
    BY <1>6, <2>1, <2>2 DEF HandlerStep, HandlerReturns,
       HandlerThrowsRetryable, HandlerThrowsNonRetryable
<1>7. ASSUME NEW w \in Workers, ErrorStep(w) PROVE DeliveryHeld' /\ RetryAllowed'
  BY <1>7 DEF ErrorStep, PublishRetry, ReleaseForRetry, MarkFailed
<1>8. ASSUME NEW w \in Workers, SettleStep(w) PROVE DeliveryHeld' /\ RetryAllowed'
  BY <1>8 DEF SettleStep, Ack, Nack, Requeue, EndJob
<1>9. ASSUME NEW w \in Workers, WorkerFault(w) PROVE DeliveryHeld' /\ RetryAllowed'
  <2>1. ~MarkFailedError(w) /\ ~ConnectionLoss(w) /\ ~Crash(w)
    BY DEF ToleratedFaults, MarkFailedError, ConnectionLoss, Crash, Fault
  <2> QED
    BY <1>9, <2>1 DEF WorkerFault, StoreError, RetryableError, PublishError
<1>10. CASE UNCHANGED vars
  BY <1>10 DEF vars
<1> QED
  BY <1>2, <1>3, <1>4, <1>5, <1>6, <1>7, <1>8, <1>9, <1>10 DEF Next, WorkerStep

(* A message stays without a trace until it is published.                  *)
LEMMA FreshStep ==
    ASSUME NothingLostInv, [Next]_vars, NEW m \in Messages \ published'
    PROVE  Fresh(m)'
<1>1. TypeOK /\ TypeOK' /\ m \notin published /\ Fresh(m)
  <2>1. TypeOK /\ TypeOK'
    BY TypeStep DEF NothingLostInv, CompletedInv
  <2>2. published \subseteq published'
    BY DEF Next, vars, brokerVars, Publish, ProcessingTimeout, DelayElapses,
       Deliver, WorkerStep, StartStep, CreateProcessing, FindExisting,
       DeleteFailed, RecreateProcessing, ReclaimStaleProcessing, HandlerStep,
       CommitTransaction, HandlerReturns, MarkCompleted, HandlerThrowsRetryable,
       HandlerThrowsNonRetryable, ErrorStep, PublishRetry, ReleaseForRetry,
       MarkFailed, SettleStep, Ack, Nack, Requeue, WorkerFault, StoreError,
       PublishError, MarkFailedError, ConnectionLoss, Crash
  <2> QED
    BY <2>1, <2>2 DEF NothingLostInv
<1> USE <1>1 DEF TypeOK, Fresh, Waiting, Delayed, On, Busy, Goto, brokerVars
<1>2. ASSUME NEW n \in Messages, Publish(n) \/ ProcessingTimeout(n)
      PROVE  Fresh(m)'
  BY <1>2 DEF Publish, ProcessingTimeout
<1>3. ASSUME NEW c \in Copies, DelayElapses(c) PROVE Fresh(m)'
  BY <1>3 DEF DelayElapses
<1>4. ASSUME NEW w \in Workers, NEW c \in Copies, Deliver(w, c) PROVE Fresh(m)'
  BY <1>4 DEF Deliver
<1>5. ASSUME NEW w \in Workers, StartStep(w) PROVE Fresh(m)'
  BY <1>5 DEF StartStep, CreateProcessing, FindExisting, DeleteFailed,
     RecreateProcessing, ReclaimStaleProcessing
<1>6. ASSUME NEW w \in Workers, HandlerStep(w) PROVE Fresh(m)'
  BY <1>6 DEF HandlerStep, HandlingFails, RetryableError, CommitTransaction,
     HandlerReturns, MarkCompleted, HandlerThrowsRetryable,
     HandlerThrowsNonRetryable
<1>7. ASSUME NEW w \in Workers, ErrorStep(w) PROVE Fresh(m)'
  <2>1. CASE PublishRetry(w)
    BY <2>1, RetryCopyType DEF PublishRetry, NothingLostInv, RetryAllowed
  <2> QED
    BY <1>7, <2>1 DEF ErrorStep, ReleaseForRetry, MarkFailed
<1>8. ASSUME NEW w \in Workers, SettleStep(w) PROVE Fresh(m)'
  BY <1>8 DEF SettleStep, Ack, Nack, Requeue, BackToQueue, EndJob
<1>9. ASSUME NEW w \in Workers, WorkerFault(w) PROVE Fresh(m)'
  BY <1>9 DEF WorkerFault, StoreError, RetryableError, PublishError,
     MarkFailedError, ConnectionLoss, Crash, BackToQueue, EndJob
<1>10. CASE UNCHANGED vars
  BY <1>10 DEF vars
<1> QED
  BY <1>2, <1>3, <1>4, <1>5, <1>6, <1>7, <1>8, <1>9, <1>10 DEF Next, WorkerStep

(* A message that is carried is carried after every tolerated step.        *)
LEMMA CarriedStep ==
    ASSUME FaultKinds \subseteq ToleratedFaults,
           NothingLostInv, [Next]_vars, NEW m \in published'
    PROVE  Carried(m)'
<1>1. TypeOK /\ TypeOK' /\ m \in Messages
  BY TypeStep DEF NothingLostInv, CompletedInv, TypeOK
<1> USE <1>1 DEF TypeOK, NothingLostInv, DeliveryHeld, Busy, Goto, brokerVars,
        Carried, Settled, On, Committed, Waiting, Delayed, Entering
<1>2. ASSUME NEW n \in Messages, Publish(n) PROVE Carried(m)'
  <2>1. CASE n = m
    <3> DEFINE first == [msg |-> m, attempt |-> 1]
    <3>1. first \in Copies /\ first.msg = m /\ ready'[first] > 0
      BY <1>2, <2>1, FirstCopy DEF Publish
    <3>2. record'[m] = "absent"
      BY <1>2, <2>1 DEF Publish, Fresh
    <3> QED
      BY <1>2, <2>1, <3>1, <3>2 DEF Publish
  <2>2. CASE n # m
    BY <1>2, <2>2 DEF Publish
  <2> QED
    BY <2>1, <2>2
<1>3. ASSUME NEW n \in Messages, ProcessingTimeout(n) PROVE Carried(m)'
  BY <1>3 DEF ProcessingTimeout
<1>4. ASSUME NEW c \in Copies, DelayElapses(c) PROVE Carried(m)'
  BY <1>4 DEF DelayElapses, Fault, ToleratedFaults
<1>5. ASSUME NEW w \in Workers, NEW c \in Copies, Deliver(w, c)
      PROVE  Carried(m)'
  BY <1>5 DEF Deliver
<1>6. ASSUME NEW w \in Workers, StartStep(w) PROVE Carried(m)'
  <2>1. CASE CreateProcessing(w)
    BY <2>1 DEF CreateProcessing
  <2>2. CASE FindExisting(w)
    BY <2>2 DEF FindExisting
  <2>3. CASE DeleteFailed(w)
    BY <2>3 DEF DeleteFailed
  <2>4. CASE RecreateProcessing(w)
    BY <2>4 DEF RecreateProcessing
  <2>5. CASE ReclaimStaleProcessing(w)
    BY <2>5 DEF ReclaimStaleProcessing, Reclaimable
  <2> QED
    BY <1>6, <2>1, <2>2, <2>3, <2>4, <2>5 DEF StartStep
<1>7. ASSUME NEW w \in Workers, HandlerStep(w) PROVE Carried(m)'
  <2> USE DEF HandlingFails, RetryableError
  <2>1. CASE CommitTransaction(w)
    BY <2>1 DEF CommitTransaction
  <2>2. CASE HandlerReturns(w)
    BY <2>2 DEF HandlerReturns
  <2>3. CASE MarkCompleted(w)
    <3>1. CASE job[w].msg = m
      BY <2>3, <3>1 DEF MarkCompleted, CompletedInv
    <3>2. CASE job[w].msg # m
      BY <2>3, <3>2 DEF MarkCompleted
    <3> QED
      BY <3>1, <3>2
  <2>4. CASE HandlerThrowsRetryable(w)
    BY <2>4 DEF HandlerThrowsRetryable
  <2>5. CASE HandlerThrowsNonRetryable(w)
    BY <2>5 DEF HandlerThrowsNonRetryable
  <2> QED
    BY <1>7, <2>1, <2>2, <2>3, <2>4, <2>5 DEF HandlerStep
<1>8. ASSUME NEW w \in Workers, ErrorStep(w) PROVE Carried(m)'
  <2>1. CASE PublishRetry(w)
    <3>1. /\ RetryCopy(job[w]) \in Copies
          /\ RetryCopy(job[w]).msg = job[w].msg
      BY <2>1, RetryCopyType DEF PublishRetry, RetryAllowed
    <3>2. CASE job[w].msg = m
      BY <2>1, <3>1, <3>2 DEF PublishRetry
    <3>3. CASE job[w].msg # m
      BY <2>1, <3>1, <3>3 DEF PublishRetry
    <3> QED
      BY <3>2, <3>3
  <2>2. CASE ReleaseForRetry(w)
    BY <2>2 DEF ReleaseForRetry
  <2>3. CASE MarkFailed(w)
    BY <2>3 DEF MarkFailed
  <2> QED
    BY <1>8, <2>1, <2>2, <2>3 DEF ErrorStep
<1>9. ASSUME NEW w \in Workers, SettleStep(w) PROVE Carried(m)'
  <2>1. CASE Ack(w)
    BY <2>1 DEF Ack, EndJob
  <2>2. CASE Nack(w)
    BY <2>2 DEF Nack, EndJob
  <2>3. CASE Requeue(w)
    BY <2>3 DEF Requeue, EndJob, BackToQueue
  <2> QED
    BY <1>9, <2>1, <2>2, <2>3 DEF SettleStep
<1>10. ASSUME NEW w \in Workers, WorkerFault(w) PROVE Carried(m)'
  <2>1. ~MarkFailedError(w) /\ ~ConnectionLoss(w) /\ ~Crash(w)
    BY DEF ToleratedFaults, MarkFailedError, ConnectionLoss, Crash, Fault
  <2>2. CASE StoreError(w)
    BY <2>2 DEF StoreError, RetryableError
  <2>3. CASE PublishError(w)
    BY <2>3 DEF PublishError
  <2> QED
    BY <1>10, <2>1, <2>2, <2>3 DEF WorkerFault
<1>11. CASE UNCHANGED vars
  BY <1>11 DEF vars
<1> QED
  BY <1>2, <1>3, <1>4, <1>5, <1>6, <1>7, <1>8, <1>9, <1>10, <1>11
     DEF Next, WorkerStep

(* The invariant holds at the start, when nothing is published.            *)
LEMMA NothingLostInit == Init => NothingLostInv
<1> SUFFICES ASSUME Init PROVE NothingLostInv
  OBVIOUS
<1>1. CompletedInv
  BY TypeInit DEF Init, CompletedInv, CompletedMeansExecuted
<1> QED
  BY <1>1 DEF Init, NothingLostInv, DeliveryHeld, RetryAllowed, Fresh, Busy, On,
     Waiting, Delayed, Copies

(* What is carried is not lost.                                            *)
LEMMA CarriedIsNotLost == NothingLostInv => NothingLost
<1> SUFFICES ASSUME NothingLostInv, NEW m \in published
             PROVE  Settled(m) \/ InFlight(m)
  BY DEF NothingLost
<1>1. Carried(m) /\ m \in Messages /\ TypeOK
  BY DEF NothingLostInv, CompletedInv, TypeOK
<1> QED
  BY <1>1 DEF Carried, InFlight, Waiting, Delayed, TypeOK

(* The faults that NothingLostInv survives are the tolerated ones.         *)
LEMMA NothingLostStep ==
    ASSUME FaultKinds \subseteq ToleratedFaults
    PROVE  NothingLostInv /\ [Next]_vars => NothingLostInv'
<1> SUFFICES ASSUME NothingLostInv, [Next]_vars PROVE NothingLostInv'
  OBVIOUS
<1>1. CompletedInv'
  BY CompletedStep DEF NothingLostInv
<1>2. DeliveryHeld' /\ RetryAllowed'
  BY HeldStep
<1>3. \A m \in Messages \ published' : Fresh(m)'
  BY FreshStep
<1>4. \A m \in published' : Carried(m)'
  BY CarriedStep
<1> QED
  BY <1>1, <1>2, <1>3, <1>4 DEF NothingLostInv

(* No message is lost, whatever the handler throws, while retry copies     *)
(* fail to be published, MongoDB refuses calls of startProcessing,         *)
(* markCompleted or releaseForRetry, and handlers outlast their time.      *)
THEOREM NothingIsLost ==
    ASSUME FaultKinds \subseteq ToleratedFaults
    PROVE  Spec => []NothingLost
<1>1. Init => NothingLostInv
  BY NothingLostInit
<1>2. NothingLostInv /\ [Next]_vars => NothingLostInv'
  BY NothingLostStep
<1>3. NothingLostInv => NothingLost
  BY CarriedIsNotLost
<1> QED
  BY <1>1, <1>2, <1>3, PTL DEF Spec

(* What is carried while m's record is not free is carried by a committed  *)
(* callback or a retry copy, unless m is settled.                          *)
LEMMA CarriedDespiteRecord ==
    ASSUME TypeOK, NEW m \in Messages, Carried(m), record[m] # "absent",
           NEW w \in Workers, ~Committed(w), pc[w] # "release"
    PROVE  Settled(m) \/ CarriedByOther(w, m)
<1>1. CASE \E v \in Workers : On(v, m) /\ (Committed(v) \/ pc[v] = "release")
  BY <1>1 DEF CarriedByOther
<1>2. CASE Settled(m)
  BY <1>2
<1> QED
  BY <1>1, <1>2 DEF Carried

(* What is carried while m's record is free is carried by another than a   *)
(* callback that neither is committed nor comes for the record.            *)
LEMMA CarriedByFreeRecord ==
    ASSUME TypeOK, NEW m \in Messages, Carried(m), record[m] = "absent",
           NEW w \in Workers, pc[w] \in {"find", "reclaim"}
    PROVE  Settled(m) \/ CarriedByOther(w, m)
<1>1. ASSUME NEW c \in Copies, c.msg = m, ready[c] > 0 \/ delayed[c] > 0
      PROVE  CarriedByOther(w, m)
  <2>1. ready[c] \in Nat /\ delayed[c] \in Nat
    BY DEF TypeOK
  <2> QED
    BY <1>1, <2>1 DEF CarriedByOther
<1>2. ASSUME NEW v \in Workers, On(v, m), v # w
      PROVE  CarriedByOther(w, m)
  BY <1>2 DEF CarriedByOther
<1> QED
  BY <1>1, <1>2 DEF Carried, Committed, Entering, Waiting, Delayed

(* A copy that startProcessing turns away while nothing is lost is a       *)
(* duplicate of a settled message, or of one that something else carries.  *)
LEMMA IgnoredStep ==
    ASSUME NothingLostInv, [Next]_vars, NEW w \in Workers, Ignores(w)
    PROVE  Settled(job[w].msg) \/ CarriedByOther(w, job[w].msg)
<1> DEFINE m == job[w].msg
<1>1. TypeOK /\ Busy(w) /\ m \in Messages /\ On(w, m)
  BY DEF NothingLostInv, CompletedInv, Ignores, TypeOK, Busy, On, Copies
<1>2. m \in published /\ Carried(m)
  BY <1>1 DEF NothingLostInv, Fresh
<1>3. FindExisting(w) \/ RecreateProcessing(w) \/ ReclaimStaleProcessing(w)
  <2>1. pc[w] \in {"find", "recreate", "reclaim"} /\ pc'[w] = "ack"
    BY DEF Ignores
  <2> USE <1>1, <2>1 DEF TypeOK, Goto, brokerVars
  <2>2. ASSUME NEW v \in Workers, StartStep(v), ~FindExisting(v),
               ~RecreateProcessing(v), ~ReclaimStaleProcessing(v)
        PROVE  FALSE
    BY <2>2 DEF StartStep, CreateProcessing, DeleteFailed
  <2>3. ASSUME NEW v \in Workers, v # w, StartStep(v) PROVE FALSE
    BY <2>3 DEF StartStep, CreateProcessing, FindExisting, DeleteFailed,
       RecreateProcessing, ReclaimStaleProcessing
  <2>4. ASSUME NEW v \in Workers, HandlerStep(v) PROVE FALSE
    BY <2>4 DEF HandlerStep, HandlingFails, RetryableError, CommitTransaction,
       HandlerReturns, MarkCompleted, HandlerThrowsRetryable,
       HandlerThrowsNonRetryable
  <2>5. ASSUME NEW v \in Workers, ErrorStep(v) \/ SettleStep(v) PROVE FALSE
    BY <2>5 DEF ErrorStep, PublishRetry, ReleaseForRetry, MarkFailed,
       SettleStep, Ack, Nack, Requeue, EndJob
  <2>6. ASSUME NEW v \in Workers, WorkerFault(v) PROVE FALSE
    BY <2>6 DEF WorkerFault, StoreError, RetryableError, PublishError,
       MarkFailedError, ConnectionLoss, Crash, EndJob
  <2>7. ASSUME NEW v \in Workers, NEW c \in Copies, Deliver(v, c) PROVE FALSE
    BY <2>7 DEF Deliver
  <2>8. pc' # pc
    OBVIOUS
  <2>9. PICK v \in Workers : StartStep(v)
    <3>1. ~\E n \in Messages : Publish(n) \/ ProcessingTimeout(n)
      BY <2>8 DEF Publish, ProcessingTimeout
    <3>2. ~\E c \in Copies : DelayElapses(c)
      BY <2>8 DEF DelayElapses
    <3> QED
      BY ONLY [Next]_vars, <2>4, <2>5, <2>6, <2>7, <2>8, <3>1, <3>2
         DEF Next, WorkerStep, vars
  <2>10. StartStep(w)
    BY <2>3, <2>9
  <2> QED
    BY <2>2, <2>10
<1>4. CASE record[m] = "absent"
  <2>1. pc[w] \in {"find", "reclaim"}
    BY <1>1, <1>3, <1>4
       DEF RecreateProcessing, FindExisting, ReclaimStaleProcessing, Ignores, Goto, TypeOK
  <2> QED
    BY <1>1, <1>2, <1>4, <2>1, CarriedByFreeRecord
<1>5. CASE record[m] # "absent"
  BY <1>1, <1>2, <1>5, CarriedDespiteRecord DEF Committed, Ignores
<1> QED
  BY <1>4, <1>5

(* What startProcessing acknowledges without handling it is a duplicate or *)
(* an active message, as the warning of rabbitmq.message-handler.ts says,  *)
(* whatever the tolerated faults.                                          *)
THEOREM IgnoredIsHarmless ==
    ASSUME FaultKinds \subseteq ToleratedFaults
    PROVE  Spec => IgnoredIsDuplicateOrActive
<1>1. Init => NothingLostInv
  BY NothingLostInit
<1>2. NothingLostInv /\ [Next]_vars => NothingLostInv'
  BY NothingLostStep
<1>3. NothingLostInv /\ [Next]_vars =>
        [\A w \in Workers :
           Ignores(w) => Settled(job[w].msg) \/ CarriedByOther(w, job[w].msg)]_vars
  BY IgnoredStep
<1> QED
  BY <1>1, <1>2, <1>3, PTL DEF Spec, IgnoredIsDuplicateOrActive

-------------------------------------------------------------------------------
(* The record as a lock: LockedInv, one lemma per group of actions.        *)

(* The number of copies of a message in the queues is a number.           *)
LEMMA QueuedIsNatural ==
    ASSUME TypeOK, NEW c \in Copies
    PROVE  Queued(c) \in Nat /\ ready[c] \in Nat /\ delayed[c] \in Nat
BY DEF TypeOK, Queued

(* What a step leaves alone keeps its lock.                                *)
LEMMA OtherMessage ==
    ASSUME NEW m \in Messages, LockedInv(m),
           m \in published' <=> m \in published,
           record'[m] = record[m], effects'[m] = effects[m],
           \A c \in Copies : c.msg = m => Queued(c)' = Queued(c),
           \A w \in Workers : On(w, m)' <=> On(w, m),
           \A w \in Workers : On(w, m) => pc'[w] = pc[w]
    PROVE  LockedInv(m)'
<1>1. \A w \in Workers : /\ Owns(w, m)' <=> Owns(w, m)
                         /\ Wants(w, m)' <=> Wants(w, m)
    BY DEF Owns, Wants, Owner, Wanting
<1>2. NoneLeft(m) => NoneLeft(m)'
    BY <1>1 DEF NoneLeft
<1>3. AtMostOneLeft(m) => AtMostOneLeft(m)'
    BY <1>1 DEF AtMostOneLeft
<1> QED BY <1>1, <1>2, <1>3 DEF LockedInv

(* None is fewer than one.                                                 *)
LEMMA NoneIsAtMostOne ==
    ASSUME NEW m \in Messages, NoneLeft(m)
    PROVE  AtMostOneLeft(m)
BY DEF NoneLeft, AtMostOneLeft

(* A callback that gets further without a copy coming or going.            *)
LEMMA OwnCallback ==
    ASSUME TypeOK, NEW w \in Workers, Busy(w), NEW m \in Messages, m = job[w].msg,
           LockedInv(m), UNCHANGED <<brokerVars, job>>,
           NEW to \in Labels \ {"idle"}, Goto(w, to),
           Wanting(w)' => Wanting(w)
    PROVE  /\ AtMostOneLeft(m) => AtMostOneLeft(m)'
           /\ NoneLeft(m) => NoneLeft(m)'
           /\ \A v \in Workers : On(v, m)' <=> On(v, m)
           /\ \A v \in Workers \ {w} : pc'[v] = pc[v]
           /\ pc'[w] = to
<1>1. \A v \in Workers : On(v, m)' <=> On(v, m)
    BY DEF TypeOK, On, Busy, Goto
<1>2. \A v \in Workers : Wants(v, m)' => Wants(v, m)
    BY <1>1 DEF TypeOK, Wants, Wanting, Goto
<1>3. \A c \in Copies : Queued(c)' = Queued(c)
    BY DEF Queued, brokerVars
<1>4. NoneLeft(m) => NoneLeft(m)'
    BY <1>2, <1>3 DEF NoneLeft
<1>5. AtMostOneLeft(m) => AtMostOneLeft(m)'
    BY <1>2, <1>3 DEF AtMostOneLeft
<1> QED BY <1>1, <1>4, <1>5 DEF TypeOK, Goto

(* A callback that gets further with the message of another keeps the lock. *)
LEMMA OtherCallback ==
    ASSUME TypeOK, NEW w \in Workers, Busy(w),
           NEW m \in Messages, m # job[w].msg, LockedInv(m),
           UNCHANGED <<brokerVars, job>>,
           NEW to \in Labels \ {"idle"}, Goto(w, to),
           record'[m] = record[m], effects'[m] = effects[m]
    PROVE  LockedInv(m)'
<1>1. \A v \in Workers : /\ On(v, m)' <=> On(v, m)
                         /\ On(v, m) => pc'[v] = pc[v]
    BY DEF TypeOK, On, Busy, Goto
<1>2. \A c \in Copies : Queued(c)' = Queued(c)
    BY DEF Queued, brokerVars
<1> QED BY <1>1, <1>2, OtherMessage DEF brokerVars

(* startProcessing hands the record to the only callback that asks for it. *)
LEMMA LockedStart ==
    ASSUME TypeOK, NEW m \in Messages, LockedInv(m),
           NEW w \in Workers, StartStep(w)
    PROVE  LockedInv(m)'
<1>0. Busy(w) /\ job[w] \in Copies /\ job[w].msg \in Messages
    BY DEF StartStep, CreateProcessing, FindExisting, DeleteFailed,
       RecreateProcessing, ReclaimStaleProcessing, Busy, TypeOK, Copies
<1>1. PICK to \in {"handle", "find", "ack", "delete", "reclaim", "recreate"} :
          Goto(w, to)
    BY <1>0 DEF StartStep, CreateProcessing, FindExisting, DeleteFailed,
       RecreateProcessing, ReclaimStaleProcessing, AfterFind, TypeOK, Statuses
<1>2. /\ UNCHANGED <<brokerVars, job, effects>> /\ Wanting(w)
      /\ to \in Labels \ {"idle"}
    BY <1>1 DEF StartStep, CreateProcessing, FindExisting, DeleteFailed,
       RecreateProcessing, ReclaimStaleProcessing, Wanting, Labels
<1>3. CASE m # job[w].msg
    <2>1. record'[m] = record[m]
        BY <1>0, <1>3
           DEF StartStep, CreateProcessing, FindExisting, DeleteFailed,
           RecreateProcessing, ReclaimStaleProcessing, TypeOK
    <2> QED BY <1>0, <1>1, <1>2, <1>3, <2>1, OtherCallback
<1>4. CASE m = job[w].msg
    <2>1. /\ AtMostOneLeft(m) => AtMostOneLeft(m)'
          /\ NoneLeft(m) => NoneLeft(m)'
          /\ \A v \in Workers : On(v, m)' <=> On(v, m)
          /\ \A v \in Workers \ {w} : pc'[v] = pc[v]
          /\ pc'[w] = to
        BY <1>0, <1>1, <1>2, <1>4, OwnCallback
    <2>2. Wants(w, m) /\ ~NoneLeft(m) /\ m \in published
        BY <1>0, <1>2, <1>4 DEF Wants, On, LockedInv, NoneLeft
    <2>3. CASE FindExisting(w)
        <3>1. record' = record /\ to = AfterFind[record[m]]
            BY <1>1, <1>4, <2>1, <2>3 DEF FindExisting, Goto, TypeOK
        <3>2. /\ to \in {"ack", "delete", "reclaim"}
              /\ to = "delete" => record[m] = "failed"
            BY <3>1 DEF AfterFind, TypeOK, Statuses
        <3> QED BY <1>2, <2>1, <2>2, <3>1, <3>2
              DEF LockedInv, Owns, Owner, brokerVars
    <2>4. CASE DeleteFailed(w)
        <3>1. record'[m] = "absent" /\ to = "recreate" /\ record[m] = "failed"
            BY <1>0, <1>1, <1>4, <2>1, <2>4
               DEF DeleteFailed, Goto, TypeOK, LockedInv, On
        <3>2. \A v \in Workers : On(v, m) /\ pc[v] = "delete" => v = w
            BY <2>2, <3>1 DEF LockedInv, AtMostOneLeft, Wants, Wanting
        <3> QED BY <1>2, <2>1, <2>2, <3>1, <3>2
              DEF LockedInv, Owns, Owner, brokerVars
    <2>5. ASSUME record[m] = "absent", record'[m] = "processing", to = "handle"
          PROVE  LockedInv(m)'
        <3>1. AtMostOneLeft(m) /\ \A v \in Workers : ~Owns(v, m)
            BY <2>5 DEF LockedInv
        <3>2. NoneLeft(m)'
            <4>1. \A c \in Copies : c.msg = m => Queued(c)' = 0
                BY <1>2, <2>2, <3>1, QueuedIsNatural
                   DEF AtMostOneLeft, Queued, brokerVars
            <4>2. \A v \in Workers : ~Wants(v, m)'
                BY <2>1, <2>2, <2>5, <3>1 DEF AtMostOneLeft, Wants, Wanting
            <4> QED BY <4>1, <4>2 DEF NoneLeft
        <3>3. \A v \in Workers \ {w} : ~Wants(v, m)
            BY <2>2, <3>1 DEF AtMostOneLeft
        <3> QED BY <1>2, <2>1, <2>2, <2>5, <3>1, <3>2, <3>3, NoneIsAtMostOne
              DEF LockedInv, Owns, Owner, Wants, Wanting, brokerVars
    <2>6. ASSUME record' = record, to \in {"find", "ack"}
          PROVE  LockedInv(m)'
        BY <1>2, <2>1, <2>2, <2>6 DEF LockedInv, Owns, Owner, brokerVars
    <2>7. ~Reclaimable(job[w].msg)
        BY <1>4 DEF Reclaimable, LockedInv
    <2>8. CASE CreateProcessing(w)
        BY <1>0, <1>1, <1>4, <2>1, <2>5, <2>6, <2>8
           DEF CreateProcessing, Goto, TypeOK
    <2>9. CASE RecreateProcessing(w)
        BY <1>0, <1>1, <1>4, <2>1, <2>5, <2>6, <2>9
           DEF RecreateProcessing, Goto, TypeOK
    <2>10. CASE ReclaimStaleProcessing(w)
        BY <1>0, <1>1, <1>4, <2>1, <2>6, <2>7, <2>10
           DEF ReclaimStaleProcessing, Goto, TypeOK
    <2> QED BY <2>3, <2>4, <2>8, <2>9, <2>10 DEF StartStep
<1> QED BY <1>3, <1>4

(* The owner of the record is the only one to complete, fail or release it. *)
LEMMA LockedHandler ==
    ASSUME TypeOK, NEW m \in Messages, LockedInv(m),
           NEW w \in Workers,
           HandlerStep(w) \/ MarkFailed(w) \/ ReleaseForRetry(w) \/ PublishError(w)
               \/ (StoreError(w) /\ Owner(w))
    PROVE  LockedInv(m)'
<1>0. Busy(w) /\ Owner(w) /\ job[w] \in Copies /\ job[w].msg \in Messages
    BY DEF HandlerStep, CommitTransaction, HandlerReturns, MarkCompleted,
       HandlerThrowsRetryable, HandlerThrowsNonRetryable, MarkFailed,
       ReleaseForRetry, PublishError, Owner, Busy, TypeOK, Copies
<1>1. PICK to \in {"complete", "publish", "fail", "ack", "nack"} : Goto(w, to)
    BY <1>0 DEF HandlerStep, CommitTransaction, HandlerReturns, MarkCompleted,
       HandlerThrowsRetryable, HandlerThrowsNonRetryable, HandlingFails,
       RetryableError, MarkFailed, ReleaseForRetry, PublishError, StoreError, Owner
<1>2. UNCHANGED <<brokerVars, job>> /\ to \in Labels \ {"idle"}
    BY <1>1 DEF HandlerStep, CommitTransaction, HandlerReturns, MarkCompleted,
       HandlerThrowsRetryable, HandlerThrowsNonRetryable, MarkFailed,
       ReleaseForRetry, PublishError, StoreError, Labels
<1>3. CASE m # job[w].msg
    <2>1. record'[m] = record[m] /\ effects'[m] = effects[m]
        BY <1>0, <1>3 DEF HandlerStep, CommitTransaction, HandlerReturns,
           MarkCompleted, HandlerThrowsRetryable, HandlerThrowsNonRetryable,
           HandlingFails, MarkFailed, ReleaseForRetry, PublishError, StoreError, TypeOK
    <2> QED BY <1>0, <1>1, <1>2, <1>3, <2>1, OtherCallback
<1>4. CASE m = job[w].msg
    <2>1. ~Wanting(w)'
        BY <1>0, <1>1 DEF Wanting, Goto, TypeOK
    <2>2. /\ AtMostOneLeft(m) => AtMostOneLeft(m)'
          /\ NoneLeft(m) => NoneLeft(m)'
          /\ \A v \in Workers : On(v, m)' <=> On(v, m)
          /\ \A v \in Workers \ {w} : pc'[v] = pc[v]
          /\ pc'[w] = to
        BY <1>0, <1>1, <1>2, <1>4, <2>1, OwnCallback
    <2>3. /\ Owns(w, m) /\ record[m] = "processing" /\ AtMostOneLeft(m)
          /\ \A v \in Workers \ {w} : ~Owns(v, m)
          /\ pc[w] \in {"handle", "complete", "publish"} => NoneLeft(m)
          /\ m \in published
        <3>1. Owns(w, m) /\ On(w, m)
            BY <1>0, <1>4 DEF Owns, On
        <3> QED BY <3>1, NoneIsAtMostOne DEF LockedInv, Owns, Owner
    <2>4. \A v \in Workers : On(v, m) => pc[v] \notin {"delete", "recreate"}
        BY <2>3 DEF LockedInv
    <2>5. /\ record'[m] \in {"absent", "processing", "completed", "failed"}
          /\ record'[m] = "processing" \/ to \in {"ack", "nack"}
        <3>1. CASE HandlerStep(w)
            BY <1>4, <2>2, <2>3, <3>1 DEF HandlerStep, CommitTransaction,
               HandlerReturns, MarkCompleted, HandlerThrowsRetryable,
               HandlerThrowsNonRetryable, HandlingFails, TypeOK, InProgress, Goto
        <3>2. CASE MarkFailed(w) \/ ReleaseForRetry(w)
            BY <1>4, <2>2, <2>3, <3>2 DEF MarkFailed, ReleaseForRetry, TypeOK,
               InProgress, Goto
        <3>3. CASE PublishError(w) \/ StoreError(w)
            BY <2>3, <3>3 DEF PublishError, StoreError
        <3> QED BY <3>1, <3>2, <3>3
    <2>6. to \in {"handle", "complete", "publish"} =>
              pc[w] \in {"handle", "complete", "publish"}
        BY <1>0, <1>1, <2>2
           DEF Owner, HandlerStep, CommitTransaction, HandlerReturns,
           MarkCompleted, HandlerThrowsRetryable, HandlerThrowsNonRetryable,
           MarkFailed, ReleaseForRetry, PublishError, StoreError, Goto, TypeOK
    <2>7. m \in TxMessages => /\ effects'[m] <= 1
                              /\ effects'[m] # 0 => record'[m] = "completed"
        <3> SUFFICES ASSUME m \in TxMessages
                     PROVE  /\ effects'[m] <= 1
                            /\ effects'[m] # 0 => record'[m] = "completed"
            OBVIOUS
        <3>1. effects[m] = 0
            BY <2>3 DEF LockedInv
        <3>2. CASE CommitTransaction(w)
            BY <1>4, <2>3, <3>1, <3>2
               DEF CommitTransaction, HandlingFails, TypeOK,
               InProgress
        <3>3. CASE ~CommitTransaction(w)
            <4>1. effects' = effects
                BY <1>4, <3>3 DEF HandlerStep, HandlerReturns, MarkCompleted,
                   HandlerThrowsRetryable, HandlerThrowsNonRetryable, HandlingFails,
                   MarkFailed, ReleaseForRetry, PublishError, StoreError
            <4> QED BY <3>1, <4>1
        <3> QED BY <3>2, <3>3
    <2>8. \A v \in Workers :
             Owns(v, m)' => v = w /\ to \in {"complete", "publish", "fail"}
        BY <1>1, <2>2, <2>3 DEF Owns, Owner
    <2>9. \A v \in Workers :
             On(v, m)' => /\ pc'[v] \in {"handle", "complete", "publish"} =>
                              NoneLeft(m)'
                          /\ pc'[v] \in {"release", "fail"} => AtMostOneLeft(m)'
                          /\ pc'[v] \notin {"delete", "recreate"}
        <3> SUFFICES ASSUME NEW v \in Workers, On(v, m)
                     PROVE  /\ pc'[v] \in {"handle", "complete", "publish"} =>
                                NoneLeft(m)'
                            /\ pc'[v] \in {"release", "fail"} => AtMostOneLeft(m)'
                            /\ pc'[v] \notin {"delete", "recreate"}
            BY <2>2
        <3>1. CASE v = w
            BY <1>1, <2>2, <2>3, <2>6, <3>1
        <3>2. CASE v # w
            BY <2>2, <2>3, <2>4, <3>2 DEF Owns, Owner
        <3> QED BY <3>1, <3>2
    <2>10. /\ m \in published'
           /\ record'[m] # "overdue"
           /\ AtMostOneLeft(m)'
           /\ \A v \in Workers : Owns(v, m)' => record'[m] = "processing"
           /\ \A u, v \in Workers : Owns(u, m)' /\ Owns(v, m)' => u = v
        BY <1>2, <2>2, <2>3, <2>5, <2>8 DEF brokerVars
    <2> QED BY <2>7, <2>9, <2>10 DEF LockedInv
<1> QED BY <1>3, <1>4

(* A failing call of startProcessing, or of markFailed, puts the copy back. *)
LEMMA LockedGivenUp ==
    ASSUME TypeOK, NEW m \in Messages, LockedInv(m), NEW w \in Workers,
           (StoreError(w) /\ ~Owner(w)) \/ MarkFailedError(w)
    PROVE  LockedInv(m)'
<1>0. Busy(w) /\ job[w] \in Copies /\ job[w].msg \in Messages
    BY DEF StoreError, MarkFailedError, Busy, TypeOK, Copies
<1>1. /\ Goto(w, "requeue") /\ UNCHANGED <<brokerVars, job, record, effects>>
      /\ "requeue" \in Labels \ {"idle"}
      /\ Wanting(w) \/ pc[w] = "fail"
    BY DEF StoreError, MarkFailedError, Owner, Wanting, Labels
<1>2. CASE m # job[w].msg
    BY <1>0, <1>1, <1>2, OtherCallback
<1>3. CASE m = job[w].msg
    <2>1. CASE Wanting(w)
        <3>1. /\ AtMostOneLeft(m) => AtMostOneLeft(m)'
              /\ NoneLeft(m) => NoneLeft(m)'
              /\ \A v \in Workers : On(v, m)' <=> On(v, m)
              /\ \A v \in Workers \ {w} : pc'[v] = pc[v]
              /\ pc'[w] = "requeue"
            BY <1>0, <1>1, <1>3, <2>1, OwnCallback
        <3>2. ~NoneLeft(m) /\ m \in published
            BY <1>0, <1>3, <2>1 DEF Wants, On, LockedInv, NoneLeft
        <3> QED BY <1>1, <3>1, <3>2 DEF LockedInv, Owns, Owner, brokerVars
    <2>2. CASE pc[w] = "fail"
        <3>1. /\ \A v \in Workers : On(v, m)' <=> On(v, m)
              /\ \A v \in Workers \ {w} : pc'[v] = pc[v]
              /\ pc'[w] = "requeue"
            BY <1>0, <1>1 DEF TypeOK, On, Busy, Goto
        <3>2. /\ record[m] = "processing" /\ m \in published
              /\ \A v \in Workers \ {w} : ~Owns(v, m)
            BY <1>0, <1>3, <2>2 DEF LockedInv, Owns, Owner, On
        <3>3. \A v \in Workers : ~Owns(v, m)'
            BY <3>1, <3>2 DEF Owns, Owner
        <3> QED BY <1>1, <3>1, <3>2, <3>3 DEF LockedInv, Owns, Owner, brokerVars
    <2> QED BY <1>1, <2>1, <2>2
<1> QED BY <1>2, <1>3

(* The retry copy is the only one while its owner releases the record.     *)
LEMMA LockedRetry ==
    ASSUME TypeOK, NEW m \in Messages, LockedInv(m), NEW w \in Workers,
           PublishRetry(w)
    PROVE  LockedInv(m)'
<1> DEFINE r == RetryCopy(job[w])
<1>0. /\ Busy(w) /\ job[w] \in Copies /\ job[w].msg \in Messages
      /\ r.msg = job[w].msg
    BY DEF PublishRetry, Busy, TypeOK, Copies, RetryCopy
<1>1. /\ \A v \in Workers : On(v, m)' <=> On(v, m)
      /\ \A v \in Workers \ {w} : pc'[v] = pc[v]
      /\ pc'[w] = "release"
      /\ UNCHANGED <<published, record, effects, job>>
    BY <1>0 DEF PublishRetry, TypeOK, On, Busy, Goto
<1>2. \A c \in Copies : Queued(c)' = IF c = r THEN Queued(c) + 1 ELSE Queued(c)
    BY <1>0, QueuedIsNatural DEF PublishRetry, Queued, TypeOK
<1> HIDE DEF r
<1>3. CASE m # job[w].msg
    <2>1. \A c \in Copies : c.msg = m => Queued(c)' = Queued(c)
        BY <1>0, <1>2, <1>3
    <2>2. \A v \in Workers : On(v, m) => pc'[v] = pc[v]
        BY <1>1, <1>3 DEF On
    <2> QED BY <1>1, <2>1, <2>2, OtherMessage
<1>4. CASE m = job[w].msg
    <2>1. /\ NoneLeft(m) /\ record[m] = "processing" /\ m \in published
          /\ \A v \in Workers \ {w} : ~Owns(v, m)
        <3>1. On(w, m) /\ Owns(w, m)
            BY <1>0, <1>4 DEF PublishRetry, On, Owns, Owner
        <3> QED BY <3>1 DEF LockedInv, PublishRetry
    <2>2. AtMostOneLeft(m)'
        <3>1. \A v \in Workers : ~Wants(v, m)'
            BY <1>1, <2>1 DEF NoneLeft, Wants, Wanting
        <3>2. /\ \A c \in Copies : c.msg = m => Queued(c)' <= 1
              /\ \A c \in Copies : c.msg = m /\ Queued(c)' > 0 => c = r
            <4>1. \A c \in Copies : c.msg = m => Queued(c) = 0
                BY <2>1 DEF NoneLeft
            <4>2. \A c \in Copies : c.msg = m => Queued(c)' = IF c = r THEN 1 ELSE 0
                BY <1>2, <4>1
            <4> QED BY <4>2
        <3> QED BY <3>1, <3>2 DEF AtMostOneLeft
    <2>3. \A v \in Workers : Owns(v, m)' => v = w
        BY <1>1, <2>1 DEF Owns, Owner
    <2>4. \A v \in Workers : On(v, m) => pc[v] \notin {"delete", "recreate"}
        BY <2>1 DEF LockedInv
    <2> QED BY <1>1, <2>1, <2>2, <2>3, <2>4 DEF LockedInv, Owns, Owner
<1> QED BY <1>3, <1>4

(* Settling: only an exception that left the callback puts the copy back.  *)
LEMMA LockedSettle ==
    ASSUME TypeOK, NEW m \in Messages, LockedInv(m), NEW w \in Workers,
           SettleStep(w)
    PROVE  LockedInv(m)'
<1>0. /\ Busy(w) /\ job[w] \in Copies /\ ~Owner(w)
      /\ EndJob(w) /\ UNCHANGED <<published, delayed, record, effects>>
    BY DEF SettleStep, Ack, Nack, Requeue, Busy, TypeOK, Owner, brokerVars
<1>1. /\ \A v \in Workers \ {w} : pc'[v] = pc[v] /\ job'[v] = job[v]
      /\ pc'[w] = "idle"
    BY <1>0 DEF EndJob, Goto, TypeOK
<1>2. /\ \A v \in Workers \ {w} : On(v, m)' <=> On(v, m)
      /\ ~On(w, m)'
    BY <1>1 DEF On, Busy
<1>3. \A v \in Workers : /\ Owns(v, m)' => Owns(v, m)
                         /\ Wants(v, m)' => v # w /\ Wants(v, m)
    BY <1>1, <1>2 DEF Owns, Owner, Wants, Wanting
<1>4. ASSUME AtMostOneLeft(m) => AtMostOneLeft(m)', NoneLeft(m) => NoneLeft(m)'
      PROVE  LockedInv(m)'
    BY <1>0, <1>1, <1>2, <1>3, <1>4 DEF LockedInv
<1>5. CASE ready' = ready
    <2>1. \A c \in Copies : Queued(c)' = Queued(c)
        BY <1>0, <1>5 DEF Queued
    <2> QED BY <1>3, <1>4, <2>1 DEF AtMostOneLeft, NoneLeft
<1>6. CASE ready' # ready
    <2>1. /\ pc[w] = "requeue"
          /\ ready' = [ready EXCEPT ![job[w]] = @ + 1]
        BY <1>6 DEF SettleStep, Ack, Nack, Requeue, BackToQueue, brokerVars
    <2>2. \A c \in Copies :
             Queued(c)' = IF c = job[w] THEN Queued(c) + 1 ELSE Queued(c)
        BY <1>0, <2>1, QueuedIsNatural DEF Queued, TypeOK
    <2>3. CASE job[w].msg # m
        <3>1. \A c \in Copies : c.msg = m => Queued(c)' = Queued(c)
            BY <2>2, <2>3
        <3> QED BY <1>3, <1>4, <3>1 DEF AtMostOneLeft, NoneLeft
    <2>4. CASE job[w].msg = m
        <3>1. Wants(w, m)
            BY <1>0, <2>1, <2>4 DEF Wants, Wanting, On
        <3>2. ASSUME AtMostOneLeft(m) PROVE AtMostOneLeft(m)'
            <4>1. /\ \A v \in Workers : ~Wants(v, m)'
                  /\ \A c \in Copies : c.msg = m => Queued(c) = 0
                BY <1>3, <3>1, <3>2, QueuedIsNatural DEF AtMostOneLeft
            <4>2. \A c \in Copies :
                     c.msg = m => Queued(c)' = IF c = job[w] THEN 1 ELSE 0
                BY <1>0, <2>2, <4>1
            <4> QED BY <4>1, <4>2 DEF AtMostOneLeft
        <3> QED BY <1>4, <3>1, <3>2 DEF NoneLeft
    <2> QED BY <2>3, <2>4
<1> QED BY <1>5, <1>6

(* A delivery takes the copy out of the queue; a delay that elapses leaves *)
(* the number of copies alone.                                             *)
LEMMA LockedDelivery ==
    ASSUME TypeOK, NEW m \in Messages, LockedInv(m), NEW w \in Workers,
           NEW c \in Copies, Deliver(w, c)
    PROVE  LockedInv(m)'
<1>1. /\ \A v \in Workers \ {w} : pc'[v] = pc[v] /\ job'[v] = job[v]
      /\ pc'[w] = "create" /\ job'[w] = c /\ pc[w] = "idle"
      /\ UNCHANGED <<published, record, effects>>
    BY DEF Deliver, Goto, TypeOK
<1>2. /\ \A v \in Workers \ {w} : On(v, m)' <=> On(v, m)
      /\ On(w, m)' <=> c.msg = m
      /\ ~On(w, m)
    BY <1>1 DEF On, Busy
<1>3. /\ \A d \in Copies \ {c} : Queued(d)' = Queued(d)
      /\ Queued(c) > 0 /\ Queued(c)' = Queued(c) - 1
    BY QueuedIsNatural DEF Deliver, Queued, TypeOK
<1>4. CASE c.msg # m
    <2>1. \A d \in Copies : d.msg = m => Queued(d)' = Queued(d)
        BY <1>3, <1>4
    <2>2. \A v \in Workers : /\ On(v, m)' <=> On(v, m)
                             /\ On(v, m) => pc'[v] = pc[v]
        BY <1>1, <1>2, <1>4
    <2> QED BY <1>1, <2>1, <2>2, OtherMessage
<1>5. CASE c.msg = m
    <2>1. ~NoneLeft(m) /\ m \in published
        BY <1>3, <1>5 DEF NoneLeft, LockedInv
    <2>2. \A v \in Workers : /\ Owns(v, m)' <=> Owns(v, m)
                             /\ Wants(v, m)' <=> v = w \/ Wants(v, m)
        BY <1>1, <1>2, <1>5 DEF Owns, Owner, Wants, Wanting
    <2>3. ASSUME AtMostOneLeft(m) PROVE AtMostOneLeft(m)'
        <3>1. /\ \A v \in Workers : ~Wants(v, m)
              /\ \A d \in Copies \ {c} : d.msg = m => Queued(d) = 0
              /\ Queued(c) = 1
            BY <1>3, <1>5, <2>3, QueuedIsNatural DEF AtMostOneLeft
        <3>2. \A d \in Copies : d.msg = m => Queued(d)' = 0
            BY <1>3, <3>1
        <3> QED BY <2>2, <3>1, <3>2 DEF AtMostOneLeft
    <2> QED BY <1>1, <1>2, <2>1, <2>2, <2>3 DEF LockedInv, Owns, Owner
<1> QED BY <1>4, <1>5

(* What is published is the first copy; a delay moves a copy.              *)
LEMMA LockedBroker ==
    ASSUME TypeOK, NEW m \in Messages, LockedInv(m),
           (\E n \in Messages : Publish(n)) \/ (\E c \in Copies : DelayElapses(c))
    PROVE  LockedInv(m)'
<1>0. /\ UNCHANGED <<record, effects, pc, job>>
      /\ \A w \in Workers : On(w, m)' <=> On(w, m)
    BY DEF Publish, DelayElapses, On, Busy
<1>1. ASSUME NEW c \in Copies, DelayElapses(c) PROVE LockedInv(m)'
    <2>1. \A d \in Copies : Queued(d)' = Queued(d)
        BY <1>1, QueuedIsNatural DEF DelayElapses, Queued, TypeOK
    <2> QED BY <1>0, <1>1, <2>1, OtherMessage DEF DelayElapses
<1>2. ASSUME NEW n \in Messages, Publish(n) PROVE LockedInv(m)'
    <2> DEFINE first == [msg |-> n, attempt |-> 1]
    <2>1. first \in Copies /\ first.msg = n
        BY FirstCopy
    <2>2. /\ \A d \in Copies \ {first} : Queued(d)' = Queued(d)
          /\ Queued(first)' = Queued(first) + 1
        BY <1>2, <2>1, QueuedIsNatural DEF Publish, Queued, TypeOK
    <2> HIDE DEF first
    <2>3. CASE n # m
        <3>1. \A d \in Copies : d.msg = m => Queued(d)' = Queued(d)
            BY <2>1, <2>2, <2>3
        <3> QED BY <1>0, <1>2, <2>3, <3>1, OtherMessage DEF Publish
    <2>4. CASE n = m
        <3>1. NoneLeft(m) /\ record[m] = "absent" /\ m \in published'
            BY <1>2, <2>4 DEF Publish, LockedInv
        <3>2. \A d \in Copies : d.msg = m => Queued(d)' = IF d = first THEN 1 ELSE 0
            BY <2>1, <2>2, <2>4, <3>1 DEF NoneLeft
        <3>3. \A w \in Workers : ~Wants(w, m)' /\ (Owns(w, m)' <=> Owns(w, m))
            BY <1>0, <3>1 DEF NoneLeft, Wants, Wanting, Owns, Owner
        <3>4. AtMostOneLeft(m)'
            BY <3>2, <3>3 DEF AtMostOneLeft
        <3>5. \A w \in Workers : ~Owns(w, m)
            BY <3>1 DEF LockedInv
        <3> QED BY <1>0, <3>1, <3>3, <3>4, <3>5 DEF LockedInv, Owns, Owner
    <2> QED BY <2>3, <2>4
<1> QED BY <1>1, <1>2

(* The steps in which no callback overtakes another one.                   *)
LockingStep ==
    \/ \E m \in Messages : Publish(m)
    \/ \E c \in Copies : DelayElapses(c)
    \/ \E w \in Workers, c \in Copies : Deliver(w, c)
    \/ \E w \in Workers :
         WorkerStep(w) \/ StoreError(w) \/ PublishError(w) \/ MarkFailedError(w)

(* Such are the steps of an instance without the faults that overtake: its *)
(* actions are those of MessageHandler, with fewer faults.                 *)
LEMMA LockedIsLocking == Locked!Next => LockingStep
<1> SUFFICES ASSUME Locked!Next PROVE LockingStep
    OBVIOUS
<1>1. ASSUME NEW kind, Locked!Fault(kind) PROVE Fault(kind) /\ kind \notin Overtaking
    BY <1>1 DEF Locked!Fault, Fault
<1>2. ASSUME NEW m \in Messages, Locked!Publish(m) PROVE Publish(m)
    BY <1>2 DEF Locked!Publish, Publish
<1>3. ASSUME NEW m \in Messages PROVE ~Locked!ProcessingTimeout(m)
    BY <1>1, <1>3 DEF Locked!ProcessingTimeout, Overtaking
<1>4. ASSUME NEW w \in Workers, NEW c \in Copies, Locked!Deliver(w, c) PROVE Deliver(w, c)
    BY <1>4 DEF Locked!Deliver, Deliver, Locked!Goto, Goto
<1>5. ASSUME NEW w \in Workers, Locked!StartStep(w) PROVE StartStep(w)
    BY <1>5 DEF Locked!StartStep, StartStep,
       Locked!CreateProcessing, CreateProcessing, Locked!FindExisting, FindExisting,
       Locked!DeleteFailed, DeleteFailed,
       Locked!RecreateProcessing, RecreateProcessing,
       Locked!ReclaimStaleProcessing, ReclaimStaleProcessing, Locked!Goto, Goto,
       Locked!brokerVars, brokerVars, Locked!AfterFind, AfterFind,
       Locked!Reclaimable, Reclaimable, Locked!InProgress, InProgress
<1>6. ASSUME NEW w \in Workers, Locked!HandlerStep(w) PROVE HandlerStep(w)
    BY <1>6 DEF Locked!HandlerStep, HandlerStep,
       Locked!CommitTransaction, CommitTransaction,
       Locked!HandlerReturns, HandlerReturns, Locked!MarkCompleted, MarkCompleted,
       Locked!HandlerThrowsRetryable, HandlerThrowsRetryable,
       Locked!HandlerThrowsNonRetryable, HandlerThrowsNonRetryable,
       Locked!HandlingFails, HandlingFails, Locked!RetryableError, RetryableError,
       Locked!ShouldRetry, ShouldRetry, Locked!NextAttempt, NextAttempt,
       Locked!InProgress, InProgress, Locked!Goto, Goto,
       Locked!brokerVars, brokerVars
<1>7. ASSUME NEW w \in Workers, Locked!ErrorStep(w) PROVE ErrorStep(w)
    BY <1>7 DEF Locked!ErrorStep, ErrorStep, Locked!PublishRetry, PublishRetry,
       Locked!ReleaseForRetry, ReleaseForRetry, Locked!MarkFailed, MarkFailed,
       Locked!RetryCopy, RetryCopy, Locked!NextAttempt, NextAttempt,
       Locked!InProgress, InProgress, Locked!Goto, Goto,
       Locked!brokerVars, brokerVars
<1>8. ASSUME NEW w \in Workers, Locked!SettleStep(w) PROVE SettleStep(w)
    BY <1>8 DEF Locked!SettleStep, SettleStep, Locked!Ack, Ack, Locked!Nack, Nack,
       Locked!Requeue, Requeue, Locked!EndJob, EndJob,
       Locked!BackToQueue, BackToQueue, Locked!Goto, Goto,
       Locked!brokerVars, brokerVars
<1>9. ASSUME NEW c \in Copies, Locked!DelayElapses(c) PROVE DelayElapses(c)
    BY <1>1, <1>9 DEF Locked!DelayElapses, DelayElapses
<1>10. ASSUME NEW w \in Workers, Locked!WorkerFault(w)
      PROVE  StoreError(w) \/ PublishError(w) \/ MarkFailedError(w)
    <2>1. ~Locked!ConnectionLoss(w) /\ ~Locked!Crash(w)
        BY <1>1 DEF Overtaking, Locked!ConnectionLoss, Locked!Crash
    <2>2. CASE Locked!StoreError(w)
        BY <1>1, <2>2 DEF Locked!StoreError, StoreError,
       Locked!RetryableError, RetryableError, Locked!ShouldRetry, ShouldRetry,
       Locked!NextAttempt, NextAttempt, Locked!Goto, Goto,
       Locked!brokerVars, brokerVars
    <2>3. CASE Locked!PublishError(w)
        BY <1>1, <2>3 DEF Locked!PublishError, PublishError, Locked!Goto, Goto,
       Locked!brokerVars, brokerVars
    <2>4. CASE Locked!MarkFailedError(w)
        BY <1>1, <2>4 DEF Locked!MarkFailedError, MarkFailedError,
       Locked!Goto, Goto, Locked!brokerVars, brokerVars
    <2> QED BY <1>10, <2>1, <2>2, <2>3, <2>4 DEF Locked!WorkerFault
<1>11. Locked!Copies = Copies
    BY DEF Locked!Copies, Copies, Locked!Attempts, Attempts
<1> QED BY <1>2, <1>3, <1>4, <1>5, <1>6, <1>7, <1>8, <1>9, <1>10, <1>11
      DEF Locked!Next, LockingStep, Locked!WorkerStep, WorkerStep

(* So is every step of MessageHandler itself, when no fault overtakes.     *)
LEMMA NextIsLocking ==
    ASSUME FaultKinds \cap Overtaking = {}, Next
    PROVE  LockingStep
<1>1. /\ \A n \in Messages : ~ProcessingTimeout(n)
      /\ \A w \in Workers : ~ConnectionLoss(w) /\ ~Crash(w)
    BY DEF Overtaking, ProcessingTimeout, ConnectionLoss, Crash, Fault
<1> QED BY <1>1 DEF Next, LockingStep, WorkerFault

(* Every such step keeps the lock.                                         *)
LEMMA LockedStep ==
    ASSUME RecordLocks, LockingStep \/ UNCHANGED vars
    PROVE  RecordLocks'
<1>1. TypeOK /\ TypeOK'
    BY TypeStep DEF RecordLocks, LockingStep, Next, WorkerFault
<1> SUFFICES ASSUME NEW m \in Messages, LockedInv(m) PROVE LockedInv(m)'
    BY <1>1 DEF RecordLocks
<1>2. ASSUME NEW w \in Workers, StartStep(w) PROVE LockedInv(m)'
    BY <1>1, <1>2, LockedStart
<1>3. ASSUME NEW w \in Workers, HandlerStep(w) \/ ErrorStep(w) PROVE LockedInv(m)'
    BY <1>1, <1>3, LockedHandler, LockedRetry DEF ErrorStep
<1>4. ASSUME NEW w \in Workers, SettleStep(w) PROVE LockedInv(m)'
    BY <1>1, <1>4, LockedSettle
<1>5. ASSUME NEW w \in Workers,
             StoreError(w) \/ PublishError(w) \/ MarkFailedError(w)
      PROVE  LockedInv(m)'
    BY <1>1, <1>5, LockedHandler, LockedGivenUp
<1>6. ASSUME NEW w \in Workers, NEW c \in Copies, Deliver(w, c) PROVE LockedInv(m)'
    BY <1>1, <1>6, LockedDelivery
<1>7. CASE UNCHANGED vars
    <2>1. /\ \A w \in Workers : On(w, m)' <=> On(w, m)
          /\ \A c \in Copies : Queued(c)' = Queued(c)
        BY <1>7 DEF vars, On, Busy, Queued
    <2> QED BY <1>7, <2>1, OtherMessage DEF vars
<1> QED BY <1>1, <1>2, <1>3, <1>4, <1>5, <1>6, <1>7, LockedBroker
      DEF LockingStep, WorkerStep

(* The lock holds at the start: there is no copy at all.                   *)
LEMMA LockedInit == Init => RecordLocks
<1> SUFFICES ASSUME Init, NEW m \in Messages PROVE LockedInv(m)
    BY TypeInit DEF RecordLocks
<1>1. /\ \A c \in Copies : Queued(c) = 0
      /\ \A w \in Workers : ~On(w, m)
    BY DEF Init, Queued, On, Busy
<1>2. NoneLeft(m)
    BY <1>1 DEF NoneLeft, Wants
<1> QED BY <1>1, <1>2, NoneIsAtMostOne DEF Init, LockedInv, Owns

(* What the lock is for.                                                   *)
LEMMA LockMeansOnce == RecordLocks => AtMostOnce
BY ConstantsAssumption DEF RecordLocks, LockedInv, AtMostOnce

(* An owner is alone with the handler.                                     *)
LEMMA LockMeansSole == RecordLocks => SoleOwner
<1> SUFFICES ASSUME RecordLocks, NEW v \in Workers, NEW w \in Workers, v # w,
                    pc[v] \in {"handle", "complete"}, On(w, job[v].msg),
                    pc[w] \in {"handle", "complete"}
             PROVE  FALSE
    BY DEF SoleOwner
<1>1. On(v, job[v].msg) /\ job[v].msg \in Messages
    BY DEF RecordLocks, TypeOK, On, Busy, Copies
<1> QED BY <1>1 DEF RecordLocks, LockedInv, Owns, Owner

(* Without overdue records, lost connections and crashes, a transactional  *)
(* effect is durable at most once, however often MongoDB or RabbitMQ       *)
(* refuses a call and whatever a retry copy is delivered before.           *)
THEOREM EffectsHappenOnce ==
    ASSUME FaultKinds \cap Overtaking = {}
    PROVE  Spec => []AtMostOnce
<1>1. RecordLocks /\ [Next]_vars => RecordLocks'
    BY LockedStep, NextIsLocking
<1> QED BY <1>1, LockMeansOnce, LockedInit, PTL DEF Spec

(* Nor do two callbacks ever run the handler of one message together.      *)
THEOREM RecordIsALock ==
    ASSUME FaultKinds \cap Overtaking = {}
    PROVE  Spec => []SoleOwner
<1>1. RecordLocks /\ [Next]_vars => RecordLocks'
    BY LockedStep, NextIsLocking
<1> QED BY <1>1, LockMeansSole, LockedInit, PTL DEF Spec

(* The same where a behaviour chooses for itself, at its start, whether it *)
(* meets the faults that overtake.                                         *)
LEMMA ChosenLock ==
    /\ MCInit => (locking => RecordLocks)
    /\ (locking => RecordLocks) /\ [MCNext]_<<vars, locking>>
           => (locking => RecordLocks)'
<1>1. MCInit => (locking => RecordLocks)
    BY LockedInit DEF MCInit
<1>2. ASSUME locking => RecordLocks, [MCNext]_<<vars, locking>>
      PROVE  (locking => RecordLocks)'
    <2>1. locking' = locking
        BY <1>2 DEF MCNext
    <2>2. CASE ~locking
        BY <2>1, <2>2
    <2>3. CASE locking
        <3>1. LockingStep \/ UNCHANGED vars
            BY <1>2, <2>3, LockedIsLocking DEF MCNext
        <3> QED BY <1>2, <2>1, <2>3, <3>1, LockedStep
    <2> QED BY <2>2, <2>3
<1> QED BY <1>1, <1>2

(* Whatever other faults a behaviour meets that chose to be locking, a     *)
(* transactional effect is durable at most once in it.                     *)
THEOREM LockedEffectsHappenOnce == MCSpec => []LockedAtMostOnce
<1>1. (locking => RecordLocks) => LockedAtMostOnce
    BY LockMeansOnce DEF LockedAtMostOnce
<1> QED BY <1>1, ChosenLock, PTL DEF MCSpec

(* And the record of a message is a lock on its handler in it.             *)
THEOREM LockedRecordIsALock == MCSpec => []LockedSoleOwner
<1>1. (locking => RecordLocks) => LockedSoleOwner
    BY LockMeansSole DEF LockedSoleOwner
<1> QED BY <1>1, ChosenLock, PTL DEF MCSpec

-------------------------------------------------------------------------------
(* Conservation.  The burden of a message counts sets, so a copy or a      *)
(* callback more is one element more.                                      *)

(* The copies in the queues, seen from one of them.                        *)
LEMMA InQueuesHas ==
    ASSUME NEW m \in Messages, NEW x
    PROVE  x \in InQueues(m) <=> \E c \in Copies : \E k \in 1..Queued(c) :
                                     c.msg = m /\ x = <<c, k>>
BY DEF InQueues

(* The same after a step.                                                  *)
LEMMA InQueuesHasNext ==
    ASSUME NEW m \in Messages, NEW x
    PROVE  x \in InQueues(m)' <=> \E c \in Copies : \E k \in 1..Queued(c)' :
                                     c.msg = m /\ x = <<c, k>>
BY DEF InQueues

(* A copy that is put into a queue is one more of its message.             *)
LEMMA CopyComes ==
    ASSUME TypeOK, NEW c \in Copies, NEW m \in Messages, IsFiniteSet(InQueues(m)),
           Queued(c)' = Queued(c) + 1,
           \A d \in Copies \ {c} : Queued(d)' = Queued(d)
    PROVE  /\ IsFiniteSet(InQueues(m)')
           /\ Cardinality(InQueues(m)') =
                Cardinality(InQueues(m)) + IF c.msg = m THEN 1 ELSE 0
<1>1. Queued(c) \in Nat
    BY QueuedIsNatural
<1>2. CASE c.msg = m
    <2> DEFINE x == <<c, Queued(c) + 1>>
    <2>1. x \notin InQueues(m)
        BY <1>1, InQueuesHas
    <2>2. \A y : y \in InQueues(m)' <=> y \in InQueues(m) \/ y = x
        <3> TAKE y
        <3>1. ASSUME NEW d \in Copies, NEW k
              PROVE  k \in 1..Queued(d)' <=>
                         k \in 1..Queued(d) \/ (d = c /\ k = Queued(c) + 1)
            BY <1>1
        <3> QED BY <1>1, <1>2, <3>1, InQueuesHas, InQueuesHasNext
    <2>3. InQueues(m)' = InQueues(m) \cup {x}
        BY <2>2
    <2> HIDE DEF x
    <2>4. /\ IsFiniteSet(InQueues(m) \cup {x})
          /\ Cardinality(InQueues(m) \cup {x}) = Cardinality(InQueues(m)) + 1
        BY <2>1, FS_AddElement
    <2> QED BY <1>2, <2>3, <2>4
<1>3. CASE c.msg # m
    <2>1. \A y : y \in InQueues(m)' <=> y \in InQueues(m)
        BY <1>3, InQueuesHas, InQueuesHasNext
    <2>2. InQueues(m)' = InQueues(m)
        BY <2>1
    <2> QED BY <1>3, <2>2, FS_CardinalityType
<1> QED BY <1>2, <1>3

(* A copy that is taken from a queue is one fewer.                         *)
LEMMA CopyGoes ==
    ASSUME TypeOK, NEW c \in Copies, NEW m \in Messages, IsFiniteSet(InQueues(m)),
           Queued(c) > 0, Queued(c)' = Queued(c) - 1,
           \A d \in Copies \ {c} : Queued(d)' = Queued(d)
    PROVE  /\ IsFiniteSet(InQueues(m)')
           /\ Cardinality(InQueues(m)') =
                Cardinality(InQueues(m)) - IF c.msg = m THEN 1 ELSE 0
<1>1. Queued(c) \in Nat
    BY QueuedIsNatural
<1>2. CASE c.msg = m
    <2> DEFINE x == <<c, Queued(c)>>
    <2>1. x \in InQueues(m)
        BY <1>1, <1>2, InQueuesHas
    <2>2. \A y : y \in InQueues(m)' <=> y \in InQueues(m) /\ y # x
        <3> TAKE y
        <3>1. ASSUME NEW d \in Copies, NEW k
              PROVE  k \in 1..Queued(d)' <=>
                         k \in 1..Queued(d) /\ ~(d = c /\ k = Queued(c))
            BY <1>1
        <3> QED BY <1>1, <1>2, <3>1, InQueuesHas, InQueuesHasNext
    <2>3. InQueues(m)' = InQueues(m) \ {x}
        BY <2>2
    <2> QED BY <1>2, <2>1, <2>3, FS_RemoveElement
<1>3. CASE c.msg # m
    <2>1. \A y : y \in InQueues(m)' <=> y \in InQueues(m)
        BY <1>3, InQueuesHas, InQueuesHasNext
    <2>2. InQueues(m)' = InQueues(m)
        BY <2>1
    <2> QED BY <1>3, <2>2, FS_CardinalityType
<1> QED BY <1>2, <1>3

(* What is not moved stays.                                                *)
LEMMA CopiesStay ==
    ASSUME NEW m \in Messages, \A c \in Copies : Queued(c)' = Queued(c)
    PROVE  InQueues(m)' = InQueues(m)
<1>1. \A y : y \in InQueues(m)' <=> y \in InQueues(m)
    BY InQueuesHas, InQueuesHasNext
<1> QED BY <1>1

(* When one callback moves, a message has a bearer more, one fewer or the  *)
(* same.                                                                   *)
LEMMA BearerMoves ==
    ASSUME NEW w \in Workers, NEW m \in Messages, IsFiniteSet(Bearers(m)),
           \A v \in Workers \ {w} : pc'[v] = pc[v] /\ job'[v] = job[v]
    PROVE  /\ IsFiniteSet(Bearers(m)')
           /\ Cardinality(Bearers(m)') =
                Cardinality(Bearers(m))
                    + (IF w \in Bearers(m)' THEN 1 ELSE 0)
                    - (IF w \in Bearers(m) THEN 1 ELSE 0)
<1>1. \A v \in Workers \ {w} : v \in Bearers(m)' <=> v \in Bearers(m)
    BY DEF Bearers, On, Busy, Undecided
<1>2. Bearers(m) \subseteq Workers /\ Bearers(m)' \subseteq Workers
    BY DEF Bearers
<1>3. Cardinality(Bearers(m)) \in Nat
    BY FS_CardinalityType
<1>4. CASE w \in Bearers(m)'
    <2>1. Bearers(m)' = Bearers(m) \cup {w}
        BY <1>1, <1>2, <1>4
    <2> QED BY <1>3, <1>4, <2>1, FS_AddElement
<1>5. CASE w \notin Bearers(m)'
    <2>1. Bearers(m)' = Bearers(m) \ {w}
        BY <1>1, <1>2, <1>5
    <2> QED BY <1>3, <1>5, <2>1, FS_RemoveElement
<1> QED BY <1>4, <1>5

(* A message nobody has published stays without a trace.                   *)
LEMMA NoTraceStep ==
    ASSUME TypeOK, [Next]_vars, NEW m \in Messages, NoTrace(m), m \notin published'
    PROVE  NoTrace(m)'
<1> USE DEF TypeOK, NoTrace, On, Busy, Goto, brokerVars, Queued
<1>1. ASSUME NEW n \in Messages, Publish(n) \/ ProcessingTimeout(n)
      PROVE  NoTrace(m)'
    BY <1>1 DEF Publish, ProcessingTimeout
<1>2. ASSUME NEW c \in Copies, DelayElapses(c) PROVE NoTrace(m)'
    BY <1>2 DEF DelayElapses
<1>3. ASSUME NEW w \in Workers, NEW c \in Copies, Deliver(w, c) PROVE NoTrace(m)'
    BY <1>3 DEF Deliver
<1>4. ASSUME NEW w \in Workers, StartStep(w) PROVE NoTrace(m)'
    BY <1>4 DEF StartStep, CreateProcessing, FindExisting, DeleteFailed,
       RecreateProcessing, ReclaimStaleProcessing
<1>5. ASSUME NEW w \in Workers, HandlerStep(w) PROVE NoTrace(m)'
    BY <1>5 DEF HandlerStep, HandlingFails, RetryableError, CommitTransaction,
       HandlerReturns, MarkCompleted, HandlerThrowsRetryable,
       HandlerThrowsNonRetryable
<1>6. ASSUME NEW w \in Workers, ErrorStep(w) PROVE NoTrace(m)'
    <2>1. CASE PublishRetry(w)
        <3>1. job[w] \in Copies /\ RetryCopy(job[w]).msg # m
            BY <2>1 DEF PublishRetry, RetryCopy, Copies
        <3> QED BY <2>1, <3>1 DEF PublishRetry
    <2> QED BY <1>6, <2>1 DEF ErrorStep, ReleaseForRetry, MarkFailed
<1>7. ASSUME NEW w \in Workers, SettleStep(w) PROVE NoTrace(m)'
    BY <1>7 DEF SettleStep, Ack, Nack, Requeue, BackToQueue, EndJob
<1>8. ASSUME NEW w \in Workers, WorkerFault(w) PROVE NoTrace(m)'
    BY <1>8 DEF WorkerFault, StoreError, RetryableError, PublishError,
       MarkFailedError, ConnectionLoss, Crash, BackToQueue, EndJob
<1>9. CASE UNCHANGED vars
    BY <1>9 DEF vars
<1> QED
    BY <1>1, <1>2, <1>3, <1>4, <1>5, <1>6, <1>7, <1>8, <1>9 DEF Next, WorkerStep

(* What is published stays published.                                      *)
LEMMA PublishedStays == [Next]_vars => published \subseteq published'
BY DEF Next, vars, brokerVars, Publish, ProcessingTimeout, DelayElapses,
   Deliver, WorkerStep, StartStep, CreateProcessing, FindExisting,
   DeleteFailed, RecreateProcessing, ReclaimStaleProcessing, HandlerStep,
   CommitTransaction, HandlerReturns, MarkCompleted, HandlerThrowsRetryable,
   HandlerThrowsNonRetryable, ErrorStep, PublishRetry, ReleaseForRetry,
   MarkFailed, SettleStep, Ack, Nack, Requeue, WorkerFault, StoreError,
   PublishError, MarkFailedError, ConnectionLoss, Crash

(* No trace, no burden.                                                    *)
LEMMA NoTraceNoBurden ==
    ASSUME NEW m \in Messages, NoTrace(m)
    PROVE  InQueues(m) = {} /\ Bearers(m) = {}
BY DEF NoTrace, InQueues, Bearers

(* A callback at work, by whose move at most what it carries changes.      *)
LEMMA CallbackMoves ==
    ASSUME TypeOK, NEW w \in Workers,
           StartStep(w) \/ HandlerStep(w) \/ ErrorStep(w)
               \/ StoreError(w) \/ PublishError(w) \/ MarkFailedError(w)
    PROVE  /\ Busy(w) /\ job[w] \in Copies /\ job[w].msg \in Messages
           /\ UNCHANGED <<published, ready, dlq, job>>
           /\ \A v \in Workers \ {w} : pc'[v] = pc[v] /\ job'[v] = job[v]
           /\ pc'[w] # "idle"
           /\ \A m \in Messages \ {job[w].msg} :
                record'[m] = record[m] /\ effects'[m] = effects[m]
<1> USE DEF TypeOK, Busy, Goto, brokerVars, Copies
<1>1. CASE StartStep(w)
    BY <1>1 DEF StartStep, CreateProcessing, FindExisting, DeleteFailed,
       RecreateProcessing, ReclaimStaleProcessing, AfterFind, Statuses
<1>2. CASE HandlerStep(w)
    BY <1>2 DEF HandlerStep, HandlingFails, RetryableError, CommitTransaction,
       HandlerReturns, MarkCompleted, HandlerThrowsRetryable,
       HandlerThrowsNonRetryable
<1>3. CASE ErrorStep(w)
    BY <1>3 DEF ErrorStep, PublishRetry, ReleaseForRetry, MarkFailed
<1>4. CASE StoreError(w) \/ PublishError(w) \/ MarkFailedError(w)
    BY <1>4 DEF StoreError, RetryableError, PublishError, MarkFailedError
<1> QED BY <1>1, <1>2, <1>3, <1>4

(* The numbers of one message before a step.                               *)
LEMMA BurdenIsNatural ==
    ASSUME ConservationInv, NEW m \in Messages
    PROVE  /\ Cardinality(InQueues(m)) \in Nat /\ Cardinality(Bearers(m)) \in Nat
           /\ dlq[m] \in Nat /\ effects[m] \in Nat /\ faults \in Nat
           /\ Cardinality(InQueues(m)) + Cardinality(Bearers(m)) + dlq[m]
                  + (IF m \in TxMessages THEN effects[m] ELSE 0) <= 1 + faults
BY ConstantsAssumption, FS_CardinalityType
   DEF ConservationInv, TypeOK, Conservation, Burden

(* What one step may add to the burden and the outcomes of a message: no   *)
(* more than to the faults.                                                *)
Adds(m, q, b, d, e) ==
    /\ IsFiniteSet(InQueues(m)') /\ IsFiniteSet(Bearers(m)')
    /\ Cardinality(InQueues(m)') = Cardinality(InQueues(m)) + q
    /\ Cardinality(Bearers(m)') = Cardinality(Bearers(m)) + b
    /\ dlq'[m] = dlq[m] + d
    /\ m \in TxMessages => effects'[m] = effects[m] + e
    /\ faults' \in Nat
    /\ q + b + d + (IF m \in TxMessages THEN e ELSE 0) <= faults' - faults

(* The step keeps the account of m.                                        *)
Kept(m) ==
    /\ IsFiniteSet(InQueues(m)') /\ IsFiniteSet(Bearers(m)')
    /\ Burden(m)' + dlq'[m] + (IF m \in TxMessages THEN effects'[m] ELSE 0)
           <= 1 + faults'

(* Nothing is added that a fault does not pay for.                         *)
LEMMA AddsKeeps ==
    ASSUME ConservationInv, NEW m \in Messages,
           NEW q \in Int, NEW b \in Int, NEW d \in Int, NEW e \in Int,
           Adds(m, q, b, d, e)
    PROVE  Kept(m)
<1>1. /\ Cardinality(InQueues(m)) \in Nat /\ Cardinality(Bearers(m)) \in Nat
      /\ dlq[m] \in Nat /\ effects[m] \in Nat /\ faults \in Nat
      /\ Cardinality(InQueues(m)) + Cardinality(Bearers(m)) + dlq[m]
             + (IF m \in TxMessages THEN effects[m] ELSE 0) <= 1 + faults
    BY BurdenIsNatural
<1>2. Burden(m)' = Cardinality(InQueues(m)') + Cardinality(Bearers(m)')
    BY DEF Burden
<1> QED BY <1>1, <1>2 DEF Adds, Kept

(* Whether a callback bears a message, before and after its move.          *)
LEMMA BearersHave ==
    ASSUME NEW w \in Workers, NEW m \in Messages
    PROVE  /\ w \in Bearers(m) <=> On(w, m) /\ Undecided(w)
           /\ w \in Bearers(m)' <=> On(w, m)' /\ Undecided(w)'
BY DEF Bearers

(* A callback that gets further, without a copy coming or going.           *)
LEMMA CallbackConserves ==
    ASSUME ConservationInv, TypeOK', NEW m \in Messages, NEW w \in Workers,
           \/ StartStep(w) \/ HandlerStep(w) \/ ReleaseForRetry(w) \/ MarkFailed(w)
           \/ StoreError(w) \/ PublishError(w) \/ MarkFailedError(w)
    PROVE  Kept(m)
<1>1. TypeOK /\ IsFiniteSet(InQueues(m)) /\ IsFiniteSet(Bearers(m))
    BY DEF ConservationInv
<1>2. /\ Busy(w) /\ job[w] \in Copies /\ job[w].msg \in Messages
      /\ UNCHANGED <<published, ready, dlq, job>>
      /\ \A v \in Workers \ {w} : pc'[v] = pc[v] /\ job'[v] = job[v]
      /\ pc'[w] # "idle"
      /\ \A n \in Messages \ {job[w].msg} : effects'[n] = effects[n]
    BY <1>1, CallbackMoves DEF ErrorStep
<1>3. delayed' = delayed /\ faults' \in Nat /\ faults \in Nat
    BY <1>1 DEF StartStep, CreateProcessing, FindExisting, DeleteFailed,
       RecreateProcessing, ReclaimStaleProcessing, HandlerStep, CommitTransaction,
       HandlerReturns, MarkCompleted, HandlerThrowsRetryable,
       HandlerThrowsNonRetryable, ReleaseForRetry, MarkFailed, StoreError,
       PublishError, MarkFailedError, brokerVars, TypeOK
<1>4. InQueues(m)' = InQueues(m)
    BY <1>2, <1>3, CopiesStay DEF Queued
<1>5. On(w, m) <=> job[w].msg = m
    BY <1>2 DEF On
<1>6. On(w, m)' <=> job[w].msg = m
    BY <1>2 DEF On, Busy
<1> DEFINE before == IF w \in Bearers(m) THEN 1 ELSE 0
           after == IF w \in Bearers(m)' THEN 1 ELSE 0
<1>7. /\ IsFiniteSet(Bearers(m)')
      /\ Cardinality(Bearers(m)') = Cardinality(Bearers(m)) + after - before
    BY <1>1, <1>2, BearerMoves
<1>8. /\ faults' >= faults
      /\ ~Undecided(w) /\ Undecided(w)' => faults' = faults + 1
    <2> USE <1>1, <1>3 DEF TypeOK, Undecided, Goto, RetryableError, HandlingFails
    <2>1. CASE StartStep(w)
        BY <2>1 DEF StartStep, CreateProcessing, FindExisting, DeleteFailed,
           RecreateProcessing, ReclaimStaleProcessing
    <2>2. CASE HandlerStep(w) \/ ReleaseForRetry(w) \/ MarkFailed(w)
        BY <2>2 DEF HandlerStep, CommitTransaction, HandlerReturns, MarkCompleted,
           HandlerThrowsRetryable, HandlerThrowsNonRetryable, ReleaseForRetry,
           MarkFailed
    <2>3. CASE StoreError(w) \/ PublishError(w) \/ MarkFailedError(w)
        BY <2>3 DEF StoreError, PublishError, MarkFailedError, Fault
    <2> QED BY <2>1, <2>2, <2>3
<1>9. m \in TxMessages =>
        \/ effects'[m] = effects[m]
        \/ /\ effects'[m] = effects[m] + 1
           /\ Undecided(w) /\ ~Undecided(w)' /\ job[w].msg = m
    <2> USE <1>1, <1>2 DEF TypeOK, Undecided, Goto, HandlingFails
    <2>1. CASE HandlerStep(w)
        BY <2>1 DEF HandlerStep, CommitTransaction, HandlerReturns, MarkCompleted,
           HandlerThrowsRetryable, HandlerThrowsNonRetryable
    <2>2. CASE ~HandlerStep(w)
        BY <2>2 DEF StartStep, CreateProcessing, FindExisting, DeleteFailed,
           RecreateProcessing, ReclaimStaleProcessing, ReleaseForRetry, MarkFailed,
           StoreError, PublishError, MarkFailedError
    <2> QED BY <2>1, <2>2
<1> DEFINE e == IF m \in TxMessages THEN effects'[m] - effects[m] ELSE 0
<1>10. /\ dlq'[m] = dlq[m] /\ dlq[m] \in Nat /\ effects[m] \in Nat
       /\ Cardinality(InQueues(m)) \in Nat /\ Cardinality(Bearers(m)) \in Nat
       /\ effects'[m] \in Nat
    BY <1>2, BurdenIsNatural DEF TypeOK
<1>11. e \in Int /\ after \in Int /\ before \in Int /\ after - before \in Int
    BY <1>10
<1>12. after - before + e <= faults' - faults
    <2>1. w \in Bearers(m) <=> job[w].msg = m /\ Undecided(w)
        BY <1>5, BearersHave
    <2>2. w \in Bearers(m)' <=> job[w].msg = m /\ Undecided(w)'
        BY <1>6, BearersHave
    <2>3. PICK x \in {0, 1} : x = after
        OBVIOUS
    <2>4. PICK y \in {0, 1} : y = before
        OBVIOUS
    <2>5. PICK f \in Nat : f = faults
        BY <1>3
    <2>6. PICK g \in Nat : g = faults'
        BY <1>3
    <2>7. PICK i \in Int : i = e
        BY <1>11
    <2>8. g >= f /\ (x = 1 /\ y = 0 => g = f + 1)
        BY <1>8, <2>1, <2>2, <2>3, <2>4, <2>5, <2>6
    <2>9. i = 0 \/ (i = 1 /\ x = 0 /\ y = 1)
        BY <1>9, <1>10, <2>1, <2>2, <2>3, <2>4, <2>7
    <2>10. x - y + i <= g - f
        BY <2>8, <2>9
    <2> QED BY <2>3, <2>4, <2>5, <2>6, <2>7, <2>10
<1>13. m \in TxMessages => effects'[m] = effects[m] + e
    BY <1>10
<1> HIDE DEF e, after, before
<1>14. Adds(m, 0, after - before, 0, e)
    <2>1. /\ Cardinality(InQueues(m)') = Cardinality(InQueues(m)) + 0
          /\ dlq'[m] = dlq[m] + 0
          /\ IsFiniteSet(InQueues(m)')
        BY <1>1, <1>4, <1>10
    <2>2. Cardinality(Bearers(m)') = Cardinality(Bearers(m)) + (after - before)
        BY <1>7, <1>10, <1>11
    <2>3. 0 + (after - before) + 0 + (IF m \in TxMessages THEN e ELSE 0)
             <= faults' - faults
        <3>1. m \notin TxMessages => e = 0
            BY DEF e
        <3> QED BY <1>11, <1>12, <3>1
    <2> QED BY <1>3, <1>7, <1>13, <2>1, <2>2, <2>3 DEF Adds
<1> QED BY <1>11, <1>14, AddsKeeps

(* A callback that decides nothing more, and the copy it may leave behind. *)
LEMMA LeaverConserves ==
    ASSUME ConservationInv, TypeOK', NEW m \in Messages, NEW w \in Workers,
           PublishRetry(w) \/ SettleStep(w) \/ Crash(w)
    PROVE  Kept(m)
<1>1. TypeOK /\ IsFiniteSet(InQueues(m)) /\ IsFiniteSet(Bearers(m))
    BY DEF ConservationInv
<1>2. /\ Busy(w) /\ job[w] \in Copies
      /\ effects' = effects
      /\ \A v \in Workers \ {w} : pc'[v] = pc[v] /\ job'[v] = job[v]
      /\ ~Undecided(w)'
      /\ faults \in Nat /\ faults' \in Nat
    BY <1>1 DEF PublishRetry, SettleStep, Ack, Nack, Requeue, EndJob, Crash, Goto,
       brokerVars, Busy, Undecided, TypeOK
<1>3. On(w, m) <=> job[w].msg = m
    BY <1>2 DEF On
<1>4. PICK b \in {0, 1} : b = IF w \in Bearers(m) THEN 1 ELSE 0
    OBVIOUS
<1>5. b = 1 <=> job[w].msg = m /\ Undecided(w)
    BY <1>3, <1>4, BearersHave
<1>6. /\ IsFiniteSet(Bearers(m)')
      /\ Cardinality(Bearers(m)') = Cardinality(Bearers(m)) - b
    <2>1. w \notin Bearers(m)'
        BY <1>2, BearersHave
    <2>2. Cardinality(Bearers(m)) \in Nat
        BY BurdenIsNatural
    <2> QED BY <1>1, <1>2, <1>4, <2>1, <2>2, BearerMoves
(* A copy comes of it, or none.                                            *)
<1>7. ASSUME NEW q \in {0, 1}, NEW d \in {0, 1},
             IsFiniteSet(InQueues(m)'),
             Cardinality(InQueues(m)') = Cardinality(InQueues(m)) + q,
             dlq'[m] = dlq[m] + d,
             faults' = faults, q + d <= b
      PROVE  Kept(m)
    <2>1. -b \in Int /\ q \in Int /\ d \in Int /\ Cardinality(Bearers(m)) \in Nat
        BY BurdenIsNatural
    <2>2. Adds(m, q, -b, d, 0)
        <3>1. Cardinality(Bearers(m)') = Cardinality(Bearers(m)) + (-b)
            BY <1>6, <2>1
        <3>2. effects'[m] = effects[m] + 0
            BY <1>2, BurdenIsNatural
        <3>3. q + (-b) + d + (IF m \in TxMessages THEN 0 ELSE 0) <= 0
            BY <1>7
        <3>4. faults' - faults = 0
            BY <1>2, <1>7
        <3> QED BY <1>2, <1>6, <1>7, <3>1, <3>2, <3>3, <3>4 DEF Adds
    <2> QED BY <2>1, <2>2, AddsKeeps
<1>8. /\ Cardinality(InQueues(m)) \in Nat /\ dlq[m] \in Nat
      /\ Cardinality(Bearers(m)) \in Nat
    BY BurdenIsNatural
<1>9. ASSUME UNCHANGED <<ready, delayed>> PROVE InQueues(m)' = InQueues(m)
    BY <1>9, CopiesStay DEF Queued
(* BackToQueue, with the copy it puts back or without.                     *)
<1>10. ASSUME BackToQueue(w), delayed' = delayed
       PROVE  \E q \in {0, 1} :
                 /\ IsFiniteSet(InQueues(m)')
                 /\ Cardinality(InQueues(m)') = Cardinality(InQueues(m)) + q
                 /\ q = 1 => job[w].msg = m
    <2>1. CASE w \in held
        <3>1. PICK c \in Copies : c = job[w]
            BY <1>2
        <3>2. ready' = [ready EXCEPT ![c] = @ + 1] /\ ready \in [Copies -> Nat]
            BY <1>1, <1>10, <2>1, <3>1 DEF BackToQueue, TypeOK
        <3>3. /\ Queued(c)' = Queued(c) + 1
              /\ \A d \in Copies \ {c} : Queued(d)' = Queued(d)
            BY <1>1, <1>10, <3>2, QueuedIsNatural DEF Queued
        <3> QED BY <1>1, <3>1, <3>3, CopyComes
    <2>2. CASE w \notin held
        <3>1. InQueues(m)' = InQueues(m)
            BY <1>9, <1>10, <2>2 DEF BackToQueue
        <3> QED BY <1>1, <1>8, <3>1
    <2> QED BY <2>1, <2>2
<1>11. CASE PublishRetry(w)
    <2>0. PICK r : r = RetryCopy(job[w])
        OBVIOUS
    <2>1. /\ UNCHANGED <<published, ready, dlq, faults>>
          /\ delayed' = [delayed EXCEPT ![r] = @ + 1]
          /\ Undecided(w)
        BY <1>11, <2>0 DEF PublishRetry, Undecided
    <2>2. r.msg = job[w].msg
        BY <1>2, <2>0 DEF RetryCopy, Copies
    <2>3. dlq'[m] = dlq[m] + 0
        BY <1>8, <2>1
    <2>4. CASE r \in Copies
        <3>1. /\ Queued(r)' = Queued(r) + 1
              /\ \A c \in Copies \ {r} : Queued(c)' = Queued(c)
            BY <1>1, <2>1, <2>4, QueuedIsNatural DEF Queued, TypeOK
        <3>2. /\ IsFiniteSet(InQueues(m)')
              /\ Cardinality(InQueues(m)') =
                    Cardinality(InQueues(m)) + IF r.msg = m THEN 1 ELSE 0
            BY <1>1, <2>4, <3>1, CopyComes
        <3>3. b = IF r.msg = m THEN 1 ELSE 0
            BY <1>5, <2>1, <2>2
        <3>4. b + 0 <= b
            OBVIOUS
        <3> QED BY <1>7, <2>1, <2>3, <3>2, <3>3, <3>4
    <2>5. CASE r \notin Copies
        <3>1. delayed' = delayed
            BY <1>1, <2>1, <2>5 DEF TypeOK
        <3>2. InQueues(m)' = InQueues(m)
            BY <1>9, <2>1, <3>1
        <3>3. /\ Cardinality(InQueues(m)') = Cardinality(InQueues(m)) + 0
              /\ IsFiniteSet(InQueues(m)')
            BY <1>1, <1>8, <3>2
        <3>4. 0 + 0 <= b
            OBVIOUS
        <3> QED BY <1>7, <2>1, <2>3, <3>3, <3>4
    <2> QED BY <2>4, <2>5
<1>12. CASE Ack(w) \/ Nack(w)
    <2>1. UNCHANGED <<ready, delayed, faults>>
        BY <1>12 DEF Ack, Nack, brokerVars
    <2>2. PICK d \in {0, 1} : dlq'[m] = dlq[m] + d /\ d <= b
        <3>1. CASE dlq'[m] = dlq[m]
            BY <1>8, <3>1
        <3>2. CASE dlq'[m] # dlq[m]
            <4>1. Undecided(w) /\ job[w].msg = m /\ dlq'[m] = dlq[m] + 1
                BY <1>1, <1>12, <3>2 DEF Ack, Nack, brokerVars, Undecided, TypeOK
            <4> QED BY <1>5, <4>1
        <3> QED BY <3>1, <3>2
    <2>3. /\ Cardinality(InQueues(m)') = Cardinality(InQueues(m)) + 0
          /\ IsFiniteSet(InQueues(m)')
        BY <1>1, <1>8, <1>9, <2>1
    <2>4. 0 + d <= b
        BY <2>2
    <2> QED BY <1>7, <2>1, <2>2, <2>3, <2>4
<1>13. CASE Requeue(w)
    <2>1. BackToQueue(w) /\ UNCHANGED <<delayed, dlq, faults>> /\ Undecided(w)
        BY <1>13 DEF Requeue, Undecided
    <2>2. PICK q \in {0, 1} :
              /\ IsFiniteSet(InQueues(m)')
              /\ Cardinality(InQueues(m)') = Cardinality(InQueues(m)) + q
              /\ q = 1 => job[w].msg = m
        BY <1>10, <2>1
    <2>3. q + 0 <= b
        BY <1>5, <2>1, <2>2
    <2>4. dlq'[m] = dlq[m] + 0
        BY <1>8, <2>1
    <2> QED BY <1>7, <2>1, <2>2, <2>3, <2>4
<1>14. CASE Crash(w)
    <2>1. BackToQueue(w) /\ UNCHANGED <<delayed, dlq>> /\ faults' = faults + 1
        BY <1>14 DEF Crash, Fault
    <2>2. PICK q \in {0, 1} :
              /\ IsFiniteSet(InQueues(m)')
              /\ Cardinality(InQueues(m)') = Cardinality(InQueues(m)) + q
        BY <1>10, <2>1
    <2>3. Adds(m, q, -b, 0, 0)
        <3>1. Cardinality(Bearers(m)') = Cardinality(Bearers(m)) + (-b)
            BY <1>6, <1>8
        <3>2. effects'[m] = effects[m] + 0 /\ dlq'[m] = dlq[m] + 0
            BY <1>2, <2>1, BurdenIsNatural
        <3>3. q + (-b) + 0 + (IF m \in TxMessages THEN 0 ELSE 0) <= 1
            OBVIOUS
        <3>4. faults' - faults = 1
            BY <1>2, <2>1
        <3> QED BY <1>2, <1>6, <2>2, <3>1, <3>2, <3>3, <3>4 DEF Adds
    <2>4. -b \in Int /\ q \in Int
        OBVIOUS
    <2> QED BY <2>3, <2>4, AddsKeeps
<1> QED BY <1>11, <1>12, <1>13, <1>14 DEF SettleStep

(* A step in which a message keeps its callbacks, while its copies, its    *)
(* faults or both go up by one, or it stays as it is.                      *)
LEMMA QueuesConserve ==
    ASSUME ConservationInv, NEW m \in Messages, NEW q \in {0, 1},
           IsFiniteSet(InQueues(m)'),
           Cardinality(InQueues(m)') = Cardinality(InQueues(m)) + q,
           UNCHANGED <<pc, job, dlq, effects>>,
           faults' \in Nat, q <= faults' - faults
    PROVE  Kept(m)
<1>1. Bearers(m)' = Bearers(m)
    BY DEF Bearers, On, Busy, Undecided
<1>2. Adds(m, q, 0, 0, 0)
    <2>1. /\ Cardinality(Bearers(m)') = Cardinality(Bearers(m)) + 0
          /\ dlq'[m] = dlq[m] + 0 /\ effects'[m] = effects[m] + 0
          /\ IsFiniteSet(Bearers(m)')
        BY <1>1, BurdenIsNatural DEF ConservationInv
    <2>2. q + 0 + 0 + (IF m \in TxMessages THEN 0 ELSE 0) = q
        OBVIOUS
    <2> QED BY <2>1, <2>2 DEF Adds
<1> QED BY <1>2, AddsKeeps

(* A delivery hands a copy from a queue to a callback.                     *)
LEMMA DeliveryConserves ==
    ASSUME ConservationInv, NEW m \in Messages, NEW w \in Workers,
           NEW c \in Copies, Deliver(w, c)
    PROVE  Kept(m)
<1>1. TypeOK /\ IsFiniteSet(InQueues(m)) /\ IsFiniteSet(Bearers(m))
    BY DEF ConservationInv
<1>2. /\ \A v \in Workers \ {w} : pc'[v] = pc[v] /\ job'[v] = job[v]
      /\ pc'[w] = "create" /\ job'[w] = c /\ pc[w] = "idle"
      /\ UNCHANGED <<dlq, effects, faults>>
    BY <1>1 DEF Deliver, Goto, TypeOK
<1>3. PICK x \in {0, 1} : x = IF c.msg = m THEN 1 ELSE 0
    OBVIOUS
<1>4. /\ IsFiniteSet(InQueues(m)')
      /\ Cardinality(InQueues(m)') = Cardinality(InQueues(m)) - x
    <2>1. /\ \A d \in Copies \ {c} : Queued(d)' = Queued(d)
          /\ Queued(c) > 0 /\ Queued(c)' = Queued(c) - 1
        BY <1>1, QueuedIsNatural DEF Deliver, Queued, TypeOK
    <2> QED BY <1>1, <1>3, <2>1, CopyGoes
<1>5. /\ IsFiniteSet(Bearers(m)')
      /\ Cardinality(Bearers(m)') = Cardinality(Bearers(m)) + x
    <2>1. w \notin Bearers(m)
        BY <1>2, BearersHave DEF On, Busy
    <2>2. w \in Bearers(m)' <=> c.msg = m
        BY <1>2, BearersHave DEF On, Busy, Undecided
    <2>3. Cardinality(Bearers(m)) \in Nat
        BY BurdenIsNatural
    <2> QED BY <1>1, <1>2, <1>3, <2>1, <2>2, <2>3, BearerMoves
<1>6. Adds(m, -x, x, 0, 0)
    <2>1. Cardinality(InQueues(m)') = Cardinality(InQueues(m)) + (-x)
        BY <1>4, BurdenIsNatural
    <2>2. dlq'[m] = dlq[m] + 0 /\ effects'[m] = effects[m] + 0 /\ faults' \in Nat
        BY <1>2, BurdenIsNatural
    <2>3. faults' - faults = 0
        BY <1>2, BurdenIsNatural
    <2>4. (-x) + x + 0 + (IF m \in TxMessages THEN 0 ELSE 0) <= 0
        OBVIOUS
    <2> QED BY <1>4, <1>5, <2>1, <2>2, <2>3, <2>4 DEF Adds
<1>7. -x \in Int /\ x \in Int
    OBVIOUS
<1> QED BY <1>6, <1>7, AddsKeeps

(* No step adds more to a message than a fault.                            *)
LEMMA ConservationStep ==
    ASSUME ConservationInv, [Next]_vars
    PROVE  ConservationInv'
<1>1. TypeOK /\ TypeOK'
    BY TypeStep DEF ConservationInv
<1>2. ASSUME NEW m \in Messages \ published' PROVE NoTrace(m)'
    <2>1. NoTrace(m)
        BY PublishedStays DEF ConservationInv
    <2> QED BY <1>1, <2>1, NoTraceStep
<1>3. ASSUME NEW m \in Messages PROVE Kept(m)
    <2>1. /\ Cardinality(InQueues(m)) \in Nat /\ faults \in Nat
          /\ dlq[m] \in Nat /\ effects[m] \in Nat
          /\ IsFiniteSet(InQueues(m))
        BY BurdenIsNatural DEF ConservationInv
    <2>2. faults' \in Nat
        BY <1>1, ConstantsAssumption DEF TypeOK
    <2>3. ASSUME \A c \in Copies : Queued(c)' = Queued(c),
                 UNCHANGED <<pc, job, dlq, effects>>,
                 faults' = faults \/ faults' = faults + 1
          PROVE  Kept(m)
        <3>1. InQueues(m)' = InQueues(m)
            BY <2>3, CopiesStay
        <3>2. /\ IsFiniteSet(InQueues(m)')
              /\ Cardinality(InQueues(m)') = Cardinality(InQueues(m)) + 0
            BY <2>1, <3>1
        <3>3. 0 <= faults' - faults
            <4>1. PICK f \in Nat : f = faults
                BY <2>1
            <4>2. faults' = f \/ faults' = f + 1
                BY <2>3, <4>1
            <4> QED BY <4>1, <4>2
        <3> QED BY <2>2, <2>3, <3>2, <3>3, QueuesConserve
    <2>4. ASSUME NEW n \in Messages, Publish(n) PROVE Kept(m)
        <3>1. PICK first \in Copies : first = [msg |-> n, attempt |-> 1]
            BY FirstCopy
        <3>2. /\ ready' = [ready EXCEPT ![first] = @ + 1]
              /\ UNCHANGED <<delayed, dlq, record, effects, pc, job, faults>>
              /\ published' = published \cup {n} /\ n \notin published
            BY <2>4, <3>1 DEF Publish
        <3>3. /\ \A d \in Copies \ {first} : Queued(d)' = Queued(d)
              /\ Queued(first)' = Queued(first) + 1
            BY <1>1, <3>2, QueuedIsNatural DEF Queued, TypeOK
        <3>4. /\ IsFiniteSet(InQueues(m)')
              /\ Cardinality(InQueues(m)') =
                    Cardinality(InQueues(m)) + IF first.msg = m THEN 1 ELSE 0
            BY <1>1, <2>1, <3>3, CopyComes
        <3>5. CASE n # m
            <4>1. Cardinality(InQueues(m)') = Cardinality(InQueues(m)) + 0
                BY <2>1, <3>1, <3>4, <3>5
            <4>2. 0 <= faults' - faults
                BY <2>1, <3>2
            <4> QED BY <2>2, <3>2, <3>4, <4>1, <4>2, QueuesConserve
        <3>6. CASE n = m
            <4>1. NoTrace(m)
                BY <3>2, <3>6 DEF ConservationInv
            <4>2. InQueues(m) = {} /\ Bearers(m) = {} /\ dlq[m] = 0 /\ effects[m] = 0
                BY <4>1, NoTraceNoBurden DEF NoTrace
            <4>3. Bearers(m)' = {}
                BY <3>2, <4>2 DEF Bearers, On, Busy, Undecided
            <4>4. Cardinality(InQueues(m)') = 1 /\ Cardinality(Bearers(m)') = 0
                BY <3>1, <3>4, <3>6, <4>2, <4>3, FS_EmptySet
            <4>5. IsFiniteSet(Bearers(m)')
                BY <4>3, FS_EmptySet
            <4>6. Burden(m)' = 1
                BY <4>4 DEF Burden
            <4>7. dlq'[m] = 0 /\ effects'[m] = 0
                BY <3>2, <4>2
            <4>8. (IF m \in TxMessages THEN effects'[m] ELSE 0) = 0
                BY <4>7
            <4>9. PICK f \in Nat : f = faults'
                BY <2>2
            <4>10. 1 + 0 + 0 <= 1 + f
                OBVIOUS
            <4> QED BY <3>4, <4>5, <4>6, <4>7, <4>8, <4>9, <4>10
                  DEF Kept
        <3> QED BY <3>5, <3>6
    <2>5. ASSUME NEW n \in Messages, ProcessingTimeout(n) PROVE Kept(m)
        BY <2>3, <2>5 DEF ProcessingTimeout, Fault, brokerVars, Queued
    <2>6. ASSUME NEW c \in Copies, DelayElapses(c) PROVE Kept(m)
        <3>1. \A d \in Copies : Queued(d)' = Queued(d)
            BY <1>1, <2>6, QueuedIsNatural DEF DelayElapses, Queued, TypeOK
        <3> QED BY <2>3, <2>6, <3>1 DEF DelayElapses, Fault
    <2>7. ASSUME NEW w \in Workers, NEW c \in Copies, Deliver(w, c) PROVE Kept(m)
        BY <2>7, DeliveryConserves
    <2>8. ASSUME NEW w \in Workers, ConnectionLoss(w) PROVE Kept(m)
        <3>1. job[w] \in Copies
            BY <1>1, <2>8 DEF ConnectionLoss, TypeOK
        <3>2. PICK c \in Copies : c = job[w]
            BY <3>1
        <3>3. /\ ready' = [ready EXCEPT ![c] = @ + 1]
              /\ UNCHANGED <<delayed, dlq, effects, pc, job>>
              /\ faults' = faults + 1
            BY <2>8, <3>2 DEF ConnectionLoss, BackToQueue, Fault
        <3>4. /\ \A d \in Copies \ {c} : Queued(d)' = Queued(d)
              /\ Queued(c)' = Queued(c) + 1
            BY <1>1, <3>3, QueuedIsNatural DEF Queued, TypeOK
        <3>5. PICK q \in {0, 1} : q = IF c.msg = m THEN 1 ELSE 0
            OBVIOUS
        <3>6. /\ IsFiniteSet(InQueues(m)')
              /\ Cardinality(InQueues(m)') = Cardinality(InQueues(m)) + q
            BY <1>1, <2>1, <3>4, <3>5, CopyComes
        <3>7. q <= faults' - faults
            BY <2>1, <3>3
        <3> QED BY <2>2, <3>3, <3>6, <3>7, QueuesConserve
    <2>9. CASE UNCHANGED vars
        BY <2>3, <2>9 DEF vars, Queued
    <2>10. ASSUME NEW w \in Workers, WorkerStep(w) PROVE Kept(m)
        BY <1>1, <2>10, CallbackConserves, LeaverConserves DEF WorkerStep, ErrorStep
    <2>11. ASSUME NEW w \in Workers, WorkerFault(w) PROVE Kept(m)
        BY <1>1, <2>8, <2>11, CallbackConserves, LeaverConserves DEF WorkerFault
    <2> QED BY <2>4, <2>5, <2>6, <2>7, <2>9, <2>10, <2>11 DEF Next
<1>4. Conservation'
    BY <1>3 DEF Kept, Conservation
<1> QED BY <1>1, <1>2, <1>3, <1>4 DEF ConservationInv, Kept

(* Under every fault of the model, a fault adds one execution, dead letter *)
(* or copy of a message at most.                                           *)
THEOREM MessagesAreConserved == Spec => []Conservation
<1>1. Init => ConservationInv
    <2> SUFFICES ASSUME Init PROVE ConservationInv
        OBVIOUS
    <2>1. \A m \in Messages : NoTrace(m) /\ dlq[m] = 0 /\ effects[m] = 0
        BY DEF Init, NoTrace, Queued, On, Busy
    <2>2. \A m \in Messages : InQueues(m) = {} /\ Bearers(m) = {}
        BY <2>1, NoTraceNoBurden
    <2>3. \A m \in Messages : Burden(m) = 0
        BY <2>2, FS_EmptySet DEF Burden
    <2>4. faults = 0
        BY DEF Init
    <2>5. Conservation
        BY <2>1, <2>3, <2>4 DEF Conservation
    <2> QED BY <2>1, <2>2, <2>5, TypeInit, FS_EmptySet DEF ConservationInv
<1>2. ConservationInv /\ [Next]_vars => ConservationInv'
    BY ConservationStep
<1>3. ConservationInv => Conservation
    BY DEF ConservationInv
<1> QED BY <1>1, <1>2, <1>3, PTL DEF Spec

-------------------------------------------------------------------------------
(* The steps that leave every message with one carrier.                    *)
HarmlessStep ==
    \/ \E m \in Messages : Publish(m) \/ ProcessingTimeout(m)
    \/ \E c \in Copies :
         /\ DelayElapses(c)
         /\ \A w \in Workers : ~(pc[w] = "release" /\ job[w].msg = c.msg)
    \/ \E w \in Workers, c \in Copies : Deliver(w, c)
    \/ \E w \in Workers : WorkerStep(w) \/ PublishError(w)

(* A step of the instance without storeError is such a step: its actions   *)
(* are those of MessageHandler, with fewer faults.                         *)
LEMMA SteadyIsHarmless ==
    ASSUME FaultKinds \subseteq ToleratedFaults, Steady!Next
    PROVE  HarmlessStep
<1>1. ASSUME NEW kind, Steady!Fault(kind) PROVE Fault(kind) /\ kind \in HarmlessFaults
    BY <1>1 DEF Steady!Fault, Fault, ToleratedFaults, HarmlessFaults
<1>2. ASSUME NEW m \in Messages, Steady!Publish(m) PROVE Publish(m)
    BY <1>2 DEF Steady!Publish, Publish
<1>3. ASSUME NEW m \in Messages, Steady!ProcessingTimeout(m) PROVE ProcessingTimeout(m)
    BY <1>1, <1>3 DEF Steady!ProcessingTimeout, ProcessingTimeout,
       Steady!brokerVars, brokerVars
<1>4. ASSUME NEW w \in Workers, NEW c \in Copies, Steady!Deliver(w, c) PROVE Deliver(w, c)
    BY <1>4 DEF Steady!Deliver, Deliver, Steady!Goto, Goto
<1>5. ASSUME NEW w \in Workers, Steady!StartStep(w) PROVE StartStep(w)
    BY <1>5 DEF Steady!StartStep, StartStep,
       Steady!CreateProcessing, CreateProcessing, Steady!FindExisting, FindExisting,
       Steady!DeleteFailed, DeleteFailed,
       Steady!RecreateProcessing, RecreateProcessing,
       Steady!ReclaimStaleProcessing, ReclaimStaleProcessing, Steady!Goto, Goto,
       Steady!brokerVars, brokerVars, Steady!AfterFind, AfterFind,
       Steady!Reclaimable, Reclaimable, Steady!InProgress, InProgress
<1>6. ASSUME NEW w \in Workers, Steady!HandlerStep(w) PROVE HandlerStep(w)
    BY <1>6 DEF Steady!HandlerStep, HandlerStep,
       Steady!CommitTransaction, CommitTransaction,
       Steady!HandlerReturns, HandlerReturns, Steady!MarkCompleted, MarkCompleted,
       Steady!HandlerThrowsRetryable, HandlerThrowsRetryable,
       Steady!HandlerThrowsNonRetryable, HandlerThrowsNonRetryable,
       Steady!HandlingFails, HandlingFails, Steady!RetryableError, RetryableError,
       Steady!ShouldRetry, ShouldRetry, Steady!NextAttempt, NextAttempt,
       Steady!InProgress, InProgress, Steady!Goto, Goto,
       Steady!brokerVars, brokerVars
<1>7. ASSUME NEW w \in Workers, Steady!ErrorStep(w) PROVE ErrorStep(w)
    BY <1>7 DEF Steady!ErrorStep, ErrorStep, Steady!PublishRetry, PublishRetry,
       Steady!ReleaseForRetry, ReleaseForRetry, Steady!MarkFailed, MarkFailed,
       Steady!RetryCopy, RetryCopy, Steady!NextAttempt, NextAttempt,
       Steady!InProgress, InProgress, Steady!Goto, Goto,
       Steady!brokerVars, brokerVars
<1>8. ASSUME NEW w \in Workers, Steady!SettleStep(w) PROVE SettleStep(w)
    BY <1>8 DEF Steady!SettleStep, SettleStep, Steady!Ack, Ack, Steady!Nack, Nack,
       Steady!Requeue, Requeue, Steady!EndJob, EndJob,
       Steady!BackToQueue, BackToQueue, Steady!Goto, Goto,
       Steady!brokerVars, brokerVars
<1>9. ASSUME NEW c \in Copies, Steady!DelayElapses(c)
      PROVE  /\ DelayElapses(c)
             /\ \A w \in Workers : ~(pc[w] = "release" /\ job[w].msg = c.msg)
    BY <1>1, <1>9 DEF Steady!DelayElapses, DelayElapses, HarmlessFaults
<1>10. ASSUME NEW w \in Workers, Steady!WorkerFault(w) PROVE PublishError(w)
    BY <1>1, <1>10 DEF HarmlessFaults, Steady!WorkerFault, WorkerFault,
       Steady!StoreError, StoreError, Steady!PublishError, PublishError,
       Steady!MarkFailedError, MarkFailedError,
       Steady!ConnectionLoss, ConnectionLoss, Steady!Crash, Crash,
       Steady!Goto, Goto, Steady!brokerVars, brokerVars
<1>11. Steady!Copies = Copies
    BY DEF Steady!Copies, Copies, Steady!Attempts, Attempts
<1> QED BY <1>2, <1>3, <1>4, <1>5, <1>6, <1>7, <1>8, <1>9, <1>10, <1>11
      DEF Steady!Next, HarmlessStep, Steady!WorkerStep, WorkerStep

(* What a step leaves alone keeps its outcome.                             *)
LEMMA OutcomeOther ==
    ASSUME NEW m \in Messages, OutcomeInv(m),
           m \in published' <=> m \in published,
           record'[m] = record[m], effects'[m] = effects[m], dlq'[m] = dlq[m],
           \A c \in Copies : c.msg = m => ready'[c] = ready[c] /\ delayed'[c] = delayed[c],
           \A w \in Workers : On(w, m)' <=> On(w, m),
           \A w \in Workers : On(w, m) => pc'[w] = pc[w]
    PROVE  OutcomeInv(m)'
<1>1. \A c \in Copies : c.msg = m => Queued(c)' = Queued(c) /\ ready'[c] = ready[c]
    BY DEF Queued
<1>2. \A w \in Workers : On(w, m) => /\ Undecided(w)' <=> Undecided(w)
                                     /\ Committed(w)' <=> Committed(w)
    BY DEF Undecided, Committed
<1>3. NoTrace(m) => NoTrace(m)'
    BY <1>1 DEF NoTrace
<1>4. OneHasIt(m)'
    BY <1>1, <1>2 DEF OneHasIt, OutcomeInv
<1>5. Undone(m)'
    BY <1>1, <1>2 DEF Undone, OutcomeInv
<1> QED BY <1>3, <1>4, <1>5 DEF OutcomeInv

(* The callback that has m is alone with it.                               *)
LEMMA Alone ==
    ASSUME TypeOK, NEW m \in Messages, OutcomeInv(m), NEW w \in Workers,
           On(w, m), pc[w] # "ack"
    PROVE  /\ m \in published
           /\ \A v \in Workers \ {w} : On(v, m) => pc[v] = "ack"
           /\ Undecided(w) =>
                /\ \A c \in Copies : c.msg = m =>
                       Queued(c) = 0 /\ ready[c] = 0 /\ delayed[c] = 0
                /\ pc[w] = "create" \/ Committed(w)
                /\ effects[m] = (IF pc[w] = "complete" THEN 1 ELSE 0) /\ dlq[m] = 0
                /\ pc[w] = "create" => record[m] = "absent"
                /\ pc[w] \in {"handle", "complete"} => record[m] \in InProgress
<1>1. m \in published
    BY DEF OutcomeInv, NoTrace
<1>2. \A v \in Workers \ {w} : On(v, m) => pc[v] = "ack"
    BY DEF OutcomeInv, OneHasIt
<1>3. ASSUME Undecided(w), NEW c \in Copies, c.msg = m
      PROVE  Queued(c) = 0 /\ ready[c] = 0 /\ delayed[c] = 0
    <2>1. Queued(c) = 0
        BY <1>3 DEF OutcomeInv, OneHasIt
    <2> QED BY <2>1, QueuedIsNatural DEF Queued
<1>4. Undecided(w) =>
        /\ pc[w] = "create" \/ Committed(w)
        /\ effects[m] = (IF pc[w] = "complete" THEN 1 ELSE 0) /\ dlq[m] = 0
        /\ pc[w] = "create" => record[m] = "absent"
        /\ pc[w] \in {"handle", "complete"} => record[m] \in InProgress
    BY DEF OutcomeInv, Undone
<1> QED BY <1>1, <1>2, <1>3, <1>4

(* It keeps m through its handler, and when it leaves it, m has at most    *)
(* one outcome.                                                            *)
LEMMA AloneKeeps ==
    ASSUME TypeOK, NEW m \in Messages, OutcomeInv(m), NEW w \in Workers,
           On(w, m), Undecided(w),
           UNCHANGED <<published, ready, delayed, dlq, job>>,
           NEW to \in {"handle", "complete", "publish", "fail", "nack", "ack"},
           Goto(w, to),
           to = "ack" => effects'[m] \in {0, 1},
           to # "ack" => effects'[m] = IF to = "complete" THEN 1 ELSE 0,
           to \in {"handle", "complete"} => record'[m] \in InProgress
    PROVE  OutcomeInv(m)'
<1>1. pc[w] # "ack"
    BY DEF Undecided
<1>2. /\ m \in published
      /\ \A v \in Workers \ {w} : On(v, m) => pc[v] = "ack"
      /\ \A c \in Copies : c.msg = m => Queued(c) = 0
      /\ dlq[m] = 0
    BY <1>1, Alone
<1>3. pc'[w] = to /\ \A v \in Workers \ {w} : pc'[v] = pc[v]
    BY DEF Goto, TypeOK
<1>4. \A v \in Workers : On(v, m)' <=> On(v, m)
    BY <1>3 DEF On, Busy
<1>5. \A v \in Workers \ {w} : On(v, m)' => pc'[v] = "ack"
    BY <1>2, <1>3, <1>4
<1>6. \A c \in Copies : c.msg = m => Queued(c)' = 0
    BY <1>2 DEF Queued
<1>7. OneHasIt(m)'
    BY <1>3, <1>5, <1>6 DEF OneHasIt
<1>8. Undone(m)'
    <2>1. \A v \in Workers \ {w} : On(v, m)' => ~Undecided(v)'
        BY <1>5 DEF Undecided
    <2>2. Undecided(w)' => to # "ack"
        BY <1>3 DEF Undecided
    <2>3. to # "ack" => Committed(w)'
        BY <1>3 DEF Committed
    <2>4. dlq'[m] = 0
        BY <1>2
    <2> QED BY <1>3, <1>6, <2>1, <2>2, <2>3, <2>4 DEF Undone
<1>9. effects'[m] + dlq'[m] <= 1
    BY <1>2
<1> QED BY <1>2, <1>7, <1>8, <1>9 DEF OutcomeInv

(* What a step does to the outcomes: nothing, or it publishes one message, *)
(* executes it or dead-letters it, each once and for good.                 *)
SameOutcomes == UNCHANGED <<published, effects, dlq>>

(* One message is published, takes effect or is dead-lettered.             *)
NewOutcome(m) ==
    /\ m \in Messages /\ effects[m] = 0 /\ dlq[m] = 0
    /\ \/ /\ m \notin published /\ published' = published \cup {m}
          /\ UNCHANGED <<effects, dlq>>
       \/ /\ m \in published /\ effects' = [effects EXCEPT ![m] = 1]
          /\ UNCHANGED <<published, dlq>>
       \/ /\ m \in published /\ dlq' = [dlq EXCEPT ![m] = 1]
          /\ UNCHANGED <<published, effects>>

(* At most one message.                                                    *)
OneOutcomeMore == SameOutcomes \/ \E m \in Messages : NewOutcome(m)

(* A callback that gets further with one message leaves the others alone.  *)
LEMMA CallbackOthers ==
    ASSUME OneOutcome, NEW w \in Workers, NEW m \in Messages, m # job[w].msg,
           StartStep(w) \/ HandlerStep(w) \/ ErrorStep(w) \/ PublishError(w)
    PROVE  OutcomeInv(m)'
<1>1. TypeOK /\ OutcomeInv(m)
    BY DEF OneOutcome
<1>2. /\ Busy(w) /\ job[w] \in Copies
      /\ UNCHANGED <<published, ready, dlq, job>>
      /\ \A v \in Workers \ {w} : pc'[v] = pc[v] /\ job'[v] = job[v]
      /\ pc'[w] # "idle"
      /\ record'[m] = record[m] /\ effects'[m] = effects[m]
    BY <1>1, CallbackMoves
<1>3. \A c \in Copies : c.msg = m => delayed'[c] = delayed[c]
    <2>1. CASE PublishRetry(w)
        <3>1. PICK r : r = RetryCopy(job[w])
            OBVIOUS
        <3>2. r.msg = job[w].msg
            BY <1>2, <3>1 DEF RetryCopy, Copies
        <3>3. delayed' = [delayed EXCEPT ![r] = @ + 1]
            BY <2>1, <3>1 DEF PublishRetry
        <3> QED BY <1>1, <3>2, <3>3 DEF TypeOK
    <2>2. CASE ~PublishRetry(w)
        BY <2>2 DEF StartStep, CreateProcessing, FindExisting, DeleteFailed,
           RecreateProcessing, ReclaimStaleProcessing, HandlerStep, CommitTransaction,
           HandlerReturns, MarkCompleted, HandlerThrowsRetryable,
           HandlerThrowsNonRetryable, ErrorStep, ReleaseForRetry, MarkFailed,
           PublishError, brokerVars
    <2> QED BY <2>1, <2>2
<1>4. \A v \in Workers : On(v, m)' <=> On(v, m)
    BY <1>2 DEF On, Busy
<1>5. \A v \in Workers : On(v, m) => pc'[v] = pc[v]
    BY <1>2 DEF On
<1> QED BY <1>1, <1>2, <1>3, <1>4, <1>5, OutcomeOther

(* startProcessing finds the record free.                                  *)
LEMMA StartOutcome ==
    ASSUME OneOutcome, NEW w \in Workers, StartStep(w)
    PROVE  SameOutcomes /\ \A m \in Messages : OutcomeInv(m)'
<1>1. TypeOK /\ Busy(w) /\ job[w].msg \in Messages /\ Undecided(w)
    BY CallbackMoves DEF OneOutcome, StartStep, CreateProcessing, FindExisting,
       DeleteFailed, RecreateProcessing, ReclaimStaleProcessing, Undecided
<1>2. PICK m \in Messages : m = job[w].msg
    BY <1>1
<1>3. On(w, m) /\ OutcomeInv(m) /\ pc[w] # "ack"
    BY <1>1, <1>2 DEF On, OneOutcome, Undecided
<1>4. /\ pc[w] = "create" \/ Committed(w)
      /\ pc[w] = "create" => record[m] = "absent"
      /\ effects[m] = IF pc[w] = "complete" THEN 1 ELSE 0
    BY <1>1, <1>3, Alone
<1>5. CreateProcessing(w) /\ record[m] = "absent" /\ pc[w] = "create" /\ effects[m] = 0
    BY <1>4 DEF Committed, StartStep, CreateProcessing, FindExisting,
       DeleteFailed, RecreateProcessing, ReclaimStaleProcessing
<1>6. /\ UNCHANGED <<published, ready, delayed, dlq, job, effects>>
      /\ Goto(w, "handle") /\ record'[m] = "processing"
    BY <1>1, <1>2, <1>5 DEF CreateProcessing, brokerVars, TypeOK
<1>7. OutcomeInv(m)'
    <2>1. "handle" # "ack" /\ effects'[m] = IF "handle" = "complete" THEN 1 ELSE 0
        BY <1>5, <1>6
    <2>2. record'[m] \in InProgress
        BY <1>6 DEF InProgress
    <2> QED BY <1>1, <1>3, <1>6, <2>1, <2>2, AloneKeeps
<1> QED BY <1>2, <1>6, <1>7, CallbackOthers DEF SameOutcomes

(* A handler gives m its effect once, or fails before it has one.          *)
LEMMA HandlerOutcome ==
    ASSUME OneOutcome, NEW w \in Workers, HandlerStep(w)
    PROVE  OneOutcomeMore /\ \A m \in Messages : OutcomeInv(m)'
<1>1. TypeOK /\ Busy(w) /\ job[w].msg \in Messages /\ Undecided(w)
    BY CallbackMoves DEF OneOutcome, HandlerStep, CommitTransaction, HandlerReturns,
       MarkCompleted, HandlerThrowsRetryable, HandlerThrowsNonRetryable, Undecided
<1>2. PICK m \in Messages : m = job[w].msg
    BY <1>1
<1>3. On(w, m) /\ OutcomeInv(m) /\ pc[w] # "ack"
    BY <1>1, <1>2 DEF On, OneOutcome, Undecided
<1>4. /\ m \in published /\ dlq[m] = 0
      /\ effects[m] = IF pc[w] = "complete" THEN 1 ELSE 0
      /\ pc[w] \in {"handle", "complete"} => record[m] \in InProgress
    BY <1>1, <1>3, Alone
<1>5. /\ pc[w] \in {"handle", "complete"} /\ record[m] \in InProgress
      /\ UNCHANGED <<published, ready, delayed, dlq, job>>
    BY <1>4 DEF HandlerStep, CommitTransaction, HandlerReturns, MarkCompleted,
       HandlerThrowsRetryable, HandlerThrowsNonRetryable, brokerVars
<1>6. effects \in [Messages -> Nat] /\ record \in [Messages -> Statuses]
    BY <1>1 DEF TypeOK
(* The handler takes effect.                                               *)
<1>7. ASSUME effects' = [effects EXCEPT ![m] = @ + 1], pc[w] = "handle"
      PROVE  NewOutcome(m) /\ effects'[m] = 1
    BY <1>4, <1>5, <1>6, <1>7 DEF NewOutcome
<1>8. CASE CommitTransaction(w)
    <2>1. /\ effects' = [effects EXCEPT ![m] = @ + 1] /\ pc[w] = "handle"
          /\ Goto(w, "ack")
        BY <1>2, <1>5, <1>8 DEF CommitTransaction
    <2>2. OutcomeInv(m)'
        BY <1>1, <1>3, <1>5, <1>7, <2>1, AloneKeeps
    <2> QED BY <1>2, <1>7, <2>1, <2>2, CallbackOthers DEF OneOutcomeMore
<1>9. CASE HandlerReturns(w)
    <2>1. /\ effects' = [effects EXCEPT ![m] = @ + 1] /\ pc[w] = "handle"
          /\ Goto(w, "complete") /\ record' = record
        BY <1>2, <1>9 DEF HandlerReturns
    <2>2. OutcomeInv(m)'
        BY <1>1, <1>3, <1>5, <1>7, <2>1, AloneKeeps
    <2> QED BY <1>2, <1>7, <2>1, <2>2, CallbackOthers DEF OneOutcomeMore
<1>10. CASE MarkCompleted(w)
    <2>1. /\ effects' = effects /\ pc[w] = "complete" /\ Goto(w, "ack")
        BY <1>2, <1>5, <1>10 DEF MarkCompleted
    <2>2. OutcomeInv(m)'
        BY <1>1, <1>3, <1>4, <1>5, <2>1, AloneKeeps
    <2> QED BY <1>2, <1>5, <2>1, <2>2, CallbackOthers DEF OneOutcomeMore, SameOutcomes
<1>11. CASE HandlerThrowsRetryable(w) \/ HandlerThrowsNonRetryable(w)
    <2>1. PICK to \in {"publish", "fail"} : Goto(w, to)
        BY <1>11 DEF HandlerThrowsRetryable, HandlerThrowsNonRetryable, HandlingFails,
           RetryableError
    <2>2. effects' = effects /\ pc[w] = "handle"
        BY <1>11 DEF HandlerThrowsRetryable, HandlerThrowsNonRetryable, HandlingFails
    <2>3. OutcomeInv(m)'
        BY <1>1, <1>3, <1>4, <1>5, <2>1, <2>2, AloneKeeps
    <2> QED BY <1>2, <1>5, <2>2, <2>3, CallbackOthers DEF OneOutcomeMore, SameOutcomes
<1> QED BY <1>8, <1>9, <1>10, <1>11 DEF HandlerStep

(* The retry copy is out before the record is released, and nobody else is *)
(* there to meet it.                                                       *)
LEMMA ErrorOutcome ==
    ASSUME OneOutcome, NEW w \in Workers, ErrorStep(w) \/ PublishError(w)
    PROVE  SameOutcomes /\ \A m \in Messages : OutcomeInv(m)'
<1>1. /\ TypeOK /\ Busy(w) /\ job[w] \in Copies /\ job[w].msg \in Messages
      /\ UNCHANGED <<published, ready, dlq, job>>
      /\ \A v \in Workers \ {w} : pc'[v] = pc[v] /\ job'[v] = job[v]
    BY CallbackMoves DEF OneOutcome
<1>2. PICK m \in Messages : m = job[w].msg
    BY <1>1
<1>3. On(w, m) /\ OutcomeInv(m) /\ pc[w] # "ack"
    BY <1>1, <1>2 DEF On, OneOutcome, ErrorStep, PublishRetry, ReleaseForRetry,
       MarkFailed, PublishError
<1>4. SameOutcomes
    BY <1>1 DEF SameOutcomes, ErrorStep, PublishRetry, ReleaseForRetry, MarkFailed,
       PublishError, brokerVars
<1>5. /\ m \in published
      /\ \A v \in Workers \ {w} : On(v, m) => pc[v] = "ack"
    BY <1>1, <1>3, Alone
<1>6. \A v \in Workers : On(v, m)' => v = w \/ pc'[v] = "ack"
    BY <1>1, <1>5 DEF On, Busy
<1>7. m \in published' /\ effects' = effects /\ dlq' = dlq
    BY <1>4, <1>5 DEF SameOutcomes
<1>8. CASE MarkFailed(w) \/ PublishError(w)
    <2>1. PICK to \in {"nack", "fail"} : Goto(w, to)
        BY <1>8 DEF MarkFailed, PublishError
    <2>2. Undecided(w) /\ pc[w] # "complete" /\ delayed' = delayed
        BY <1>8 DEF MarkFailed, PublishError, Undecided, brokerVars
    <2>3. effects'[m] = 0
        BY <1>1, <1>3, <1>7, <2>2, Alone
    <2> QED BY <1>1, <1>2, <1>3, <1>4, <2>1, <2>2, <2>3, AloneKeeps, CallbackOthers
          DEF ErrorStep
<1>9. CASE ReleaseForRetry(w)
    <2>1. /\ record'[m] = "absent" /\ pc'[w] = "ack" /\ delayed' = delayed
          /\ pc[w] = "release"
        BY <1>1, <1>2, <1>9 DEF ReleaseForRetry, Goto, brokerVars, TypeOK
    <2>2. \A v \in Workers : On(v, m)' => pc'[v] = "ack" /\ ~Undecided(v)'
        BY <1>6, <2>1 DEF Undecided
    <2>3. \A c \in Copies : Queued(c)' = Queued(c)
        BY <1>1, <2>1 DEF Queued
    <2>4. OneHasIt(m)'
        <3>1. OneHasIt(m)
            BY <1>3 DEF OutcomeInv
        <3> QED BY <2>2, <2>3, <3>1 DEF OneHasIt
    <2>5. Undone(m)'
        <3>1. Undone(m)
            BY <1>3 DEF OutcomeInv
        <3> QED BY <1>7, <2>1, <2>2, <2>3, <3>1 DEF Undone
    <2>6. OutcomeInv(m)'
        BY <1>3, <1>7, <2>4, <2>5 DEF OutcomeInv
    <2> QED BY <1>2, <1>4, <1>9, <2>6, CallbackOthers DEF ErrorStep
<1>10. CASE PublishRetry(w)
    <2>1. PICK r : r = RetryCopy(job[w])
        OBVIOUS
    <2>2. /\ delayed' = [delayed EXCEPT ![r] = @ + 1]
          /\ pc[w] = "publish" /\ pc'[w] = "release" /\ record' = record
        BY <1>1, <1>10, <2>1 DEF PublishRetry, Goto, TypeOK
    <2>3. Undecided(w)
        BY <2>2 DEF Undecided
    <2>4. /\ \A c \in Copies : c.msg = m =>
                Queued(c) = 0 /\ ready[c] = 0 /\ delayed[c] = 0
          /\ effects[m] = 0 /\ dlq[m] = 0
        BY <1>1, <1>3, <2>2, <2>3, Alone
    <2>5. \A c \in Copies : c.msg = m =>
             ready'[c] = 0 /\ Queued(c)' = IF c = r THEN 1 ELSE 0
        BY <1>1, <2>2, <2>4 DEF Queued, TypeOK
    <2>6. \A v \in Workers : On(v, m)' =>
             /\ ~Undecided(v)'
             /\ v = w \/ pc'[v] = "ack"
        BY <1>6, <2>2 DEF Undecided
    <2>7. On(w, m)' /\ pc'[w] = "release"
        BY <1>1, <1>3, <2>2 DEF On, Busy
    <2>8. OneHasIt(m)'
        BY <2>5, <2>6 DEF OneHasIt
    <2>9. Undone(m)'
        BY <1>7, <2>4, <2>6, <2>7 DEF Undone
    <2>10. OutcomeInv(m)'
        BY <1>3, <1>7, <2>8, <2>9 DEF OutcomeInv
    <2> QED BY <1>2, <1>4, <1>10, <2>10, CallbackOthers DEF ErrorStep
<1> QED BY <1>8, <1>9, <1>10 DEF ErrorStep

(* Settling: an acknowledged delivery is nobody's any more, a rejected one *)
(* is dead-lettered before it has had an effect, none is put back.         *)
LEMMA SettleOutcome ==
    ASSUME OneOutcome, NEW w \in Workers, SettleStep(w)
    PROVE  OneOutcomeMore /\ \A m \in Messages : OutcomeInv(m)'
<1>1. /\ TypeOK /\ Busy(w) /\ job[w] \in Copies /\ job[w].msg \in Messages
      /\ pc[w] \in {"ack", "nack", "requeue"}
      /\ EndJob(w) /\ UNCHANGED <<published, delayed, record, effects>>
    BY DEF OneOutcome, SettleStep, Ack, Nack, Requeue, Busy, TypeOK, Copies, brokerVars
<1>2. /\ \A v \in Workers \ {w} : pc'[v] = pc[v] /\ job'[v] = job[v]
      /\ pc'[w] = "idle"
    BY <1>1 DEF EndJob, Goto, TypeOK
<1>3. ASSUME NEW m \in Messages
      PROVE  /\ OutcomeInv(m)
             /\ \A v \in Workers : On(v, m)' <=> v # w /\ On(v, m)
             /\ On(w, m) <=> job[w].msg = m
    BY <1>1, <1>2 DEF OneOutcome, On, Busy
<1>4. PICK m \in Messages : m = job[w].msg
    BY <1>1
<1>5. On(w, m) /\ pc[w] # "requeue"
    <2>1. On(w, m)
        BY <1>3, <1>4
    <2>2. ASSUME pc[w] = "requeue" PROVE FALSE
        BY <1>1, <1>3, <2>1, <2>2, Alone DEF Undecided, Committed
    <2> QED BY <2>1, <2>2
<1>6. ready' = ready
    BY <1>5 DEF SettleStep, Ack, Nack, Requeue, brokerVars
<1>7. \A c \in Copies : Queued(c)' = Queued(c) /\ ready'[c] = ready[c]
    BY <1>1, <1>6 DEF Queued
(* The messages it was not about.                                          *)
<1>8. ASSUME NEW n \in Messages, n # m PROVE OutcomeInv(n)'
    <2>1. dlq'[n] = dlq[n]
        BY <1>1, <1>4, <1>8 DEF SettleStep, Ack, Nack, Requeue, brokerVars, TypeOK
    <2>2. \A v \in Workers : On(v, n)' <=> On(v, n)
        BY <1>3, <1>4, <1>8
    <2>3. \A v \in Workers : On(v, n) => pc'[v] = pc[v]
        BY <1>2, <1>3, <1>4, <1>8
    <2> QED BY <1>1, <1>3, <1>6, <2>1, <2>2, <2>3, OutcomeOther
(* The one it was about: it has no more callbacks than before.             *)
<1>9. \A v \in Workers : On(v, m)' => /\ v # w /\ On(v, m) /\ pc'[v] = pc[v]
                                      /\ Undecided(v)' <=> Undecided(v)
                                      /\ Committed(v)' <=> Committed(v)
    BY <1>2, <1>3 DEF Undecided, Committed
<1>10. OneHasIt(m)'
    <2>1. OneHasIt(m)
        BY <1>3 DEF OutcomeInv
    <2> QED BY <1>7, <1>9, <2>1 DEF OneHasIt
<1>11. m \in published
    BY <1>3, <1>5 DEF OutcomeInv, NoTrace
<1>12. CASE pc[w] = "ack"
    <2>1. dlq' = dlq
        BY <1>12 DEF SettleStep, Ack, Nack, Requeue, brokerVars
    <2>2. Undone(m)'
        <3>1. Undone(m)
            BY <1>3 DEF OutcomeInv
        <3>2. \A v \in Workers : On(v, m) /\ pc[v] = "release" => On(v, m)' /\ pc'[v] = "release"
            BY <1>2, <1>3, <1>12
        <3> QED BY <1>1, <1>7, <1>9, <2>1, <3>1, <3>2 DEF Undone
    <2>3. OutcomeInv(m)'
        BY <1>1, <1>3, <1>10, <1>11, <2>1, <2>2 DEF OutcomeInv
    <2> QED BY <1>1, <1>8, <2>1, <2>3 DEF OneOutcomeMore, SameOutcomes
<1>13. CASE pc[w] = "nack"
    <2>1. Undecided(w)
        BY <1>13 DEF Undecided
    <2>2. /\ \A v \in Workers \ {w} : On(v, m) => pc[v] = "ack"
          /\ \A c \in Copies : c.msg = m => Queued(c) = 0
          /\ effects[m] = 0 /\ dlq[m] = 0
        BY <1>1, <1>3, <1>5, <1>13, <2>1, Alone
    <2>3. Undone(m)'
        BY <1>7, <1>9, <2>2 DEF Undone, Undecided
    <2>4. dlq' = dlq \/ dlq' = [dlq EXCEPT ![m] = @ + 1]
        BY <1>4, <1>13 DEF SettleStep, Ack, Nack, Requeue, brokerVars
    <2>5. dlq' = dlq \/ dlq' = [dlq EXCEPT ![m] = 1]
        BY <1>1, <2>2, <2>4 DEF TypeOK
    <2>6. dlq'[m] \in {0, 1}
        BY <1>1, <2>2, <2>5 DEF TypeOK
    <2>7. OutcomeInv(m)'
        BY <1>1, <1>10, <1>11, <2>2, <2>3, <2>6 DEF OutcomeInv
    <2>8. SameOutcomes \/ NewOutcome(m)
        BY <1>1, <1>11, <2>2, <2>5 DEF SameOutcomes, NewOutcome
    <2> QED BY <1>8, <2>7, <2>8 DEF OneOutcomeMore
<1> QED BY <1>1, <1>5, <1>12, <1>13

(* A delivery finds the record free: the callback that published the copy  *)
(* has released it.                                                        *)
LEMMA DeliveryOutcome ==
    ASSUME OneOutcome, NEW w \in Workers, NEW c \in Copies, Deliver(w, c),
           NEW m \in Messages
    PROVE  OutcomeInv(m)'
<1>1. TypeOK /\ OutcomeInv(m)
    BY DEF OneOutcome
<1>2. /\ \A v \in Workers \ {w} : pc'[v] = pc[v] /\ job'[v] = job[v]
      /\ pc'[w] = "create" /\ job'[w] = c /\ pc[w] = "idle"
      /\ UNCHANGED <<published, delayed, dlq, record, effects>>
      /\ ready[c] > 0 /\ ready' = [ready EXCEPT ![c] = @ - 1]
    BY <1>1 DEF Deliver, Goto, TypeOK
<1>3. /\ \A v \in Workers \ {w} : On(v, m)' <=> On(v, m)
      /\ On(w, m)' <=> c.msg = m
      /\ ~On(w, m)
    BY <1>2 DEF On, Busy
<1>4. \A v \in Workers : On(v, m) => pc'[v] = pc[v]
    BY <1>2, <1>3
<1>5. CASE c.msg # m
    <2>1. \A d \in Copies : d.msg = m => ready'[d] = ready[d] /\ delayed'[d] = delayed[d]
        BY <1>1, <1>2, <1>5 DEF TypeOK
    <2>2. \A v \in Workers : On(v, m)' <=> On(v, m)
        BY <1>3, <1>5
    <2> QED BY <1>1, <1>2, <1>4, <2>1, <2>2, OutcomeOther
<1>6. CASE c.msg = m
    <2>1. Queued(c) > 0 /\ Queued(c) <= 1 /\ ready[c] = 1 /\ delayed[c] = 0
        <3>1. Queued(c) <= 1
            BY <1>1, <1>6 DEF OutcomeInv, OneHasIt
        <3> QED BY <1>1, <1>2, <3>1, QueuedIsNatural DEF Queued
    <2>2. \A d \in Copies : d.msg = m => Queued(d)' = 0
        <3>1. Queued(c)' = 0
            BY <1>1, <1>2, <2>1 DEF Queued, TypeOK
        <3>2. ASSUME NEW d \in Copies, d # c, d.msg = m PROVE Queued(d)' = 0
            <4>1. Queued(d) = 0
                BY <1>1, <1>6, <2>1, <3>2, QueuedIsNatural DEF OutcomeInv, OneHasIt
            <4>2. Queued(d)' = Queued(d)
                BY <1>1, <1>2, <3>2 DEF Queued, TypeOK
            <4> QED BY <4>1, <4>2
        <3> QED BY <3>1, <3>2
    <2>3. \A v \in Workers : On(v, m) => pc[v] = "ack"
        <3> SUFFICES ASSUME NEW v \in Workers, On(v, m) PROVE pc[v] = "ack"
            OBVIOUS
        <3>1. ~Undecided(v) /\ pc[v] # "release"
            BY <1>1, <1>6, <2>1 DEF OutcomeInv, OneHasIt
        <3> QED BY <3>1 DEF Undecided, On, Busy
    <2>4. record[m] = "absent" /\ effects[m] = 0 /\ dlq[m] = 0 /\ m \in published
        <3>1. m \in published
            BY <1>1, <1>6, <2>1 DEF OutcomeInv, NoTrace
        <3> QED BY <1>1, <1>6, <2>1, <2>3, <3>1 DEF OutcomeInv, Undone
    <2>5. \A v \in Workers : On(v, m)' => v = w \/ (pc'[v] = "ack" /\ ~Undecided(v)')
        BY <1>3, <1>4, <2>3 DEF Undecided
    <2>6. OneHasIt(m)'
        BY <1>2, <2>2, <2>5 DEF OneHasIt
    <2>7. Undone(m)'
        BY <1>2, <2>2, <2>4, <2>5 DEF Undone
    <2> QED BY <1>2, <2>4, <2>6, <2>7 DEF OutcomeInv
<1> QED BY <1>5, <1>6

(* Publication, delays and the passing of time.                            *)
LEMMA BrokerOutcome ==
    ASSUME OneOutcome, NEW m \in Messages,
           \/ \E n \in Messages : Publish(n) \/ ProcessingTimeout(n)
           \/ \E c \in Copies :
                /\ DelayElapses(c)
                /\ \A w \in Workers : ~(pc[w] = "release" /\ job[w].msg = c.msg)
    PROVE  OutcomeInv(m)'
<1>1. TypeOK /\ OutcomeInv(m)
    BY DEF OneOutcome
<1>2. UNCHANGED <<effects, dlq, pc, job>>
    BY DEF Publish, ProcessingTimeout, DelayElapses, brokerVars
<1>3. \A w \in Workers : /\ On(w, m)' <=> On(w, m)
                         /\ Undecided(w)' <=> Undecided(w)
                         /\ Committed(w)' <=> Committed(w)
    BY <1>2 DEF On, Busy, Undecided, Committed
<1>4. ASSUME NEW n \in Messages, Publish(n) PROVE OutcomeInv(m)'
    <2>1. PICK first \in Copies : first = [msg |-> n, attempt |-> 1]
        BY FirstCopy
    <2>2. /\ ready' = [ready EXCEPT ![first] = @ + 1] /\ first.msg = n
          /\ published' = published \cup {n} /\ n \notin published
          /\ UNCHANGED <<delayed, record>>
        BY <1>4, <2>1 DEF Publish
    <2>3. CASE n # m
        <3>1. \A d \in Copies : d.msg = m => ready'[d] = ready[d] /\ delayed'[d] = delayed[d]
            BY <1>1, <2>2, <2>3 DEF TypeOK
        <3> QED BY <1>1, <1>2, <1>3, <2>2, <2>3, <3>1, OutcomeOther
    <2>4. CASE n = m
        <3>1. NoTrace(m)
            BY <1>1, <2>2, <2>4 DEF OutcomeInv
        <3>2. \A d \in Copies : d.msg = m => Queued(d)' = IF d = first THEN 1 ELSE 0
            <4> SUFFICES ASSUME NEW d \in Copies, d.msg = m
                         PROVE  Queued(d)' = IF d = first THEN 1 ELSE 0
                OBVIOUS
            <4>1. Queued(d) = 0 /\ ready[d] \in Nat /\ delayed[d] \in Nat
                BY <1>1, <3>1, QueuedIsNatural DEF NoTrace
            <4> QED BY <1>1, <2>2, <4>1 DEF Queued, TypeOK
        <3>3. \A w \in Workers : ~On(w, m)'
            BY <1>3, <3>1 DEF NoTrace
        <3>4. m \in published' /\ record'[m] = "absent" /\ effects'[m] = 0 /\ dlq'[m] = 0
            BY <1>2, <2>2, <2>4, <3>1 DEF NoTrace
        <3> QED BY <3>2, <3>3, <3>4 DEF OutcomeInv, OneHasIt, Undone
    <2> QED BY <2>3, <2>4
<1>5. ASSUME NEW n \in Messages, ProcessingTimeout(n) PROVE OutcomeInv(m)'
    <2>1. /\ UNCHANGED <<published, ready, delayed>>
          /\ record[n] = "processing" /\ record' = [record EXCEPT ![n] = "overdue"]
        BY <1>5 DEF ProcessingTimeout, brokerVars
    <2>2. CASE n # m
        BY <1>1, <1>2, <1>3, <2>1, <2>2, OutcomeOther DEF TypeOK
    <2>3. CASE n = m
        <3>1. record[m] = "processing" /\ record'[m] = "overdue"
            BY <1>1, <2>1, <2>3 DEF TypeOK
        <3>2. m \in published
            BY <1>1, <3>1 DEF OutcomeInv, NoTrace
        <3>3. \A c \in Copies : Queued(c)' = Queued(c)
            BY <2>1 DEF Queued
        <3>4. OneHasIt(m)'
            BY <1>1, <1>2, <1>3, <2>1, <3>3 DEF OutcomeInv, OneHasIt
        <3>5. Undone(m)'
            BY <1>1, <1>2, <1>3, <3>1, <3>3 DEF OutcomeInv, Undone, InProgress
        <3> QED BY <1>1, <1>2, <2>1, <3>2, <3>4, <3>5 DEF OutcomeInv
    <2> QED BY <2>2, <2>3
<1>6. ASSUME NEW c \in Copies, DelayElapses(c),
             \A w \in Workers : ~(pc[w] = "release" /\ job[w].msg = c.msg)
      PROVE  OutcomeInv(m)'
    <2>1. /\ UNCHANGED <<published, record>>
          /\ \A d \in Copies : Queued(d)' = Queued(d)
          /\ \A d \in Copies \ {c} : ready'[d] = ready[d]
        BY <1>1, <1>6, QueuedIsNatural DEF DelayElapses, Queued, TypeOK
    <2>2. ASSUME NEW d \in Copies, d.msg = m, NEW w \in Workers, On(w, m), pc[w] = "release"
          PROVE  ready'[d] = 0
        BY <1>1, <1>6, <2>1, <2>2 DEF On, OutcomeInv, OneHasIt
    <2>3. OneHasIt(m)'
        BY <1>1, <1>2, <1>3, <2>1, <2>2 DEF OutcomeInv, OneHasIt
    <2>4. Undone(m)'
        BY <1>1, <1>2, <1>3, <2>1 DEF OutcomeInv, Undone
    <2>5. NoTrace(m) => NoTrace(m)'
        BY <1>2, <1>3, <2>1 DEF NoTrace
    <2> QED BY <1>1, <1>2, <2>1, <2>3, <2>4, <2>5 DEF OutcomeInv
<1> QED BY <1>4, <1>5, <1>6

(* No message is ever given a second outcome.                              *)
LEMMA OutcomeStep ==
    ASSUME OneOutcome, HarmlessStep \/ UNCHANGED vars
    PROVE  OneOutcome' /\ OneOutcomeMore
<1>1. TypeOK /\ TypeOK'
    <2>1. HarmlessStep => Next
        BY DEF HarmlessStep, Next, WorkerFault
    <2> QED BY <2>1, TypeStep DEF OneOutcome
<1>2. CASE UNCHANGED vars
    <2>1. \A m \in Messages, w \in Workers : On(w, m)' <=> On(w, m)
        BY <1>2 DEF vars, On, Busy
    <2> QED BY <1>1, <1>2, <2>1, OutcomeOther
          DEF OneOutcome, OneOutcomeMore, SameOutcomes, vars
<1>3. ASSUME NEW w \in Workers, WorkerStep(w) \/ PublishError(w)
      PROVE  OneOutcome' /\ OneOutcomeMore
    BY <1>1, <1>3, StartOutcome, HandlerOutcome, ErrorOutcome, SettleOutcome
       DEF WorkerStep, OneOutcome, OneOutcomeMore
<1>4. ASSUME NEW w \in Workers, NEW c \in Copies, Deliver(w, c)
      PROVE  OneOutcome' /\ OneOutcomeMore
    BY <1>1, <1>4, DeliveryOutcome
       DEF Deliver, OneOutcome, OneOutcomeMore, SameOutcomes
<1>5. ASSUME NEW n \in Messages, Publish(n) \/ ProcessingTimeout(n)
      PROVE  OneOutcome' /\ OneOutcomeMore
    <2>1. \A m \in Messages : OutcomeInv(m)'
        BY <1>5, BrokerOutcome
    <2>2. OneOutcomeMore
        <3>1. CASE Publish(n)
            <4>1. effects[n] = 0 /\ dlq[n] = 0
                BY <3>1 DEF Publish, OneOutcome, OutcomeInv, NoTrace
            <4> QED BY <3>1, <4>1 DEF Publish, OneOutcomeMore, NewOutcome
        <3>2. CASE ProcessingTimeout(n)
            BY <3>2 DEF ProcessingTimeout, OneOutcomeMore, SameOutcomes, brokerVars
        <3> QED BY <1>5, <3>1, <3>2
    <2> QED BY <1>1, <2>1, <2>2 DEF OneOutcome
<1>6. ASSUME NEW c \in Copies, DelayElapses(c),
             \A w \in Workers : ~(pc[w] = "release" /\ job[w].msg = c.msg)
      PROVE  OneOutcome' /\ OneOutcomeMore
    <2>1. \A m \in Messages : OutcomeInv(m)'
        BY <1>6, BrokerOutcome
    <2> QED BY <1>1, <1>6, <2>1 DEF DelayElapses, OneOutcome, OneOutcomeMore, SameOutcomes
<1> QED BY <1>2, <1>3, <1>4, <1>5, <1>6 DEF HarmlessStep

(* The step of the contract a change of the outcomes is.                   *)
LEMMA OutcomeMaps ==
    ASSUME TypeOK, OneOutcomeMore, ~storeFails, UNCHANGED storeFails
    PROVE  [Contract!Next]_OutcomeNow
<1>1. CASE SameOutcomes
    BY <1>1 DEF SameOutcomes, OutcomeNow, OutcomeOf
<1>2. ASSUME NEW m \in Messages, NewOutcome(m) PROVE Contract!Next
    <2>1. ASSUME NEW from, NEW to, OutcomeOf(m) = from, OutcomeOf(m)' = to
          PROVE  Contract!Becomes(m, from, to)
        <3>1. ASSUME NEW n \in Messages \ {m} PROVE OutcomeOf(n)' = OutcomeOf(n)
            <4>1. /\ effects'[n] = effects[n] /\ dlq'[n] = dlq[n]
                  /\ n \in published' <=> n \in published
                BY <1>2 DEF NewOutcome, TypeOK
            <4> QED BY <4>1 DEF OutcomeOf
        <3>2. OutcomeNow = [n \in Messages |-> OutcomeOf(n)]
            BY DEF OutcomeNow
        <3>3. OutcomeNow' = [n \in Messages |-> OutcomeOf(n)']
            BY DEF OutcomeNow
        <3>4. OutcomeNow' = [OutcomeNow EXCEPT ![m] = to]
            BY <2>1, <3>1, <3>2, <3>3
        <3> QED BY <2>1, <3>2, <3>4 DEF Contract!Becomes
    <2>2. effects[m] = 0 /\ dlq[m] = 0
        BY <1>2 DEF NewOutcome
    <2>3. CASE m \notin published
        <3>1. m \in published' /\ effects'[m] = 0 /\ dlq'[m] = 0
            BY <1>2, <2>2, <2>3 DEF NewOutcome
        <3>2. OutcomeOf(m) = "unpublished" /\ OutcomeOf(m)' = "pending"
            BY <2>2, <2>3, <3>1 DEF OutcomeOf
        <3> QED BY <2>1, <3>2 DEF Contract!Next, Contract!Submit
    <2>4. CASE m \in published
        <3>1. OutcomeOf(m) = "pending"
            BY <2>2, <2>4 DEF OutcomeOf
        <3>2. m \in published'
            BY <1>2, <2>4 DEF NewOutcome
        <3>3. \/ effects'[m] = 1 /\ dlq'[m] = 0
              \/ effects'[m] = 0 /\ dlq'[m] = 1
            BY <1>2, <2>2, <2>4 DEF NewOutcome, TypeOK
        <3>4. OutcomeOf(m)' = "executed" \/ OutcomeOf(m)' = "dead"
            BY <3>2, <3>3 DEF OutcomeOf
        <3> QED BY <2>1, <3>1, <3>4 DEF Contract!Next, Contract!Execute, Contract!DeadLetter
    <2> QED BY <2>3, <2>4
<1> QED BY <1>1, <1>2 DEF OneOutcomeMore

(* While MongoDB answers, every step of the handler is a step of the       *)
(* contract or changes no outcome: a message is executed once or           *)
(* dead-lettered once, and never both.                                     *)
THEOREM OutcomesAreFinal ==
    ASSUME FaultKinds \subseteq ToleratedFaults
    PROVE  RefSpec => Contract!SafeSpec
<1> DEFINE Inv == ~storeFails => OneOutcome
<1>1. RefInit => Inv
    <2> SUFFICES ASSUME Init, NEW m \in Messages PROVE OutcomeInv(m)
        BY TypeInit DEF RefInit, OneOutcome
    <2>1. NoTrace(m)
        BY DEF Init, NoTrace, Queued, On, Busy
    <2> QED BY <2>1 DEF NoTrace, OutcomeInv, OneHasIt, Undone
<1>2. RefInit => Contract!Init
    BY DEF RefInit, Init, Contract!Init, OutcomeNow, OutcomeOf
<1>3. Inv /\ [RefNext]_<<vars, storeFails>> =>
          Inv' /\ [Contract!Next]_OutcomeNow
    <2> SUFFICES ASSUME Inv, [RefNext]_<<vars, storeFails>>
                 PROVE  Inv' /\ [Contract!Next]_OutcomeNow
        OBVIOUS
    <2>1. UNCHANGED storeFails
        BY DEF RefNext
    <2>2. CASE storeFails
        BY <2>1, <2>2 DEF OutcomeNow
    <2>3. CASE ~storeFails
        <3>1. HarmlessStep \/ UNCHANGED vars
            BY <2>3, SteadyIsHarmless DEF RefNext
        <3> QED BY <2>1, <2>3, <3>1, OutcomeStep, OutcomeMaps DEF OneOutcome
    <2> QED BY <2>2, <2>3
<1> QED BY <1>1, <1>2, <1>3, PTL DEF RefSpec, Contract!SafeSpec
===============================================================================
