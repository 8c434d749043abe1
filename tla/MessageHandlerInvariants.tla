----------------------- MODULE MessageHandlerInvariants -----------------------
(***************************************************************************)
(* The inductive strengthenings behind the safety properties of            *)
(* MessageHandler.  TLC checks them on small instances, and                *)
(* MessageHandlerProofs proves them inductive for every instance.          *)
(***************************************************************************)
EXTENDS MessageHandler

(* A callback of executeWithoutTransaction that calls markCompleted has    *)
(* already run its handler.                                                *)
CompletedInv ==
    /\ TypeOK
    /\ CompletedMeansExecuted
    /\ \A w \in Workers : pc[w] = "complete" => effects[job[w].msg] >= 1

(* The faults under which no message is lost: a call that fails before the *)
(* handler starts or while it schedules a retry, and a handler that takes  *)
(* longer than processingTimeoutMs.                                        *)
ToleratedFaults == {"publishError", "storeError", "timeout"}

(* Without crashes and lost connections a callback can settle what it is   *)
(* handling.                                                               *)
DeliveryHeld == \A w \in Workers : Busy(w) => w \in held

(* Only a copy with a retry delay left is published again.                 *)
RetryAllowed ==
    \A w \in Workers : pc[w] = "publish" => ShouldRetry(job[w].attempt)

(* A callback that will execute the message, retry it or dead-letter it,   *)
(* whatever the record becomes meanwhile.                                  *)
Committed(w) == pc[w] \in {"handle", "complete", "publish", "fail", "nack"}

Waiting(m) == \E c \in Copies : c.msg = m /\ ready[c] > 0
Delayed(m) == \E c \in Copies : c.msg = m /\ delayed[c] > 0

(* A callback that finds a free record, or puts its copy back.             *)
Entering(w) == pc[w] \in {"create", "recreate", "requeue"}

(* Why m is not lost: it is settled; a committed callback carries it; a    *)
(* callback is about to release the record while the retry copy waits; or  *)
(* the record is free for a copy that is on its way to it.                 *)
Carried(m) ==
    \/ Settled(m)
    \/ \E w \in Workers : On(w, m) /\ Committed(w)
    \/ \E w \in Workers : On(w, m) /\ pc[w] = "release" /\ Delayed(m)
    \/ /\ record[m] = "absent"
       /\ \/ Waiting(m)
          \/ Delayed(m)
          \/ \E w \in Workers : On(w, m) /\ Entering(w)

(* A message nobody has published has left no trace.                       *)
Fresh(m) ==
    /\ record[m] = "absent"
    /\ ~Waiting(m) /\ ~Delayed(m)
    /\ \A w \in Workers : ~On(w, m)

NothingLostInv ==
    /\ CompletedInv
    /\ DeliveryHeld
    /\ RetryAllowed
    /\ \A m \in Messages \ published : Fresh(m)
    /\ \A m \in published : Carried(m)

--------------------------------------------------------------------------------
(* The faults that make a record look stale, or a delivery come back while *)
(* its callback runs.                                                      *)
Overtaking == {"timeout", "connectionLoss", "crash"}

(* A callback that works on the strength of the PROCESSING record, and one *)
(* that has still to get it, or puts its copy back.                        *)
Owner(w) == pc[w] \in {"handle", "complete", "publish", "release", "fail"}
Wanting(w) == pc[w] \in {"create", "find", "delete", "recreate", "reclaim",
                         "requeue"}

Owns(w, m) == On(w, m) /\ Owner(w)
Wants(w, m) == On(w, m) /\ Wanting(w)

(* No copy of m can be delivered, or is about to ask for the record.       *)
NoneLeft(m) ==
    /\ \A c \in Copies : c.msg = m => Queued(c) = 0
    /\ \A w \in Workers : ~Wants(w, m)

(* At most one can.                                                        *)
AtMostOneLeft(m) ==
    /\ \A c \in Copies : c.msg = m => Queued(c) <= 1
    /\ \A c, d \in Copies :
         c.msg = m /\ d.msg = m /\ Queued(c) > 0 /\ Queued(d) > 0 => c = d
    /\ \A c \in Copies, w \in Workers : c.msg = m /\ Queued(c) > 0 => ~Wants(w, m)
    /\ \A v, w \in Workers : Wants(v, m) /\ Wants(w, m) => v = w

(* While nothing overtakes, the record is a lock.  It has one owner, who   *)
(* holds the only copy until the retry copy is out.  A record that is free *)
(* or FAILED meets one copy, so that nobody comes between the find, delete *)
(* and create of startProcessing.                                          *)
LockedInv(m) ==
    /\ m \notin published => record[m] = "absent" /\ NoneLeft(m)
    /\ record[m] # "overdue"
    /\ record[m] \in {"absent", "failed"} => AtMostOneLeft(m)
    /\ \A w \in Workers : Owns(w, m) => record[m] = "processing"
    /\ \A v, w \in Workers : Owns(v, m) /\ Owns(w, m) => v = w
    /\ \A w \in Workers :
         On(w, m) => /\ pc[w] \in {"handle", "complete", "publish"} => NoneLeft(m)
                     /\ pc[w] \in {"release", "fail"} => AtMostOneLeft(m)
                     /\ pc[w] = "delete" => record[m] = "failed"
                     /\ pc[w] = "recreate" => record[m] = "absent"
    /\ m \in TxMessages =>
         /\ effects[m] <= 1
         /\ effects[m] # 0 => record[m] = "completed"

RecordLocks == TypeOK /\ \A m \in Messages : LockedInv(m)

--------------------------------------------------------------------------------
(* A message that nobody has published has left nothing behind.            *)
NoTrace(m) ==
    /\ record[m] = "absent" /\ effects[m] = 0 /\ dlq[m] = 0
    /\ \A c \in Copies : c.msg = m => Queued(c) = 0
    /\ \A w \in Workers : ~On(w, m)

(* A fault multiplies a message once, and nothing before its publication.  *)
ConservationInv ==
    /\ TypeOK
    /\ \A m \in Messages : IsFiniteSet(InQueues(m)) /\ IsFiniteSet(Bearers(m))
    /\ \A m \in Messages \ published : NoTrace(m)
    /\ Conservation

--------------------------------------------------------------------------------
(* The faults that never give a message a second copy, or a callback that  *)
(* meets the record of another.                                            *)
HarmlessFaults == {"publishError", "timeout"}

(* At most one of the callbacks and the queues has m; while a retry copy   *)
(* waits for its delay, its callback may still have to release the record. *)
OneHasIt(m) ==
    /\ \A v, w \in Workers :
         On(v, m) /\ On(w, m) /\ v # w => pc[v] = "ack" \/ pc[w] = "ack"
    /\ \A c \in Copies :
         c.msg = m => /\ Queued(c) <= 1
                      /\ \A w \in Workers :
                           On(w, m) => /\ Undecided(w) => Queued(c) = 0
                                       /\ pc[w] = "release" => ready[c] = 0
    /\ \A c, d \in Copies :
         c.msg = m /\ d.msg = m /\ Queued(c) > 0 /\ Queued(d) > 0 => c = d

(* Who has it finds the record free, and m without an outcome, up to the   *)
(* effect of a handler that has still to be marked.                        *)
Undone(m) ==
    /\ \A c \in Copies :
         c.msg = m /\ Queued(c) > 0 =>
             /\ effects[m] = 0 /\ dlq[m] = 0
             /\ \/ record[m] = "absent"
                \/ \E w \in Workers : On(w, m) /\ pc[w] = "release"
    /\ \A w \in Workers :
         On(w, m) /\ Undecided(w) =>
             /\ pc[w] = "create" \/ Committed(w)
             /\ effects[m] = (IF pc[w] = "complete" THEN 1 ELSE 0) /\ dlq[m] = 0
             /\ pc[w] = "create" => record[m] = "absent"
             /\ pc[w] \in {"handle", "complete"} => record[m] \in InProgress

OutcomeInv(m) ==
    /\ m \notin published => NoTrace(m)
    /\ OneHasIt(m)
    /\ Undone(m)
    /\ effects[m] + dlq[m] <= 1

OneOutcome == TypeOK /\ \A m \in Messages : OutcomeInv(m)
===============================================================================
