-------------------------- MODULE MCMessageHandler ---------------------------
(***************************************************************************)
(* Model checking of MessageHandler under every fault, or under those that *)
(* leave the record of a message a lock.                                   *)
(***************************************************************************)
EXTENDS MessageHandlerInvariants, TLC

(* Chosen at the start: whether the faults that let a callback overtake    *)
(* another one stay away.                                                  *)
VARIABLE locking

Locked == INSTANCE MessageHandler WITH FaultKinds <- FaultKinds \ Overtaking

MCInit == locking \in BOOLEAN /\ Init

MCNext ==
    /\ UNCHANGED locking
    /\ \/ locking /\ Locked!Next
       \/ ~locking /\ Next

MCSpec == MCInit /\ [][MCNext]_<<vars, locking>>

Symmetry == Permutations(Workers)

--------------------------------------------------------------------------------
(* A call that fails or a release that is slow never makes a transactional *)
(* effect durable twice: deleteByMessageId frees only what the releasing   *)
(* callback owns, and never the memory of a finished execution.            *)
LockedAtMostOnce == locking => AtMostOnce

(* Nor does it let two callbacks run the handler of one message at a time: *)
(* find, delete and create of startProcessing leave no gap that matters.   *)
LockedSoleOwner == locking => SoleOwner
===============================================================================
