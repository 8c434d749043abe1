----------------------- MODULE MessageHandlerRefinement -----------------------
(***************************************************************************)
(* MessageHandler implements DeliveryContract.  The outcome of a message   *)
(* is read off the durable state: its effect and the dead-letter queue.    *)
(***************************************************************************)
EXTENDS MessageHandler

(* Chosen at the start: whether calls to MongoDB may fail.                 *)
VARIABLE storeFails

Steady == INSTANCE MessageHandler WITH FaultKinds <- FaultKinds \ {"storeError"}

RefInit == storeFails \in BOOLEAN /\ Init

RefNext ==
    /\ UNCHANGED storeFails
    /\ \/ storeFails /\ Next
       \/ ~storeFails /\ Steady!Next

RefSpec == RefInit /\ [][RefNext]_<<vars, storeFails>> /\ Fairness

(* Two effects, two dead letters or one of each is no outcome at all.      *)
OutcomeOf(m) ==
    CASE m \notin published -> "unpublished"
      [] m \in published /\ effects[m] = 0 /\ dlq[m] = 0 -> "pending"
      [] m \in published /\ effects[m] = 1 /\ dlq[m] = 0 -> "executed"
      [] m \in published /\ effects[m] = 0 /\ dlq[m] = 1 -> "dead"
      [] OTHER -> "broken"

(* The contract is claimed only while MongoDB answers: a store that fails  *)
(* after the retry copy is out leaves one of each (README).                *)
OutcomeNow ==
    [m \in Messages |-> IF storeFails THEN "unpublished" ELSE OutcomeOf(m)]

Contract == INSTANCE DeliveryContract WITH outcome <- OutcomeNow

(* Each message is executed exactly once or dead-lettered exactly once, in *)
(* the end, and never both: what callers of the event publisher rely on.   *)
ImplementsContract == Contract!Spec
===============================================================================
