--------------------------- MODULE DeliveryContract ---------------------------
(***************************************************************************)
(* What the messaging layer promises its callers: a published message has  *)
(* exactly one outcome, its handler took effect once or it was             *)
(* dead-lettered once, and the outcome comes in the end.                   *)
(***************************************************************************)
CONSTANT Messages

VARIABLE outcome

Outcomes == {"unpublished", "pending", "executed", "dead"}

ContractTypeOK == outcome \in [Messages -> Outcomes]

Init == outcome = [m \in Messages |-> "unpublished"]

Becomes(m, from, to) ==
    /\ outcome[m] = from
    /\ outcome' = [outcome EXCEPT ![m] = to]

Submit(m) == Becomes(m, "unpublished", "pending")
Execute(m) == Becomes(m, "pending", "executed")
DeadLetter(m) == Becomes(m, "pending", "dead")

Next == \E m \in Messages : Submit(m) \/ Execute(m) \/ DeadLetter(m)

(* An outcome is never taken back and never given twice.                   *)
SafeSpec == Init /\ [][Next]_outcome

Spec ==
    /\ SafeSpec
    /\ \A m \in Messages : WF_outcome(Execute(m) \/ DeadLetter(m))
===============================================================================
