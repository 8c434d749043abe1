-------------------------- MODULE MCSubscriptions ---------------------------
(* What only TLC needs: webhook requests are alike, and so are chats.      *)
EXTENDS Subscriptions, TLC

Symmetry == Permutations(Handlers) \cup Permutations(Chats)

CONSTANT QuotaKinds     \* the kinds of event met by chats and the clock

(* Bound: chats and the clock see of a webhook no more than the document   *)
(* it has written.  Once one of them has moved, events are of a few kinds, *)
(* at times of their own, and handled one at a time.                       *)
Focus ==
    \/ begun = {} /\ chat = [c \in Chats |-> NoChat] /\ created = <<>>
    \/ /\ \A i \in DOMAIN log : log[i].kind \in QuotaKinds
       /\ "tie" \notin met
       /\ \A g, h \in Handlers : hook[g].step # "idle" /\ hook[h].step # "idle" => g = h
===============================================================================
