------------------------------ MODULE Selections ------------------------------
(***************************************************************************)
(* What a filter leaves of a list, told by the positions it keeps: sets of *)
(* positions can be compared and counted, where what SelectSeq leaves can  *)
(* only be computed.                                                       *)
(***************************************************************************)
EXTENDS Integers, SequencesExt

(* The numbers of a finite set, from the least one up.                     *)
Ascending(S) == [k \in 1..Cardinality(S) |->
                    CHOOSE i \in S : Cardinality({j \in S : j < i}) = k - 1]

(* The elements of s at the positions in kept, in their order.             *)
Select(s, kept) == LET at == Ascending(kept) IN [k \in DOMAIN at |-> s[at[k]]]
===============================================================================
