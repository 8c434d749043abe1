---------------------------- MODULE MCProductSync ----------------------------
(* What only TLC needs: consumer callbacks are alike.                      *)
EXTENDS ProductSync, TLC

Symmetry == Permutations(Workers)
===============================================================================
