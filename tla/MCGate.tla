------------------------------- MODULE MCGate -------------------------------
(***************************************************************************)
(* The instances have one id of each kind: rows of a kind do not meet,     *)
(* only requests for the same row do.                                      *)
(***************************************************************************)
EXTENDS Gate, TLC

Symmetry == Permutations(Officer) \cup Permutations(Pass) \cup Permutations(Visit)
            \cup Permutations(Card) \cup Permutations(Worker)
=============================================================================
