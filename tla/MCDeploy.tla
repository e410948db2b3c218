------------------------------ MODULE MCDeploy ------------------------------
(***************************************************************************)
(* Runs by hand are alike.                                                 *)
(***************************************************************************)
EXTENDS Deploy, TLC

Symmetry == Permutations(Hand)
=============================================================================
