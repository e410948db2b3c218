------------------------------- MODULE MCAuth -------------------------------
(***************************************************************************)
(* Threads are alike, and so are keys.                                     *)
(***************************************************************************)
EXTENDS Auth, TLC

Symmetry == Permutations(Thread) \cup Permutations(Key)
=============================================================================
