------------------------------- MODULE MCPush -------------------------------
(***************************************************************************)
(* Chunks of one, so that two devices need a second one.                   *)
(***************************************************************************)
EXTENDS Push, TLC

Symmetry == UNION {Permutations(S) : S \in {Session, Worker, Profile, Token, Event}}
=============================================================================
