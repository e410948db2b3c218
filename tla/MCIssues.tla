------------------------------ MODULE MCIssues ------------------------------
(***************************************************************************)
(* Two overlapping calls on one issue, moved up to three times.            *)
(***************************************************************************)
EXTENDS Issues, TLC

Symmetry == UNION {Permutations(S) : S \in {Session, Reporter, Admin, Issue}}
=============================================================================
