---------------------------- MODULE MCDevControl ----------------------------
(***************************************************************************)
(* Two users, who differ by their e-mail address.                          *)
(***************************************************************************)
EXTENDS DevControl

CONSTANTS u1, u2

Testers == {u2}
=============================================================================
