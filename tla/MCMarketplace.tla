--------------------------- MODULE MCMarketplace ---------------------------
(***************************************************************************)
(* One good; the other listing is a service, which any number may order.   *)
(***************************************************************************)
EXTENDS Marketplace, TLC

CONSTANT g   \* the good

Goods == {g}
Symmetry == Permutations(Session) \cup Permutations(Order) \cup Permutations(Transfer)
=============================================================================
