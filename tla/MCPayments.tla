----------------------------- MODULE MCPayments -----------------------------
(***************************************************************************)
(* Two instances.  "Shared": a household whose two members pay for each    *)
(* other, dues of one price; there every resident and every due is alike,  *)
(* so both are symmetric.  "Guest": r1 sees the dues of both residents, r2 *)
(* only their own, and the dues differ in price.                           *)
(***************************************************************************)
EXTENDS Payments, TLC

CONSTANTS r1, r2, d1, d2

Total(amount) ==
  [D \in SUBSET Due |-> MapThenSumSet(LAMBDA d : amount[d], D)]

SharedHousehold == [p \in Profile |-> Profile]
SharedOwner == [d \in Due |-> r1]
SharedAmount == [d \in Due |-> 1]
SharedTotal == Total(SharedAmount)

GuestHousehold == r1 :> {r1, r2} @@ r2 :> {r2}
GuestOwner == d1 :> r1 @@ d2 :> r2
GuestAmount == d1 :> 1 @@ d2 :> 2
GuestTotal == Total(GuestAmount)

Topups == {2}

SharedSymmetry == UNION {Permutations(S) : S \in {Session, Transfer, Profile, Due}}
GuestSymmetry == Permutations(Session) \cup Permutations(Transfer)
=============================================================================
