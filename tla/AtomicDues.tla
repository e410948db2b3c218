----------------------------- MODULE AtomicDues -----------------------------
(***************************************************************************)
(* What paying dues promises, without sessions, locks or transfers: a      *)
(* payment debits one wallet and marks all the dues it names paid in a     *)
(* single step, and only if all of them are unpaid, belong to the caller's *)
(* household and are covered by the balance.                               *)
(***************************************************************************)
EXTENDS Integers

CONSTANTS Profile, Due, Household, Owner, DueTotal, MaxInteger

VARIABLES dueStatus, balance, debited

vars == <<dueStatus, balance, debited>>

Init ==
  /\ dueStatus = [d \in Due |-> "unassigned"]
  /\ balance = [p \in Profile |-> 0]
  /\ debited = [p \in Profile |-> [d \in Due |-> 0]]

\* A household member pays some dues out of their own wallet.
Pay(p, D) ==
  /\ \A d \in D : dueStatus[d] = "due" /\ Owner[d] \in Household[p]
  /\ DueTotal[D] <= balance[p]
  /\ balance' = [balance EXCEPT ![p] = @ - DueTotal[D]]
  /\ dueStatus' = [d \in Due |-> IF d \in D THEN "paid" ELSE dueStatus[d]]
  /\ debited' = [debited EXCEPT ![p] =
                   [d \in Due |-> IF d \in D THEN @[d] + 1 ELSE @[d]]]

\* Finance credits a wallet.
TopUp(p, a) ==
  /\ balance[p] + a <= MaxInteger
  /\ balance' = [balance EXCEPT ![p] = @ + a]
  /\ UNCHANGED <<dueStatus, debited>>

\* Finance assigns a due, settles it by other means, reopens it or removes it.
Desk(d, from, to) ==
  /\ dueStatus[d] \in from
  /\ dueStatus' = [dueStatus EXCEPT ![d] = to]
  /\ UNCHANGED <<balance, debited>>

Next ==
  \/ \E p \in Profile, D \in SUBSET Due : Pay(p, D)
  \/ \E p \in Profile, a \in 0..MaxInteger : TopUp(p, a)
  \/ \E d \in Due : \/ Desk(d, {"unassigned"}, "due")
                    \/ \E st \in {"due", "paid", "deleted"} : Desk(d, {"due", "paid"}, st)

Spec == Init /\ [][Next]_vars
=============================================================================
