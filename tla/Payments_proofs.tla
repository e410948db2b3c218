--------------------------- MODULE Payments_proofs ---------------------------
(***************************************************************************)
(* Proofs about Payments: wallets stay within their range however the      *)
(* calls interleave, notices tell outcomes, and, as long as finance        *)
(* reopens no due, payments from wallets are atomic, take no due twice and *)
(* deadlock only where each asked for several dues.                        *)
(***************************************************************************)
EXTENDS Payments, FiniteSetTheorems, WellFoundedInduction, TLAPS

-----------------------------------------------------------------------------
(* What the building blocks of the actions do to the local variables.      *)

LEMMA LocalType ==
  ASSUME NEW pc \in {"idle", "submit", "confirm", "post", "reject", "contest",
                     "lock", "debit", "commit"},
         NEW by \in Profile \cup {NULL}, NEW t \in Transfer \cup {NULL},
         NEW due \in Due \cup {NULL}, NEW want \in SUBSET Due,
         NEW todo \in SUBSET Due
  PROVE  Local(pc, by, t, due, want, todo) \in Call
  BY DEF Local, Call

LEMMA IdleType == Idle \in Call /\ Idle.pc = "idle"
  BY LocalType DEF Idle, Local

LEMMA BeginFacts ==
  ASSUME TypeOK, NEW s \in Session, NEW c \in Call, Begin(s, c)
  PROVE  /\ call' \in [Session -> Call]
         /\ call'[s] = c
         /\ call[s].pc = "idle"
         /\ \A u \in Session \ {s} : call'[u] = call[u]
  BY DEF TypeOK, Begin, At

LEMMA ContinueFacts ==
  ASSUME TypeOK, NEW s \in Session, NEW pc \in {"post", "debit", "commit"},
         Continue(s, pc)
  PROVE  /\ call' \in [Session -> Call]
         /\ call'[s].pc = pc
         /\ call'[s].by = call[s].by
         /\ call'[s].t = call[s].t
         /\ call'[s].want = call[s].want
         /\ \A u \in Session \ {s} : call'[u] = call[u]
  BY DEF TypeOK, Continue, Call

LEMMA TodoFacts ==
  ASSUME TypeOK, NEW s \in Session, NEW d,
         call' = [call EXCEPT ![s].todo = @ \ {d}]
  PROVE  /\ call' \in [Session -> Call]
         /\ call'[s].pc = call[s].pc
         /\ call'[s].by = call[s].by
         /\ call'[s].t = call[s].t
         /\ call'[s].want = call[s].want
         /\ call'[s].todo = call[s].todo \ {d}
         /\ \A u \in Session \ {s} : call'[u] = call[u]
<1> DEFINE c == [call[s] EXCEPT !.todo = @ \ {d}]
<1>1. call[s] \in Call
  BY DEF TypeOK
<1>2. /\ c \in Call
      /\ c.pc = call[s].pc /\ c.by = call[s].by /\ c.t = call[s].t
      /\ c.want = call[s].want /\ c.todo = call[s].todo \ {d}
  BY <1>1 DEF Call
<1>3. call' = [call EXCEPT ![s] = c]
  OBVIOUS
<1> HIDE DEF c
<1>. QED  BY <1>2, <1>3 DEF TypeOK

LEMMA EndFacts ==
  ASSUME TypeOK, NEW s \in Session, End(s)
  PROVE  /\ call' \in [Session -> Call]
         /\ dueLock' \in [Due -> Session \cup {NULL}]
         /\ walletLock' \in [Profile -> Session \cup {NULL}]
         /\ call'[s].pc = "idle"
         /\ \A u \in Session \ {s} : call'[u] = call[u]
         /\ \A d \in Due : dueLock'[d] # s
         /\ \A p \in Profile : walletLock'[p] # s
         /\ \A u \in Session \ {s} :
              /\ \A d \in Due : dueLock'[d] = u <=> dueLock[d] = u
              /\ \A p \in Profile : walletLock'[p] = u <=> walletLock[p] = u
  BY IdleType, PaymentsAssumption DEF TypeOK, End

-----------------------------------------------------------------------------
(* Rows of transfers keep all but their status once they exist.            *)

RowsKept ==
  \A t \in Transfer : transfers[t] # NULL =>
    /\ transfers'[t] # NULL
    /\ transfers'[t].by = transfers[t].by
    /\ transfers'[t].due = transfers[t].due
    /\ transfers'[t].amount = transfers[t].amount

LEMMA RowFacts ==
  ASSUME TypeOK, NEW t \in Transfer, transfers[t] # NULL
  PROVE  /\ transfers[t] \in Row
         /\ transfers[t].by \in Profile
         /\ transfers[t].due \in Due \cup {NULL}
         /\ transfers[t].amount \in Amount
  BY DEF TypeOK, Row

LEMMA StatusFacts ==
  ASSUME TypeOK, NEW t \in Transfer, transfers[t] # NULL,
         NEW st \in {"pending", "confirmed", "rejected"},
         transfers' = [transfers EXCEPT ![t].status = st]
  PROVE  /\ RowsKept
         /\ transfers' \in [Transfer -> Row \cup {NULL}]
         /\ \A u \in Transfer \ {t} : transfers'[u] = transfers[u]
<1> DEFINE r == [transfers[t] EXCEPT !.status = st]
<1>1. transfers[t] \in Row
  BY DEF TypeOK
<1>2. /\ r \in Row
      /\ r.by = transfers[t].by
      /\ r.due = transfers[t].due
      /\ r.amount = transfers[t].amount
  BY <1>1 DEF Row
<1>3. transfers' = [transfers EXCEPT ![t] = r]
  OBVIOUS
<1>4. r # NULL
  BY <1>2, PaymentsAssumption
<1> HIDE DEF r
<1>. QED  BY <1>2, <1>3, <1>4 DEF TypeOK, RowsKept

\* A session that takes no part in a step keeps its invariant if the step
\* writes no wallet the session has locked and takes or frees none of its locks.
LEMMA Frame ==
  ASSUME TypeOK, NEW u \in Session, CallOK(u), WalletOK(u),
         call'[u] = call[u], RowsKept,
         \A p \in Profile : walletLock'[p] = u <=> walletLock[p] = u,
         \A p \in Profile : walletLock[p] = u => balance'[p] = balance[p]
  PROVE  CallOK(u)' /\ WalletOK(u)'
  BY RowFacts DEF CallOK, WalletOK, RowsKept

-----------------------------------------------------------------------------
(* The invariant about types and wallets.                                  *)

LEMMA InitMoney == Init => MoneyInv
<1> SUFFICES ASSUME Init PROVE MoneyInv
  OBVIOUS
<1> USE PaymentsAssumption
<1>1. TypeOK
  BY IdleType DEF Init, TypeOK, Amount
<1>2. ASSUME NEW s \in Session PROVE CallOK(s) /\ WalletOK(s)
  BY IdleType DEF Init, CallOK, WalletOK
<1>. QED  BY <1>1, <1>2 DEF MoneyInv

LEMMA StartMoney ==
  ASSUME MoneyInv, NEW s \in Session, Start(s)
  PROVE  MoneyInv'
<1> USE PaymentsAssumption
<1> SUFFICES ASSUME NEW c \in Call, Begin(s, c), UNCHANGED <<tables, locks>>,
                    c.pc \in {"submit", "confirm", "reject", "contest", "lock"},
                    c.pc = "submit" => c.by \in Profile,
                    c.pc \in {"confirm", "reject", "contest"} =>
                      c.t \in Transfer /\ transfers[c.t] # NULL,
                    c.pc = "lock" => c.by \in Profile
             PROVE  MoneyInv'
  <2>1. ASSUME NEW p \in Profile, NEW d \in Due \cup {NULL}, SubmitCheck(s, p, d)
        PROVE  MoneyInv'
    BY <2>1, LocalType DEF SubmitCheck, Local
  <2>2. ASSUME NEW t \in Transfer, ConfirmRead(s, t) PROVE MoneyInv'
    BY <2>2, LocalType DEF ConfirmRead, HasStatus, Local
  <2>3. ASSUME NEW t \in Transfer, RejectRead(s, t) PROVE MoneyInv'
    BY <2>3, LocalType DEF RejectRead, HasStatus, Local
  <2>4. ASSUME NEW t \in Transfer, ContestRead(s, t) PROVE MoneyInv'
    BY <2>4, LocalType, RowFacts DEF ContestRead, HasStatus, Local, MoneyInv
  <2>5. ASSUME NEW p \in Profile, NEW D \in SUBSET Due, PayBegin(s, p, D)
        PROVE  MoneyInv'
    BY <2>5, LocalType DEF PayBegin, Local
  <2>. QED  BY <2>1, <2>2, <2>3, <2>4, <2>5 DEF Start
<1>1. TypeOK'
  BY BeginFacts DEF MoneyInv, TypeOK, tables, locks
<1>2. CallOK(s)' /\ WalletOK(s)'
  BY BeginFacts DEF MoneyInv, CallOK, WalletOK, tables, locks
<1>3. ASSUME NEW u \in Session \ {s} PROVE CallOK(u)' /\ WalletOK(u)'
  BY Frame, BeginFacts DEF MoneyInv, RowsKept, tables, locks
<1>. QED  BY <1>1, <1>2, <1>3 DEF MoneyInv

\* A transaction that ends without a write to a table.
LEMMA RaiseMoney ==
  ASSUME MoneyInv, NEW s \in Session, Raise(s)
  PROVE  MoneyInv'
<1>1. TypeOK'
  BY EndFacts DEF MoneyInv, Raise, TypeOK, tables
<1>2. CallOK(s)' /\ WalletOK(s)'
  BY EndFacts DEF MoneyInv, Raise, CallOK, WalletOK
<1>3. ASSUME NEW u \in Session \ {s} PROVE CallOK(u)' /\ WalletOK(u)'
  BY Frame, EndFacts DEF MoneyInv, Raise, RowsKept, tables
<1>. QED  BY <1>1, <1>2, <1>3 DEF MoneyInv

\* A transaction that ends with a write to a transfer and, perhaps, to the one
\* wallet it has locked.
LEMMA EndMoney ==
  ASSUME MoneyInv, NEW s \in Session, End(s), TypeOK', RowsKept,
         \A p \in Profile : balance'[p] # balance[p] => walletLock[p] = s
  PROVE  MoneyInv'
<1>1. CallOK(s)' /\ WalletOK(s)'
  BY EndFacts DEF MoneyInv, CallOK, WalletOK
<1>2. ASSUME NEW u \in Session \ {s} PROVE CallOK(u)' /\ WalletOK(u)'
  BY Frame, EndFacts DEF MoneyInv
<1>. QED  BY <1>1, <1>2 DEF MoneyInv

-----------------------------------------------------------------------------
(* Every statement of a running transaction keeps the invariant.           *)

LEMMA SubmitInsertMoney ==
  ASSUME MoneyInv, NEW s \in Session, SubmitInsert(s)
  PROVE  MoneyInv'
<1> DEFINE d == call[s].due
<1> USE PaymentsAssumption
<1>1. d \in Due \cup {NULL} /\ call[s].by \in Profile
  BY DEF MoneyInv, TypeOK, Call, CallOK, SubmitInsert, At
<1>2. PICK t \in Transfer, a \in Amount :
         /\ transfers[t] = NULL
         /\ transfers' = [transfers EXCEPT ![t] =
              [by |-> call[s].by, due |-> d, amount |-> a, status |-> "pending"]]
  BY <1>1 DEF SubmitInsert
<1>3. [by |-> call[s].by, due |-> d, amount |-> a, status |-> "pending"] \in Row
  BY <1>1 DEF Row
<1>4. TypeOK'
  BY <1>2, <1>3, EndFacts DEF MoneyInv, SubmitInsert, TypeOK
<1>5. RowsKept
  BY <1>2 DEF RowsKept, MoneyInv, TypeOK
<1>. QED  BY <1>4, <1>5, EndMoney DEF SubmitInsert

LEMMA ConfirmTopupMoney ==
  ASSUME MoneyInv, NEW s \in Session, ConfirmTopup(s)
  PROVE  MoneyInv'
<1> DEFINE row == transfers[call[s].t]
<1> USE PaymentsAssumption
<1>1. CASE Raise(s)
  BY <1>1, RaiseMoney
<1>2. CASE ~Raise(s)
  <2>1. /\ row.due = NULL /\ walletLock[row.by] = NULL
        /\ balance[row.by] + row.amount <= MaxInteger
        /\ walletLock' = [walletLock EXCEPT ![row.by] = s]
        /\ Continue(s, "post")
        /\ UNCHANGED <<tables, dueLock>>
        /\ call[s].pc = "confirm"
    <3>1. balance[row.by] + row.amount \in Int
      BY RowFacts DEF MoneyInv, CallOK, TypeOK, Amount, ConfirmTopup, At
    <3>. QED  BY <1>2, <3>1 DEF ConfirmTopup, At
  <2>2. /\ call[s].t \in Transfer /\ transfers[call[s].t] # NULL
        /\ row.by \in Profile
    BY <2>1, RowFacts DEF MoneyInv, CallOK
  <2>3. TypeOK'
    BY <2>1, <2>2, ContinueFacts DEF MoneyInv, TypeOK, tables
  <2>4. CallOK(s)' /\ WalletOK(s)'
    BY <2>1, <2>2, ContinueFacts DEF MoneyInv, TypeOK, CallOK, WalletOK, tables
  <2>5. ASSUME NEW u \in Session \ {s} PROVE CallOK(u)' /\ WalletOK(u)'
    BY <2>1, <2>2, Frame, ContinueFacts DEF MoneyInv, TypeOK, RowsKept, tables
  <2>. QED  BY <2>3, <2>4, <2>5 DEF MoneyInv
<1>. QED  BY <1>1, <1>2

\* A statement that takes at most a row lock of a due.
LEMMA DueLockMoney ==
  ASSUME MoneyInv, NEW s \in Session, UNCHANGED <<tables, walletLock>>,
         call' \in [Session -> Call],
         dueLock' \in [Due -> Session \cup {NULL}],
         \A u \in Session \ {s} : call'[u] = call[u],
         CallOK(s)', WalletOK(s)'
  PROVE  MoneyInv'
<1>1. TypeOK'
  BY DEF MoneyInv, TypeOK, tables
<1>2. ASSUME NEW u \in Session \ {s} PROVE CallOK(u)' /\ WalletOK(u)'
  BY Frame DEF MoneyInv, RowsKept, tables
<1>. QED  BY <1>1, <1>2 DEF MoneyInv

LEMMA ConfirmDueMoney ==
  ASSUME MoneyInv, NEW s \in Session, ConfirmDue(s)
  PROVE  MoneyInv'
<1>1. /\ call[s].pc = "confirm"
      /\ transfers[call[s].t].due # NULL
      /\ Continue(s, "post")
      /\ UNCHANGED <<tables, walletLock>>
  BY DEF ConfirmDue, At
<1>2. dueLock' \in [Due -> Session \cup {NULL}]
  BY DEF ConfirmDue, MoneyInv, TypeOK
<1>3. CallOK(s)' /\ WalletOK(s)'
  BY <1>1, ContinueFacts DEF MoneyInv, CallOK, WalletOK, tables
<1>. QED  BY <1>1, <1>2, <1>3, DueLockMoney, ContinueFacts DEF MoneyInv

LEMMA ConfirmPostMoney ==
  ASSUME MoneyInv, NEW s \in Session, ConfirmPost(s)
  PROVE  MoneyInv'
<1> DEFINE t == call[s].t
           row == transfers[t]
<1> USE PaymentsAssumption
<1>1. /\ t \in Transfer /\ row # NULL
      /\ row.by \in Profile /\ row.amount \in Amount
  BY RowFacts DEF ConfirmPost, At, MoneyInv, CallOK
<1>2. /\ transfers' = [transfers EXCEPT ![t].status = "confirmed"]
      /\ notice' \in [Transfer -> {"none", "transfer_confirmed",
                              "transfer_rejected", "transfer_contested"}]
      /\ posted' \in [Transfer -> Nat]
      /\ debited' = debited
      /\ End(s)
  BY <1>1 DEF ConfirmPost, Resolve, MoneyInv, TypeOK
<1>3. RowsKept /\ transfers' \in [Transfer -> Row \cup {NULL}]
  BY <1>1, <1>2, StatusFacts DEF MoneyInv
<1>4. dueStatus' \in [Due -> {"unassigned", "due", "paid", "deleted"}]
  BY DEF ConfirmPost, MoneyInv, TypeOK
<1>5. /\ balance' \in [Profile -> Amount]
      /\ \A p \in Profile : balance'[p] # balance[p] => walletLock[p] = s
  <2>1. CASE row.due = NULL
    <3>1. balance' = [balance EXCEPT ![row.by] = @ + row.amount]
      BY <2>1 DEF ConfirmPost
    <3>2. walletLock[row.by] = s /\ balance[row.by] + row.amount \in Amount
      BY <1>1, <2>1 DEF ConfirmPost, At, MoneyInv, TypeOK, WalletOK, Amount
    <3>. QED  BY <1>1, <3>1, <3>2 DEF MoneyInv, TypeOK
  <2>2. CASE row.due # NULL
    BY <2>2 DEF ConfirmPost, MoneyInv, TypeOK
  <2>. QED  BY <2>1, <2>2
<1>6. TypeOK'
  BY <1>2, <1>3, <1>4, <1>5, EndFacts DEF MoneyInv, TypeOK
<1>. QED  BY <1>2, <1>3, <1>5, <1>6, EndMoney

\* reject_transfer and contest_transfer write nothing but a status.
LEMMA StatusMoney ==
  ASSUME MoneyInv, NEW s \in Session, RejectWrite(s) \/ ContestWrite(s)
  PROVE  MoneyInv'
<1>1. call[s].t \in Transfer /\ transfers[call[s].t] # NULL
  BY DEF RejectWrite, ContestWrite, At, MoneyInv, CallOK
<1>2. PICK st \in {"pending", "rejected"} :
         transfers' = [transfers EXCEPT ![call[s].t].status = st]
  BY DEF RejectWrite, ContestWrite, Resolve
<1>3. notice' \in [Transfer -> {"none", "transfer_confirmed",
                              "transfer_rejected", "transfer_contested"}]
  BY DEF RejectWrite, ContestWrite, Resolve, MoneyInv, TypeOK
<1>4. RowsKept /\ transfers' \in [Transfer -> Row \cup {NULL}]
  BY <1>1, <1>2, StatusFacts DEF MoneyInv
<1>5. End(s) /\ UNCHANGED <<dueStatus, balance, posted, debited>>
  BY DEF RejectWrite, ContestWrite
<1>6. TypeOK'
  BY <1>3, <1>4, <1>5, EndFacts DEF MoneyInv, TypeOK
<1>. QED  BY <1>4, <1>5, <1>6, EndMoney

LEMMA PayLockDueMoney ==
  ASSUME MoneyInv, NEW s \in Session, NEW d \in Due, PayLockDue(s, d)
  PROVE  MoneyInv'
<1> USE PaymentsAssumption
<1>1. /\ call' \in [Session -> Call]
      /\ call'[s].pc = "lock" /\ call[s].pc = "lock"
      /\ call'[s].by = call[s].by
      /\ \A u \in Session \ {s} : call'[u] = call[u]
  BY TodoFacts DEF PayLockDue, At, MoneyInv
<1>2. dueLock' \in [Due -> Session \cup {NULL}]
  BY DEF PayLockDue, MoneyInv, TypeOK
<1>3. CallOK(s)' /\ WalletOK(s)'
  BY <1>1 DEF PayLockDue, MoneyInv, CallOK, WalletOK, tables
<1>. QED  BY <1>1, <1>2, <1>3, DueLockMoney DEF PayLockDue

LEMMA PayCountMoney ==
  ASSUME MoneyInv, NEW s \in Session, PayCount(s)
  PROVE  MoneyInv'
<1>1. CASE Raise(s)
  BY <1>1, RaiseMoney
<1>2. CASE Continue(s, "debit") /\ UNCHANGED <<tables, locks>>
  <2>1. CallOK(s)' /\ WalletOK(s)'
    BY <1>2, ContinueFacts DEF PayCount, At, MoneyInv, CallOK, WalletOK, tables, locks
  <2>. QED
    BY <1>2, <2>1, DueLockMoney, ContinueFacts DEF MoneyInv, TypeOK, locks
<1>. QED  BY <1>1, <1>2 DEF PayCount

LEMMA PayLockWalletMoney ==
  ASSUME MoneyInv, NEW s \in Session, PayLockWallet(s)
  PROVE  MoneyInv'
<1> DEFINE p == call[s].by
<1> USE PaymentsAssumption
<1>1. CASE Raise(s)
  BY <1>1, RaiseMoney
<1>2. CASE ~Raise(s)
  <2>1. /\ call[s].pc = "debit" /\ p \in Profile /\ walletLock[p] = NULL
        /\ call[s].want \in SUBSET Due
    BY DEF PayLockWallet, At, MoneyInv, TypeOK, Call, CallOK
  <2>2. DueTotal[call[s].want] \in Nat /\ balance[p] \in Int
    BY <2>1 DEF MoneyInv, TypeOK, Amount
  <2>3. /\ DueTotal[call[s].want] <= balance[p]
        /\ walletLock' = [walletLock EXCEPT ![p] = s]
        /\ Continue(s, "commit")
        /\ UNCHANGED <<tables, dueLock>>
    BY <1>2, <2>2 DEF PayLockWallet
  <2>4. TypeOK'
    BY <2>1, <2>3, ContinueFacts DEF MoneyInv, TypeOK, tables
  <2>5. CallOK(s)' /\ WalletOK(s)'
    BY <2>1, <2>3, ContinueFacts DEF MoneyInv, TypeOK, CallOK, WalletOK, tables
  <2>6. ASSUME NEW u \in Session \ {s} PROVE CallOK(u)' /\ WalletOK(u)'
    BY <2>1, <2>3, Frame, ContinueFacts DEF MoneyInv, TypeOK, RowsKept, tables
  <2>. QED  BY <2>4, <2>5, <2>6 DEF MoneyInv
<1>. QED  BY <1>1, <1>2

LEMMA PayCommitMoney ==
  ASSUME MoneyInv, NEW s \in Session, PayCommit(s)
  PROVE  MoneyInv'
<1> DEFINE p == call[s].by
           D == call[s].want
<1> USE PaymentsAssumption
<1>1. /\ p \in Profile /\ D \in SUBSET Due
      /\ walletLock[p] = s /\ DueTotal[D] <= balance[p]
  BY DEF PayCommit, At, MoneyInv, TypeOK, Call, CallOK, WalletOK
<1>2. balance[p] - DueTotal[D] \in Amount
  <2>1. balance[p] \in 0..MaxInteger
    BY <1>1 DEF MoneyInv, TypeOK, Amount
  <2>2. DueTotal[D] \in Nat
    BY <1>1
  <2>. QED  BY <1>1, <2>1, <2>2 DEF Amount
<1>3. /\ balance' \in [Profile -> Amount]
      /\ \A q \in Profile : balance'[q] # balance[q] => walletLock[q] = s
  BY <1>1, <1>2 DEF PayCommit, MoneyInv, TypeOK
<1>4. debited' \in [Profile -> [Due -> Nat]]
  BY <1>1 DEF PayCommit, MoneyInv, TypeOK
<1>5. dueStatus' \in [Due -> {"unassigned", "due", "paid", "deleted"}]
  BY DEF PayCommit, MoneyInv, TypeOK
<1>6. End(s) /\ UNCHANGED <<transfers, posted, notice>>
  BY DEF PayCommit
<1>7. TypeOK'
  BY <1>3, <1>4, <1>5, <1>6, EndFacts DEF MoneyInv, TypeOK
<1>8. RowsKept
  BY <1>6 DEF RowsKept
<1>. QED  BY <1>3, <1>6, <1>7, <1>8, EndMoney

\* Finance's own statements touch no wallet, lock or call.
LEMMA FinanceMoney ==
  ASSUME MoneyInv, NEW d \in Due, Finance(d)
  PROVE  MoneyInv'
<1>1. /\ dueStatus' \in [Due -> {"unassigned", "due", "paid", "deleted"}]
      /\ UNCHANGED <<transfers, balance, posted, debited, notice, locks, call>>
  BY DEF Finance, AssignDue, MarkDuePaid, ReopenDue, DeleteDue, SetDue,
         MoneyInv, TypeOK
<1>. QED  BY <1>1 DEF MoneyInv, TypeOK, CallOK, WalletOK, locks

LEMMA RunMoney ==
  ASSUME MoneyInv, NEW s \in Session, Run(s)
  PROVE  MoneyInv'
BY SubmitInsertMoney, ConfirmTopupMoney, ConfirmDueMoney, ConfirmPostMoney,
   StatusMoney, PayLockDueMoney, PayCountMoney, PayLockWalletMoney,
   PayCommitMoney
   DEF Run

LEMMA MoneyStep == MoneyInv /\ [Next]_vars => MoneyInv'
<1> SUFFICES ASSUME MoneyInv, [Next]_vars PROVE MoneyInv'
  OBVIOUS
<1>1. CASE \E s \in Session : Start(s) \/ Run(s)
  BY <1>1, StartMoney, RunMoney
<1>2. CASE \E s \in Session : Rollback(s) \/ DeadlockAbort(s)
  BY <1>2, RaiseMoney DEF Rollback, DeadlockAbort, Raise
<1>3. CASE \E d \in Due : Finance(d)
  BY <1>3, FinanceMoney
<1>4. CASE UNCHANGED vars
  BY <1>4 DEF vars, tables, locks, MoneyInv, TypeOK, CallOK, WalletOK
<1>. QED  BY <1>1, <1>2, <1>3, <1>4 DEF Next

\* In every reachable state the local variables of the calls mean what the
\* statements that follow rely on, and a balance about to be written is the
\* one that was compared.
THEOREM MoneyCorrect == Spec => []MoneyInv
  BY InitMoney, MoneyStep, PTL DEF Spec

\* The tables hold only rows their columns admit: above all a wallet is never
\* overdrawn and never exceeds the integer range, for any number of sessions,
\* residents, dues and transfers.
THEOREM TypeCorrect == Spec => []TypeOK
<1>1. MoneyInv => TypeOK
  BY DEF MoneyInv
<1>. QED  BY MoneyCorrect, <1>1, PTL

-----------------------------------------------------------------------------
(* Dues.  From here on no due is ever reopened; dues then only move from    *)
(* unassigned to due to paid to deleted.                                   *)

DuesForward ==
  \A d \in Due :
    /\ dueStatus[d] \in {"paid", "deleted"} => dueStatus'[d] \in {"paid", "deleted"}
    /\ dueStatus[d] = "deleted" => dueStatus'[d] = "deleted"
    /\ dueStatus[d] # "unassigned" => dueStatus'[d] # "unassigned"

DebitsInv == MoneyInv /\ DuesInv /\ DebitedOnce

\* A session that takes no part in a step keeps its invariant if dues move
\* forward, those it has locked stay as they are, and its locks stay.
LEMMA DuesFrame ==
  ASSUME TypeOK, NEW u \in Session, CallOK(u), DueOK(u),
         call'[u] = call[u], RowsKept, DuesForward,
         \A d \in Due : dueLock'[d] = u <=> dueLock[d] = u,
         \A d \in Due : dueLock[d] = u => dueStatus'[d] = dueStatus[d]
  PROVE  DueOK(u)'
<1>1. call[u] \in Call
  BY DEF TypeOK
<1>2. call[u].want \subseteq Due /\ call[u].due \in Due \cup {NULL}
  BY <1>1 DEF Call
<1>3. call[u].pc = "post" =>
        /\ transfers'[call[u].t].due = transfers[call[u].t].due
        /\ transfers[call[u].t].due \in Due \cup {NULL}
  BY RowFacts DEF CallOK, RowsKept
<1>4. \A d \in call[u].want : dueLock[d] = u =>
         (Payable(call[u].by, d) => Payable(call[u].by, d)')
  BY <1>2 DEF Payable
<1>. QED  BY <1>2, <1>3, <1>4 DEF DueOK, DuesForward

\* A step that debits nobody.
LEMMA UndebitedStep ==
  ASSUME DebitsInv, MoneyInv', debited' = debited, DuesForward,
         TransfersNameDues', \A u \in Session : DueOK(u)'
  PROVE  DebitsInv'
<1>1. DebitedStayPaid'
  BY DEF DebitsInv, DuesInv, DebitedStayPaid, DuesForward
<1>2. DebitedOnce'
  BY DEF DebitsInv, DebitedOnce
<1>. QED  BY <1>1, <1>2 DEF DebitsInv, DuesInv

\* Transfers stay tied to dues that were assigned.
LEMMA NamesKept ==
  ASSUME TypeOK, TransfersNameDues, DuesForward,
         \A t \in Transfer : transfers'[t] # NULL /\ transfers'[t].due # NULL =>
           transfers[t] # NULL /\ transfers'[t].due = transfers[t].due
  PROVE  TransfersNameDues'
  BY RowFacts DEF TransfersNameDues, DuesForward

\* Statements that end a transaction having at most confirmed, rejected or
\* resubmitted a transfer.
LEMMA EndDues ==
  ASSUME DebitsInv, MoneyInv', NEW s \in Session, End(s), debited' = debited,
         RowsKept, DuesForward, TransfersNameDues',
         \A d \in Due : dueStatus'[d] # dueStatus[d] => dueLock[d] = s
  PROVE  DebitsInv'
<1>1. TypeOK
  BY DEF DebitsInv, MoneyInv
<1>2. DueOK(s)'
  BY <1>1, EndFacts DEF DueOK
<1>3. ASSUME NEW u \in Session \ {s} PROVE DueOK(u)'
  BY <1>1, DuesFrame, EndFacts DEF DebitsInv, MoneyInv, DuesInv
<1>. QED  BY <1>2, <1>3, UndebitedStep

LEMMA RaiseDues ==
  ASSUME DebitsInv, MoneyInv', NEW s \in Session, Raise(s)
  PROVE  DebitsInv'
<1>1. End(s) /\ debited' = debited /\ dueStatus' = dueStatus /\ transfers' = transfers
  BY DEF Raise, tables
<1>2. RowsKept /\ DuesForward
  BY <1>1 DEF RowsKept, DuesForward
<1>3. TransfersNameDues'
  BY <1>1 DEF DebitsInv, DuesInv, TransfersNameDues
<1>. QED  BY <1>1, <1>2, <1>3, EndDues

\* Steps that change no table, and of the locks of dues only the stepping
\* session's.
LEMMA QuietDues ==
  ASSUME DebitsInv, MoneyInv', NEW s \in Session, UNCHANGED tables,
         \A u \in Session \ {s} : call'[u] = call[u],
         \A u \in Session \ {s} : \A d \in Due : dueLock'[d] = u <=> dueLock[d] = u,
         DueOK(s)'
  PROVE  DebitsInv'
<1>1. debited' = debited /\ dueStatus' = dueStatus /\ transfers' = transfers
  BY DEF tables
<1>2. RowsKept /\ DuesForward
  BY <1>1 DEF RowsKept, DuesForward
<1>3. TransfersNameDues'
  BY <1>1 DEF DebitsInv, DuesInv, TransfersNameDues
<1>4. ASSUME NEW u \in Session \ {s} PROVE DueOK(u)'
  BY <1>1, <1>2, DuesFrame DEF DebitsInv, MoneyInv, DuesInv
<1>. QED  BY <1>1, <1>2, <1>3, <1>4, UndebitedStep

LEMMA InitDebits == Init => DebitsInv
<1> SUFFICES ASSUME Init PROVE DebitsInv
  OBVIOUS
<1> USE PaymentsAssumption
<1>1. DebitedStayPaid /\ DebitedOnce /\ TransfersNameDues
  BY DEF Init, DebitedStayPaid, DebitedOnce, TransfersNameDues
<1>2. ASSUME NEW s \in Session PROVE DueOK(s)
  BY IdleType DEF Init, DueOK
<1>. QED  BY <1>1, <1>2, InitMoney DEF DebitsInv, DuesInv

LEMMA StartDues ==
  ASSUME DebitsInv, MoneyInv', NEW s \in Session, Start(s)
  PROVE  DebitsInv'
<1> USE PaymentsAssumption
<1>1. TypeOK
  BY DEF DebitsInv, MoneyInv
<1>2. ASSUME NEW c \in Call, Begin(s, c), UNCHANGED <<tables, locks>>,
             c.pc \in {"submit", "confirm", "reject", "contest", "lock"},
             c.pc = "submit" /\ c.due # NULL => dueStatus[c.due] # "unassigned",
             c.pc = "lock" => \A d \in c.want :
               /\ dueStatus[d] # "unassigned"
               /\ \/ d \in c.todo
                  \/ dueStatus[d] \in {"paid", "deleted"}
                  \/ Owner[d] \notin Household[c.by]
      PROVE  DebitsInv'
  <2>1. \A d \in Due : dueLock[d] # s
    BY <1>1, <1>2, BeginFacts DEF DebitsInv, DuesInv, DueOK
  <2>2. DueOK(s)'
    BY <1>1, <1>2, <2>1, BeginFacts DEF DueOK, tables, locks
  <2>. QED  BY <1>1, <1>2, <2>2, BeginFacts, QuietDues DEF tables, locks
<1>3. ASSUME NEW p \in Profile, NEW d \in Due \cup {NULL}, SubmitCheck(s, p, d)
      PROVE  DebitsInv'
  BY <1>2, <1>3, LocalType DEF SubmitCheck, Local, Payable
<1>4. ASSUME NEW t \in Transfer, ConfirmRead(s, t) PROVE DebitsInv'
  BY <1>2, <1>4, LocalType DEF ConfirmRead, Local
<1>5. ASSUME NEW t \in Transfer, RejectRead(s, t) PROVE DebitsInv'
  BY <1>2, <1>5, LocalType DEF RejectRead, Local
<1>6. ASSUME NEW t \in Transfer, ContestRead(s, t) PROVE DebitsInv'
  BY <1>1, <1>2, <1>6, LocalType, RowFacts DEF ContestRead, HasStatus, Local
<1>7. ASSUME NEW p \in Profile, NEW D \in SUBSET Due, PayBegin(s, p, D)
      PROVE  DebitsInv'
  <2>1. \A d \in D : \/ Payable(p, d)
                     \/ dueStatus[d] \in {"paid", "deleted"}
                     \/ Owner[d] \notin Household[p]
    BY <1>1, <1>7 DEF PayBegin, Payable, TypeOK
  <2>. QED  BY <1>2, <1>7, <2>1, LocalType DEF PayBegin, Local
<1>. QED  BY <1>3, <1>4, <1>5, <1>6, <1>7 DEF Start

LEMMA SubmitInsertDues ==
  ASSUME DebitsInv, MoneyInv', NEW s \in Session, SubmitInsert(s)
  PROVE  DebitsInv'
<1> DEFINE d == call[s].due
<1> USE PaymentsAssumption
<1>1. TypeOK /\ call[s] \in Call /\ d \in Due \cup {NULL}
  BY DEF DebitsInv, MoneyInv, TypeOK, Call
<1>2. PICK t \in Transfer, a \in Amount :
         /\ transfers[t] = NULL
         /\ transfers' = [transfers EXCEPT ![t] =
              [by |-> call[s].by, due |-> d, amount |-> a, status |-> "pending"]]
  BY <1>1 DEF SubmitInsert
<1>3. d # NULL => dueStatus[d] # "unassigned"
  BY DEF SubmitInsert, At, DebitsInv, DuesInv, DueOK
<1>4. End(s) /\ debited' = debited /\ dueStatus' = dueStatus
  BY DEF SubmitInsert
<1>5. RowsKept /\ DuesForward
  BY <1>1, <1>2, <1>4 DEF RowsKept, DuesForward, TypeOK
<1>6. TransfersNameDues'
  BY <1>1, <1>2, <1>3, <1>4 DEF DebitsInv, DuesInv, TransfersNameDues, TypeOK
<1>. QED  BY <1>4, <1>5, <1>6, EndDues

LEMMA ConfirmLockDues ==
  ASSUME DebitsInv, MoneyInv', NEW s \in Session, ConfirmTopup(s) \/ ConfirmDue(s)
  PROVE  DebitsInv'
<1> DEFINE row == transfers[call[s].t]
<1> USE PaymentsAssumption
<1>1. CASE Raise(s)
  BY <1>1, RaiseDues
<1>2. CASE ~Raise(s)
  <2>1. /\ TypeOK /\ call[s].pc = "confirm" /\ Continue(s, "post")
        /\ UNCHANGED tables
    BY <1>2 DEF ConfirmTopup, ConfirmDue, At, DebitsInv, MoneyInv, tables
  <2>2. call[s].t \in Transfer /\ row # NULL /\ row.due \in Due \cup {NULL}
    BY <2>1, RowFacts DEF DebitsInv, MoneyInv, CallOK
  <2>3. row.due # NULL => Exists(row.due) \/ dueStatus[row.due] = "deleted"
    BY <2>1, <2>2 DEF DebitsInv, DuesInv, TransfersNameDues, Exists, TypeOK
  <2>4. /\ \A u \in Session \ {s} : \A d \in Due : dueLock'[d] = u <=> dueLock[d] = u
        /\ row.due # NULL => dueLock'[row.due] = s \/ dueStatus[row.due] = "deleted"
    <3>1. CASE ConfirmTopup(s)
      BY <1>2, <3>1 DEF ConfirmTopup
    <3>2. CASE ConfirmDue(s)
      BY <2>1, <2>2, <2>3, <3>2 DEF ConfirmDue, TypeOK
    <3>. QED  BY <3>1, <3>2
  <2>5. DueOK(s)'
    BY <2>1, <2>4, ContinueFacts DEF DueOK, tables
  <2>. QED  BY <2>1, <2>4, <2>5, ContinueFacts, QuietDues
<1>. QED  BY <1>1, <1>2

LEMMA ConfirmPostDues ==
  ASSUME DebitsInv, MoneyInv', NEW s \in Session, ConfirmPost(s)
  PROVE  DebitsInv'
<1> DEFINE t == call[s].t
           row == transfers[t]
<1> USE PaymentsAssumption
<1>1. /\ TypeOK /\ call[s].pc = "post" /\ t \in Transfer /\ row # NULL
      /\ row.due \in Due \cup {NULL}
  BY RowFacts DEF ConfirmPost, At, DebitsInv, MoneyInv, CallOK
<1>2. /\ transfers' = [transfers EXCEPT ![t].status = "confirmed"]
      /\ debited' = debited /\ End(s)
  BY DEF ConfirmPost, Resolve
<1>3. RowsKept /\ \A u \in Transfer \ {t} : transfers'[u] = transfers[u]
  BY <1>1, <1>2, StatusFacts
<1>4. /\ \A d \in Due : dueStatus'[d] # dueStatus[d] => dueLock[d] = s
      /\ DuesForward
  <2>1. CASE row.due = NULL
    BY <2>1 DEF ConfirmPost, DuesForward
  <2>2. CASE row.due # NULL
    <3>1. dueLock[row.due] = s \/ dueStatus[row.due] = "deleted"
      BY <1>1, <2>2 DEF DebitsInv, DuesInv, DueOK
    <3>2. dueStatus' = IF Exists(row.due)
                       THEN [dueStatus EXCEPT ![row.due] = "paid"] ELSE dueStatus
      BY <2>2 DEF ConfirmPost
    <3>. QED  BY <1>1, <3>1, <3>2 DEF DuesForward, Exists, TypeOK
  <2>. QED  BY <2>1, <2>2
<1>5. TransfersNameDues'
  BY <1>1, <1>3, <1>4, NamesKept DEF DebitsInv, DuesInv, RowsKept
<1>. QED  BY <1>2, <1>3, <1>4, <1>5, EndDues

LEMMA StatusDues ==
  ASSUME DebitsInv, MoneyInv', NEW s \in Session, RejectWrite(s) \/ ContestWrite(s)
  PROVE  DebitsInv'
<1> DEFINE t == call[s].t
<1>1. TypeOK /\ t \in Transfer /\ transfers[t] # NULL
  BY DEF RejectWrite, ContestWrite, At, DebitsInv, MoneyInv, CallOK
<1>2. PICK st \in {"pending", "rejected"} :
         transfers' = [transfers EXCEPT ![t].status = st]
  BY DEF RejectWrite, ContestWrite, Resolve
<1>3. RowsKept /\ \A u \in Transfer \ {t} : transfers'[u] = transfers[u]
  BY <1>1, <1>2, StatusFacts
<1>4. End(s) /\ debited' = debited /\ dueStatus' = dueStatus
  BY DEF RejectWrite, ContestWrite
<1>5. DuesForward
  BY <1>4 DEF DuesForward
<1>6. TransfersNameDues'
  BY <1>1, <1>3, <1>5, NamesKept DEF DebitsInv, DuesInv, RowsKept
<1>. QED  BY <1>3, <1>4, <1>5, <1>6, EndDues

LEMMA PayLockDueDues ==
  ASSUME DebitsInv, MoneyInv', NEW s \in Session, NEW x \in Due, PayLockDue(s, x)
  PROVE  DebitsInv'
<1> DEFINE c == call[s]
<1> USE PaymentsAssumption
<1>1. /\ TypeOK /\ c \in Call /\ c.pc = "lock" /\ dueLock[x] = NULL
      /\ UNCHANGED tables
  BY DEF PayLockDue, At, DebitsInv, MoneyInv, TypeOK
<1>2. /\ call'[s].pc = "lock" /\ call'[s].by = c.by /\ call'[s].want = c.want
      /\ call'[s].todo = c.todo \ {x}
      /\ \A u \in Session \ {s} : call'[u] = call[u]
  BY <1>1, TodoFacts DEF PayLockDue
<1>3. /\ \A u \in Session : \A d \in Due \ {x} : dueLock'[d] = u <=> dueLock[d] = u
      /\ \A u \in Session \ {s} : dueLock'[x] = u <=> dueLock[x] = u
      /\ Payable(c.by, x) => dueLock'[x] = s
  BY <1>1 DEF PayLockDue, TypeOK, Payable, Exists
<1>4. c.want \subseteq Due
  BY <1>1 DEF Call
<1>5. x \in c.want => \/ Payable(c.by, x)
                     \/ dueStatus[x] \in {"paid", "deleted"}
                     \/ Owner[x] \notin Household[c.by]
  BY <1>1 DEF Payable, TypeOK, DebitsInv, DuesInv, DueOK
<1>6. DueOK(s)'
  BY <1>1, <1>2, <1>3, <1>4, <1>5 DEF DueOK, Payable, DebitsInv, DuesInv, tables
<1>. QED  BY <1>1, <1>2, <1>3, <1>6, QuietDues

LEMMA PayCountDues ==
  ASSUME DebitsInv, MoneyInv', NEW s \in Session, PayCount(s)
  PROVE  DebitsInv'
<1> DEFINE c == call[s]
<1>1. CASE Raise(s)
  BY <1>1, RaiseDues
<1>2. CASE ~Raise(s)
  <2>1. /\ TypeOK /\ c \in Call /\ c.pc = "lock" /\ c.todo = {}
        /\ \A d \in c.want : Payable(c.by, d)
        /\ Continue(s, "debit") /\ UNCHANGED tables /\ dueLock' = dueLock
    BY <1>2 DEF PayCount, At, DebitsInv, MoneyInv, TypeOK, locks
  <2>2. \A d \in c.want : dueLock[d] = s
    BY <2>1 DEF DebitsInv, DuesInv, DueOK, Payable
  <2>3. DueOK(s)'
    BY <2>1, <2>2, ContinueFacts DEF DebitsInv, DuesInv, DueOK, Payable, tables
  <2>. QED  BY <2>1, <2>3, ContinueFacts, QuietDues
<1>. QED  BY <1>1, <1>2

LEMMA PayLockWalletDues ==
  ASSUME DebitsInv, MoneyInv', NEW s \in Session, PayLockWallet(s)
  PROVE  DebitsInv'
<1>1. CASE Raise(s)
  BY <1>1, RaiseDues
<1>2. CASE ~Raise(s)
  <2>1. /\ TypeOK /\ call[s].pc = "debit" /\ Continue(s, "commit")
        /\ UNCHANGED tables /\ dueLock' = dueLock
    BY <1>2 DEF PayLockWallet, At, DebitsInv, MoneyInv
  <2>2. DueOK(s)'
    BY <2>1, ContinueFacts DEF DebitsInv, DuesInv, DueOK, Payable, tables
  <2>. QED  BY <2>1, <2>2, ContinueFacts, QuietDues
<1>. QED  BY <1>1, <1>2

\* The dues a payment commits are unpaid and locked by it, hence not debited yet.
LEMMA PayCommitFacts ==
  ASSUME DebitsInv, NEW s \in Session, PayCommit(s)
  PROVE  /\ call[s].by \in Profile
         /\ call[s].want \subseteq Due
         /\ \A d \in call[s].want :
              /\ dueLock[d] = s /\ Payable(call[s].by, d)
              /\ \A q \in Profile : debited[q][d] = 0
         /\ DueTotal[call[s].want] <= balance[call[s].by]
         /\ dueStatus' = [d \in Due |-> IF d \in call[s].want THEN "paid"
                                        ELSE dueStatus[d]]
<1>1. /\ call[s].by \in Profile /\ call[s].want \subseteq Due
      /\ DueTotal[call[s].want] <= balance[call[s].by]
  BY DEF PayCommit, At, DebitsInv, MoneyInv, TypeOK, Call, CallOK, WalletOK
<1>2. \A d \in call[s].want : dueLock[d] = s /\ Payable(call[s].by, d)
  BY DEF PayCommit, At, DebitsInv, DuesInv, DueOK
<1>3. ASSUME NEW d \in call[s].want, NEW q \in Profile PROVE debited[q][d] = 0
  <2>1. debited[q][d] \in Nat /\ ~(debited[q][d] > 0)
    BY <1>1, <1>2 DEF DebitsInv, MoneyInv, TypeOK, DuesInv, DebitedStayPaid, Payable
  <2>. QED  BY <2>1
<1>4. dueStatus' = [d \in Due |-> IF d \in call[s].want THEN "paid" ELSE dueStatus[d]]
  BY <1>2 DEF PayCommit, Payable, Exists
<1>. QED  BY <1>1, <1>2, <1>3, <1>4

LEMMA PayCommitDues ==
  ASSUME DebitsInv, MoneyInv', NEW s \in Session, PayCommit(s)
  PROVE  DebitsInv'
<1> DEFINE p == call[s].by
           D == call[s].want
<1> USE PaymentsAssumption
<1>1. TypeOK /\ End(s) /\ transfers' = transfers
  BY DEF PayCommit, DebitsInv, MoneyInv
<1>2. /\ p \in Profile /\ D \subseteq Due
      /\ \A d \in D : dueLock[d] = s /\ \A q \in Profile : debited[q][d] = 0
      /\ dueStatus' = [d \in Due |-> IF d \in D THEN "paid" ELSE dueStatus[d]]
  BY PayCommitFacts
<1>3. \A q \in Profile, d \in Due :
        debited'[q][d] = IF q = p /\ d \in D THEN 1 ELSE debited[q][d]
  BY <1>1, <1>2 DEF PayCommit, TypeOK
<1>4. \A d \in D : dueStatus[d] = "due"
  BY PayCommitFacts DEF Payable
<1>5. RowsKept /\ DuesForward
  BY <1>1, <1>2, <1>4 DEF RowsKept, DuesForward
<1>6. TransfersNameDues'
  BY <1>1, <1>5, NamesKept DEF DebitsInv, DuesInv
<1>7. DebitedStayPaid'
  BY <1>2, <1>3 DEF DebitsInv, DuesInv, DebitedStayPaid
<1>8. DebitedOnce'
  BY <1>2, <1>3 DEF DebitsInv, DebitedOnce
<1>9. DueOK(s)'
  BY <1>1, EndFacts DEF DueOK
<1>10. ASSUME NEW u \in Session \ {s} PROVE DueOK(u)'
  BY <1>1, <1>2, <1>5, DuesFrame, EndFacts DEF DebitsInv, MoneyInv, DuesInv
<1>. QED  BY <1>6, <1>7, <1>8, <1>9, <1>10 DEF DebitsInv, DuesInv

LEMMA FinanceDues ==
  ASSUME ~ReopenDues, DebitsInv, MoneyInv', NEW x \in Due, Finance(x)
  PROVE  DebitsInv'
<1> USE PaymentsAssumption
<1>1. /\ TypeOK /\ dueLock[x] = NULL
      /\ UNCHANGED <<transfers, balance, posted, debited, notice, locks, call>>
      /\ \A d \in Due : dueStatus'[d] # dueStatus[d] => d = x
  BY DEF Finance, AssignDue, MarkDuePaid, ReopenDue, DeleteDue, SetDue,
         DebitsInv, MoneyInv, TypeOK
<1>2. DuesForward
  BY DEF Finance, AssignDue, MarkDuePaid, ReopenDue, DeleteDue, SetDue,
         DuesForward, DebitsInv, MoneyInv, TypeOK
<1>3. RowsKept
  BY <1>1 DEF RowsKept
<1>4. TransfersNameDues'
  BY <1>1, <1>2, NamesKept DEF DebitsInv, DuesInv
<1>5. ASSUME NEW u \in Session PROVE DueOK(u)'
  BY <1>1, <1>2, <1>3, DuesFrame DEF DebitsInv, MoneyInv, DuesInv, locks
<1>. QED  BY <1>1, <1>2, <1>4, <1>5, UndebitedStep

LEMMA DebitsStep ==
  ASSUME ~ReopenDues
  PROVE  DebitsInv /\ [Next]_vars => DebitsInv'
<1> SUFFICES ASSUME DebitsInv, [Next]_vars PROVE DebitsInv'
  OBVIOUS
<1>1. MoneyInv'
  BY MoneyStep DEF DebitsInv
<1>2. CASE \E s \in Session : Start(s)
  BY <1>1, <1>2, StartDues
<1>3. CASE \E s \in Session : Run(s)
  BY <1>1, <1>3, SubmitInsertDues, ConfirmLockDues, ConfirmPostDues, StatusDues,
     PayLockDueDues, PayCountDues, PayLockWalletDues, PayCommitDues DEF Run
<1>4. CASE \E s \in Session : Rollback(s) \/ DeadlockAbort(s)
  BY <1>1, <1>4, RaiseDues DEF Rollback, DeadlockAbort, Raise
<1>5. CASE \E d \in Due : Finance(d)
  BY <1>1, <1>5, FinanceDues
<1>6. CASE UNCHANGED vars
  BY <1>1, <1>6 DEF vars, tables, locks, DebitsInv, DuesInv, DueOK, DebitedOnce,
     DebitedStayPaid, TransfersNameDues, Payable
<1>. QED  BY <1>2, <1>3, <1>4, <1>5, <1>6 DEF Next

LEMMA DebitsCorrect ==
  ASSUME ~ReopenDues
  PROVE  Spec => []DebitsInv
<1>1. DebitsInv /\ [Next]_vars => DebitsInv'
  BY DebitsStep
<1>. QED  BY InitDebits, <1>1, PTL DEF Spec

\* If finance reopens no due, no due is taken out of wallets twice: the row
\* locks and the second count of pay_dues_from_wallet suffice for any number
\* of overlapping calls and any household.
THEOREM DebitedOnceCorrect ==
  ASSUME ~ReopenDues
  PROVE  Spec => []DebitedOnce
<1>1. DebitsInv => DebitedOnce
  BY DEF DebitsInv
<1>. QED  BY DebitsCorrect, <1>1, PTL

-----------------------------------------------------------------------------
(* What each step does to the debits, and its image in AtomicDues.         *)

LEMMA OnlyPayCommitDebits ==
  ASSUME [Next]_vars, debited' # debited
  PROVE  \E s \in Session : PayCommit(s)
<1>1. ASSUME NEW s \in Session, Run(s) PROVE PayCommit(s)
  BY <1>1 DEF Run, SubmitInsert, ConfirmTopup, ConfirmDue, ConfirmPost, RejectWrite,
     ContestWrite, PayLockDue, PayCount, PayLockWallet, Raise, tables
<1>2. ASSUME NEW s \in Session, Start(s) PROVE FALSE
  BY <1>2 DEF Start, SubmitCheck, ConfirmRead, RejectRead, ContestRead, PayBegin, tables
<1>3. ASSUME NEW s \in Session, Rollback(s) \/ DeadlockAbort(s) PROVE FALSE
  BY <1>3 DEF Rollback, DeadlockAbort, Raise, tables
<1>4. ASSUME NEW d \in Due, Finance(d) PROVE FALSE
  BY <1>4 DEF Finance, AssignDue, MarkDuePaid, ReopenDue, DeleteDue, SetDue
<1>. QED  BY <1>1, <1>2, <1>3, <1>4 DEF Next, vars, tables

\* If finance reopens no due, a wallet is debited only for dues that are unpaid
\* at that very step, although the check was made several statements earlier.
THEOREM DebitsOnlyUnpaidCorrect ==
  ASSUME ~ReopenDues
  PROVE  Spec => DebitsOnlyUnpaid
<1>1. ASSUME DebitsInv, [Next]_vars, NEW p \in Profile, NEW d \in Due,
             debited'[p][d] # debited[p][d]
      PROVE  dueStatus[d] = "due"
  <2>1. PICK s \in Session : PayCommit(s)
    BY <1>1, OnlyPayCommitDebits
  <2>2. d \in call[s].want
    BY <1>1, <2>1 DEF PayCommit, DebitsInv, MoneyInv, TypeOK
  <2>. QED  BY <1>1, <2>1, <2>2, PayCommitFacts DEF Payable
<1>2. DebitsInv /\ [Next]_vars =>
        [\A p \in Profile, d \in Due :
           debited'[p][d] # debited[p][d] => dueStatus[d] = "due"]_vars
  BY <1>1
<1>. QED  BY DebitsCorrect, <1>2, PTL DEF Spec, DebitsOnlyUnpaid

LEMMA AtomicRun ==
  ASSUME DebitsInv, NEW s \in Session, Run(s)
  PROVE  Atomic!Next \/ UNCHANGED Atomic!vars
<1> USE PaymentsAssumption
<1> DEFINE row == transfers[call[s].t]
<1>1. CASE PayCommit(s)
  <2>1. Atomic!Pay(call[s].by, call[s].want)
    BY <1>1, PayCommitFacts DEF Atomic!Pay, PayCommit, Payable
  <2>. QED  BY <1>1, <2>1, PayCommitFacts DEF Atomic!Next
<1>2. CASE ConfirmPost(s)
  <2>1. /\ row.due \in Due \cup {NULL} /\ row.by \in Profile
        /\ row.amount \in Amount
    BY <1>2, RowFacts DEF ConfirmPost, At, DebitsInv, MoneyInv, CallOK
  <2>2. CASE row.due = NULL
    <3>1. balance[row.by] + row.amount <= MaxInteger
      BY <1>2, <2>2 DEF ConfirmPost, At, DebitsInv, MoneyInv, WalletOK
    <3>2. Atomic!TopUp(row.by, row.amount)
      BY <1>2, <2>2, <3>1 DEF ConfirmPost, Atomic!TopUp
    <3>. QED  BY <2>1, <3>2 DEF Atomic!Next, Amount
  <2>3. CASE row.due # NULL /\ Exists(row.due)
    <3>1. Atomic!Desk(row.due, {"due", "paid"}, "paid")
      BY <1>2, <2>3 DEF ConfirmPost, Exists, Atomic!Desk
    <3>. QED  BY <2>1, <2>3, <3>1 DEF Atomic!Next
  <2>4. CASE row.due # NULL /\ ~Exists(row.due)
    BY <1>2, <2>4 DEF ConfirmPost, Atomic!vars
  <2>. QED  BY <2>2, <2>3, <2>4
<1>3. CASE ~PayCommit(s) /\ ~ConfirmPost(s)
  BY <1>3 DEF Run, SubmitInsert, ConfirmTopup, ConfirmDue, RejectWrite, ContestWrite,
     PayLockDue, PayCount, PayLockWallet, Raise, tables, Atomic!vars
<1>. QED  BY <1>1, <1>2, <1>3

\* If finance reopens no due, the whole RPC, statement by statement and lock by
\* lock, is one indivisible payment of unpaid dues out of a wallet that covers
\* them: Payments implements AtomicDues.
THEOREM AtomicDuesCorrect ==
  ASSUME ~ReopenDues
  PROVE  Spec => ImplementsAtomicDues
<1>1. Init => Atomic!Init
  BY DEF Init, Atomic!Init
<1>2. ASSUME DebitsInv, [Next]_vars PROVE [Atomic!Next]_Atomic!vars
  <2>1. CASE \E s \in Session : Run(s)
    BY <1>2, <2>1, AtomicRun
  <2>2. CASE \E s \in Session : Start(s)
    BY <2>2 DEF Start, SubmitCheck, ConfirmRead, RejectRead, ContestRead, PayBegin,
       tables, Atomic!vars
  <2>3. CASE \E s \in Session : Rollback(s) \/ DeadlockAbort(s)
    BY <2>3 DEF Rollback, DeadlockAbort, Raise, tables, Atomic!vars
  <2>4. CASE \E d \in Due : Finance(d)
    <3>1. PICK d \in Due : Finance(d)
      BY <2>4
    <3>2. \/ Atomic!Desk(d, {"unassigned"}, "due")
          \/ Atomic!Desk(d, {"due", "paid"}, "paid")
          \/ Atomic!Desk(d, {"due", "paid"}, "deleted")
      BY <3>1 DEF Finance, AssignDue, MarkDuePaid, ReopenDue, DeleteDue, SetDue,
         Atomic!Desk
    <3>. QED  BY <3>2 DEF Atomic!Next
  <2>5. CASE UNCHANGED vars
    BY <2>5 DEF vars, tables, Atomic!vars
  <2>. QED  BY <1>2, <2>1, <2>2, <2>3, <2>4, <2>5 DEF Next
<1>. QED  BY DebitsCorrect, <1>1, <1>2, PTL DEF Spec, ImplementsAtomicDues, Atomic!Spec

-----------------------------------------------------------------------------
(* Outcomes: notices and settled dues.                                     *)

LEMMA InitNotices == Init => NoticeTellsOutcome
  BY PaymentsAssumption DEF Init, NoticeTellsOutcome, HasStatus

LEMMA ResolveTells ==
  ASSUME TypeOK, NoticeTellsOutcome, NEW t \in Transfer, transfers[t] # NULL,
         \/ Resolve(t, "confirmed", "transfer_confirmed")
         \/ Resolve(t, "rejected", "transfer_rejected")
  PROVE  NoticeTellsOutcome'
<1>1. PICK st \in {"confirmed", "rejected"} :
         /\ transfers' = [transfers EXCEPT ![t].status = st]
         /\ notice'[t] = IF st = "confirmed" THEN "transfer_confirmed" ELSE "transfer_rejected"
         /\ \A u \in Transfer \ {t} : notice'[u] = notice[u]
  BY DEF Resolve, TypeOK, NoticeTellsOutcome
<1>2. transfers'[t].status = st
  BY <1>1 DEF TypeOK, Row
<1>3. \A u \in Transfer \ {t} : transfers'[u] = transfers[u]
  BY <1>1 DEF TypeOK
<1>. QED  BY <1>1, <1>2, <1>3 DEF NoticeTellsOutcome, HasStatus

LEMMA NoticeStep == MoneyInv /\ NoticeTellsOutcome /\ [Next]_vars => NoticeTellsOutcome'
<1> SUFFICES ASSUME MoneyInv, NoticeTellsOutcome, [Next]_vars PROVE NoticeTellsOutcome'
  OBVIOUS
<1> USE PaymentsAssumption
<1>1. ASSUME UNCHANGED <<transfers, notice>> PROVE NoticeTellsOutcome'
  BY <1>1 DEF NoticeTellsOutcome, HasStatus
<1>2. ASSUME NEW s \in Session, Start(s) \/ Rollback(s) \/ DeadlockAbort(s)
      PROVE  NoticeTellsOutcome'
  BY <1>1, <1>2 DEF Start, SubmitCheck, ConfirmRead, RejectRead, ContestRead, PayBegin,
     Rollback, DeadlockAbort, Raise, tables
<1>3. ASSUME NEW s \in Session, Run(s) PROVE NoticeTellsOutcome'
  <2>1. CASE SubmitInsert(s)
    <3>1. PICK t \in Transfer :
             /\ transfers'[t].status = "pending"
             /\ \A u \in Transfer \ {t} : transfers'[u] = transfers[u]
      BY <2>1 DEF SubmitInsert, MoneyInv, TypeOK
    <3>. QED  BY <2>1, <3>1 DEF SubmitInsert, NoticeTellsOutcome, HasStatus
  <2>2. CASE ConfirmPost(s) \/ RejectWrite(s)
    <3>1. call[s].t \in Transfer /\ transfers[call[s].t] # NULL
      BY <2>2 DEF ConfirmPost, RejectWrite, At, MoneyInv, CallOK
    <3>. QED  BY <2>2, <3>1, ResolveTells DEF ConfirmPost, RejectWrite, MoneyInv
  <2>3. CASE ContestWrite(s)
    <3> DEFINE t == call[s].t
    <3>1. /\ t \in Transfer /\ transfers[t] # NULL
          /\ transfers' = [transfers EXCEPT ![t].status = "pending"]
          /\ \A u \in Transfer \ {t} : notice'[u] = notice[u]
      BY <2>3 DEF ContestWrite, At, MoneyInv, CallOK, TypeOK
    <3>2. transfers'[t].status = "pending" /\ \A u \in Transfer \ {t} : transfers'[u] = transfers[u]
      BY <3>1 DEF MoneyInv, TypeOK, Row
    <3>. QED  BY <3>1, <3>2 DEF NoticeTellsOutcome, HasStatus
  <2>4. CASE ~SubmitInsert(s) /\ ~ConfirmPost(s) /\ ~RejectWrite(s) /\ ~ContestWrite(s)
    BY <1>1, <1>3, <2>4 DEF Run, ConfirmTopup, ConfirmDue, PayLockDue, PayCount,
       PayLockWallet, PayCommit, Raise, tables
  <2>. QED  BY <2>1, <2>2, <2>3, <2>4
<1>4. ASSUME NEW d \in Due, Finance(d) PROVE NoticeTellsOutcome'
  BY <1>1, <1>4 DEF Finance, AssignDue, MarkDuePaid, ReopenDue, DeleteDue, SetDue
<1>5. CASE UNCHANGED vars
  BY <1>1, <1>5 DEF vars, tables
<1>. QED  BY <1>2, <1>3, <1>4, <1>5 DEF Next

\* The last thing a resident hears of a resolved transfer is its outcome, for
\* any number of overlapping calls that confirm, reject or contest it.
THEOREM NoticeTellsOutcomeCorrect == Spec => []NoticeTellsOutcome
<1>. QED  BY MoneyCorrect, InitNotices, NoticeStep, PTL DEF Spec

\* A confirmed transfer was confirmed already or is posted by this step.
LEMMA ConfirmedBy ==
  ASSUME MoneyInv, [Next]_vars, NEW t \in Transfer, HasStatus(t, "confirmed")'
  PROVE  \/ HasStatus(t, "confirmed") /\ transfers'[t].due = transfers[t].due
         \/ \E s \in Session : /\ ConfirmPost(s) /\ call[s].t = t
                               /\ transfers'[t].due = transfers[t].due
<1> USE PaymentsAssumption
<1>1. CASE UNCHANGED transfers
  BY <1>1 DEF HasStatus
<1>2. ASSUME NEW s \in Session, NEW u \in Transfer, transfers[u] # NULL,
             NEW st \in {"pending", "confirmed", "rejected"},
             transfers' = [transfers EXCEPT ![u].status = st],
             u = t => st = "confirmed" /\ ConfirmPost(s) /\ call[s].t = t
      PROVE  \/ HasStatus(t, "confirmed") /\ transfers'[t].due = transfers[t].due
             \/ ConfirmPost(s) /\ call[s].t = t /\ transfers'[t].due = transfers[t].due
  BY <1>2, StatusFacts DEF MoneyInv, RowsKept, HasStatus
<1>3. ASSUME NEW s \in Session, ConfirmPost(s) \/ RejectWrite(s) \/ ContestWrite(s)
      PROVE  \/ HasStatus(t, "confirmed") /\ transfers'[t].due = transfers[t].due
             \/ ConfirmPost(s) /\ call[s].t = t /\ transfers'[t].due = transfers[t].due
  <2>1. call[s].t \in Transfer /\ transfers[call[s].t] # NULL
    BY <1>3 DEF ConfirmPost, RejectWrite, ContestWrite, At, MoneyInv, CallOK
  <2>2. PICK st \in {"pending", "confirmed", "rejected"} :
           /\ transfers' = [transfers EXCEPT ![call[s].t].status = st]
           /\ st = "confirmed" => ConfirmPost(s)
    BY <1>3 DEF ConfirmPost, RejectWrite, ContestWrite, Resolve
  <2>3. transfers'[call[s].t].status = st
    BY <2>1, <2>2 DEF MoneyInv, TypeOK, Row
  <2>. QED  BY <1>2, <2>1, <2>2, <2>3 DEF HasStatus
<1>4. ASSUME NEW s \in Session, SubmitInsert(s)
      PROVE  HasStatus(t, "confirmed") /\ transfers'[t].due = transfers[t].due
  <2>1. PICK u \in Transfer :
           /\ transfers'[u].status = "pending"
           /\ \A v \in Transfer \ {u} : transfers'[v] = transfers[v]
    BY <1>4 DEF SubmitInsert, MoneyInv, TypeOK
  <2>. QED  BY <2>1 DEF HasStatus
<1>5. CASE \E s \in Session : Run(s)
  <2>1. PICK s \in Session : Run(s)
    BY <1>5
  <2>2. CASE UNCHANGED transfers
    BY <1>1, <2>2
  <2>3. CASE ~UNCHANGED transfers
    BY <1>3, <1>4, <2>1, <2>3 DEF Run, ConfirmTopup, ConfirmDue, PayLockDue, PayCount,
       PayLockWallet, PayCommit, Raise, tables
  <2>. QED  BY <2>2, <2>3
<1>6. CASE ~\E s \in Session : Run(s)
  BY <1>1, <1>6 DEF Next, Start, SubmitCheck, ConfirmRead, RejectRead, ContestRead,
     PayBegin, Rollback, DeadlockAbort, Raise, Finance, AssignDue, MarkDuePaid, ReopenDue,
     DeleteDue, SetDue, vars, tables
<1>. QED  BY <1>5, <1>6

\* Without reopening, no step takes a due back.
LEMMA StepForward ==
  ASSUME ~ReopenDues, DebitsInv, [Next]_vars
  PROVE  DuesForward
<1>1. TypeOK
  BY DEF DebitsInv, MoneyInv
<1>2. ASSUME UNCHANGED dueStatus PROVE DuesForward
  BY <1>2 DEF DuesForward
<1>3. ASSUME NEW s \in Session, Run(s) PROVE DuesForward
  <2>1. CASE PayCommit(s)
    BY <1>1, <2>1, PayCommitFacts DEF DuesForward, Payable
  <2>2. CASE ConfirmPost(s)
    BY <1>1, <2>2 DEF ConfirmPost, DuesForward, Exists, TypeOK
  <2>3. CASE ~PayCommit(s) /\ ~ConfirmPost(s)
    BY <1>2, <1>3, <2>3 DEF Run, SubmitInsert, ConfirmTopup, ConfirmDue, RejectWrite,
       ContestWrite, PayLockDue, PayCount, PayLockWallet, Raise, tables
  <2>. QED  BY <2>1, <2>2, <2>3
<1>4. ASSUME NEW d \in Due, Finance(d) PROVE DuesForward
  BY <1>1, <1>4 DEF Finance, AssignDue, MarkDuePaid, ReopenDue, DeleteDue, SetDue, DuesForward,
     TypeOK
<1>5. ASSUME NEW s \in Session, Start(s) \/ Rollback(s) \/ DeadlockAbort(s) PROVE DuesForward
  BY <1>2, <1>5 DEF Start, SubmitCheck, ConfirmRead, RejectRead, ContestRead, PayBegin,
     Rollback, DeadlockAbort, Raise, tables
<1>6. CASE UNCHANGED vars
  BY <1>2, <1>6 DEF vars, tables
<1>. QED  BY <1>3, <1>4, <1>5, <1>6 DEF Next

LEMMA SettledStep ==
  ASSUME ~ReopenDues
  PROVE  DebitsInv /\ SettledDueIsPaid /\ [Next]_vars => SettledDueIsPaid'
<1> SUFFICES ASSUME DebitsInv, SettledDueIsPaid, [Next]_vars, NEW d \in Due,
                    \/ \E p \in Profile : debited'[p][d] > 0
                    \/ \E t \in Transfer : HasStatus(t, "confirmed")' /\ transfers'[t].due = d
             PROVE  dueStatus'[d] \in {"paid", "deleted"}
  BY DEF SettledDueIsPaid
<1> USE PaymentsAssumption
<1>1. CASE \E p \in Profile : debited'[p][d] > 0
  BY <1>1, DebitsStep DEF DebitsInv, DuesInv, DebitedStayPaid
<1>2. ASSUME NEW t \in Transfer, HasStatus(t, "confirmed")', transfers'[t].due = d
      PROVE  dueStatus'[d] \in {"paid", "deleted"}
  <2>1. CASE HasStatus(t, "confirmed") /\ transfers[t].due = d
    BY <2>1, StepForward DEF SettledDueIsPaid, DuesForward
  <2>2. ASSUME NEW s \in Session, ConfirmPost(s), call[s].t = t, transfers[t].due = d
        PROVE  dueStatus'[d] \in {"paid", "deleted"}
    <3>1. transfers[t] # NULL /\ dueStatus[d] # "unassigned" /\ TypeOK
      BY <2>2 DEF ConfirmPost, At, DebitsInv, MoneyInv, CallOK, DuesInv, TransfersNameDues
    <3>. QED  BY <2>2, <3>1 DEF ConfirmPost, Exists, TypeOK
  <2>. QED  BY <1>2, <2>1, <2>2, ConfirmedBy DEF DebitsInv
<1>. QED  BY <1>1, <1>2

\* If finance reopens no due, a due for which money was taken on either way is
\* paid, for any number of wallets, transfers and overlapping calls.
THEOREM SettledDueIsPaidCorrect ==
  ASSUME ~ReopenDues
  PROVE  Spec => []SettledDueIsPaid
<1>1. Init => SettledDueIsPaid
  BY PaymentsAssumption DEF Init, SettledDueIsPaid, HasStatus
<1>2. DebitsInv /\ SettledDueIsPaid /\ [Next]_vars => SettledDueIsPaid'
  BY SettledStep
<1>. QED  BY <1>1, <1>2, DebitsCorrect, PTL DEF Spec

-----------------------------------------------------------------------------
(* Deadlocks.                                                              *)

LocksInv == DebitsInv /\ \A s \in Session : LockOK(s)

\* A step by which only s moves, and only s takes locks.
LEMMA LocksFrame ==
  ASSUME \A u \in Session : LockOK(u), NEW s \in Session, LockOK(s)',
         \A u \in Session \ {s} : call'[u] = call[u],
         \A u \in Session \ {s} : \A d \in Due : dueLock'[d] = u => dueLock[d] = u
  PROVE  \A u \in Session : LockOK(u)'
  BY DEF LockOK, At

LEMMA LocksStep ==
  ASSUME ~ReopenDues
  PROVE  LocksInv /\ [Next]_vars => LocksInv'
<1> SUFFICES ASSUME LocksInv, [Next]_vars PROVE LocksInv'
  OBVIOUS
<1> USE PaymentsAssumption
<1>1. DebitsInv' /\ TypeOK
  BY DebitsStep DEF LocksInv, DebitsInv, MoneyInv
<1>2. \A u \in Session : LockOK(u)
  BY DEF LocksInv
<1>3. ASSUME NEW s \in Session, End(s) PROVE \A u \in Session : LockOK(u)'
  <2>1. LockOK(s)'
    BY <1>1, <1>3, EndFacts DEF LockOK, At
  <2>. QED  BY <1>1, <1>2, <1>3, <2>1, EndFacts, LocksFrame
<1>4. ASSUME NEW s \in Session, Start(s) PROVE \A u \in Session : LockOK(u)'
  <2>1. PICK c \in Call : /\ Begin(s, c) /\ dueLock' = dueLock
                          /\ c.pc = "lock" => c.todo \subseteq c.want
    <3>1. ASSUME NEW p \in Profile, NEW d \in Due \cup {NULL}, SubmitCheck(s, p, d)
          PROVE  \E c \in Call : Begin(s, c) /\ dueLock' = dueLock /\ c.pc # "lock"
      BY <3>1, LocalType DEF SubmitCheck, Local, locks
    <3>2. ASSUME NEW t \in Transfer, ConfirmRead(s, t) \/ RejectRead(s, t)
          PROVE  \E c \in Call : Begin(s, c) /\ dueLock' = dueLock /\ c.pc # "lock"
      BY <3>2, LocalType DEF ConfirmRead, RejectRead, Local, locks
    <3>3. ASSUME NEW t \in Transfer, ContestRead(s, t)
          PROVE  \E c \in Call : Begin(s, c) /\ dueLock' = dueLock /\ c.pc # "lock"
      <4> DEFINE c == Local("contest", transfers[t].by, t, NULL, {}, {})
      <4>1. transfers[t].by \in Profile
        BY <1>1, <3>3, RowFacts DEF ContestRead, HasStatus
      <4>2. c \in Call /\ c.pc = "contest"
        BY <4>1, LocalType DEF Local
      <4>3. Begin(s, c) /\ dueLock' = dueLock
        BY <3>3 DEF ContestRead, locks
      <4>. QED  BY <4>2, <4>3
    <3>4. ASSUME NEW p \in Profile, NEW D \in SUBSET Due, PayBegin(s, p, D)
          PROVE  \E c \in Call : Begin(s, c) /\ dueLock' = dueLock /\ c.todo \subseteq c.want
      BY <3>4, LocalType DEF PayBegin, Local, locks
    <3>. QED  BY <1>4, <3>1, <3>2, <3>3, <3>4 DEF Start
  <2>2. /\ call'[s] = c /\ call[s].pc = "idle"
        /\ \A u \in Session \ {s} : call'[u] = call[u]
    BY <1>1, <2>1, BeginFacts
  <2>3. \A d \in Due : dueLock[d] # s
    BY <2>2 DEF LocksInv, DebitsInv, DuesInv, DueOK
  <2>4. LockOK(s)'
    BY <2>1, <2>2, <2>3 DEF LockOK, At
  <2>. QED  BY <1>2, <2>1, <2>2, <2>4, LocksFrame
<1>5. ASSUME NEW s \in Session, NEW d \in Due, PayLockDue(s, d)
      PROVE  \A u \in Session : LockOK(u)'
  <2>1. /\ d \in call[s].todo
        /\ call'[s].want = call[s].want /\ call'[s].todo = call[s].todo \ {d}
        /\ \A u \in Session \ {s} : call'[u] = call[u]
    BY <1>1, <1>5, TodoFacts DEF PayLockDue
  <2>2. /\ \A e \in Due \ {d} : dueLock'[e] = dueLock[e]
        /\ dueLock'[d] \in {s, NULL}
    BY <1>1, <1>5 DEF PayLockDue, TypeOK
  <2>3. LockOK(s)'
    BY <1>2, <1>5, <2>1, <2>2 DEF LockOK, At, PayLockDue
  <2>4. \A u \in Session \ {s} : \A e \in Due : dueLock'[e] = u => dueLock[e] = u
    BY <2>2
  <2>. QED  BY <1>2, <2>1, <2>3, <2>4, LocksFrame
<1>6. ASSUME NEW s \in Session, ConfirmTopup(s) \/ ConfirmDue(s) \/ PayCount(s) \/ PayLockWallet(s)
      PROVE  \A u \in Session : LockOK(u)'
  <2>1. CASE End(s)
    BY <1>3, <2>1
  <2>2. CASE ~End(s)
    <3>1. PICK pc \in {"post", "debit", "commit"} : Continue(s, pc)
      BY <1>6, <2>2 DEF ConfirmTopup, ConfirmDue, PayCount, PayLockWallet, Raise
    <3>2. \A u \in Session \ {s} : \A d \in Due : dueLock'[d] = u => dueLock[d] = u
      BY <1>1, <1>6, <2>2 DEF ConfirmTopup, ConfirmDue, PayCount, PayLockWallet, Raise, locks,
         TypeOK
    <3>3. LockOK(s)'
      BY <1>1, <3>1, ContinueFacts DEF LockOK, At
    <3>. QED  BY <1>1, <1>2, <3>1, <3>2, <3>3, ContinueFacts, LocksFrame
  <2>. QED  BY <2>1, <2>2
<1>7. ASSUME NEW s \in Session, Run(s) PROVE \A u \in Session : LockOK(u)'
  BY <1>3, <1>5, <1>6, <1>7 DEF Run, SubmitInsert, ConfirmPost, RejectWrite, ContestWrite,
     PayCommit
<1>8. ASSUME UNCHANGED <<call, dueLock>> PROVE \A u \in Session : LockOK(u)'
  BY <1>2, <1>8 DEF LockOK, At
<1>9. \A u \in Session : LockOK(u)'
  BY <1>3, <1>4, <1>7, <1>8 DEF Next, Rollback, DeadlockAbort, Raise, Finance, AssignDue,
     MarkDuePaid, ReopenDue, DeleteDue, SetDue, vars, locks
<1>. QED  BY <1>1, <1>9 DEF LocksInv

\* Who is waited for holds the row that is waited for.
LEMMA WaitedFor ==
  ASSUME MoneyInv, NEW s \in Session, NEW w \in WaitsFor(s)
  PROVE  /\ w # s /\ w # NULL
         /\ call[s].pc \in {"confirm", "debit", "lock", "commit"}
         /\ \/ \E p \in Profile : walletLock[p] = w /\ call[s].pc \in {"confirm", "debit"}
            \/ \E d \in Due : dueLock[d] = w /\ call[s].pc = "confirm"
            \/ \E d \in call[s].todo : dueLock[d] = w /\ call[s].pc = "lock"
            \/ \E d \in call[s].want : dueLock[d] = w /\ call[s].pc = "commit"
<1> DEFINE c == call[s]
           row == transfers[c.t]
<1>1. /\ c.pc = "confirm" => row.by \in Profile /\ row.due \in Due \cup {NULL}
      /\ c.pc = "debit" => c.by \in Profile
  BY RowFacts DEF MoneyInv, CallOK
<1>2. CASE c.pc = "confirm" /\ row.due = NULL
  BY <1>1, <1>2 DEF WaitsFor
<1>3. CASE c.pc = "confirm" /\ row.due # NULL
  BY <1>1, <1>3 DEF WaitsFor
<1>4. CASE c.pc = "lock"
  BY <1>4 DEF WaitsFor
<1>5. CASE c.pc = "debit"
  BY <1>1, <1>5 DEF WaitsFor
<1>6. CASE c.pc = "commit"
  BY <1>6 DEF WaitsFor
<1>7. CASE c.pc \notin {"confirm", "lock", "debit", "commit"}
  BY <1>7 DEF WaitsFor
<1>. QED  BY <1>2, <1>3, <1>4, <1>5, <1>6, <1>7

LEMMA BatchesDeadlock ==
  ASSUME LocksInv, NEW C \in SUBSET Session, Deadlocked(C), NEW s \in C
  PROVE  At(s, "lock") /\ \E d, e \in call[s].want : d # e
<1>1. /\ MoneyInv /\ \A u \in C : u \in Session /\ DueOK(u) /\ LockOK(u) /\ WalletOK(u)
      /\ \A u \in C : call[u] \in Call
  BY DEF LocksInv, DebitsInv, DuesInv, MoneyInv, TypeOK
<1>2. \A u \in C : \E w \in C : w \in WaitsFor(u)
  BY DEF Deadlocked
\* Nobody among them is past the locks.
<1>3. ASSUME NEW u \in C PROVE call[u].pc \in {"confirm", "debit", "lock"}
  <2>1. PICK w \in C : w \in WaitsFor(u)
    BY <1>2
  <2>. QED  BY <1>1, <2>1, WaitedFor DEF DueOK
\* So nobody waits for a wallet, and who is waited for is locking dues.
<1>4. ASSUME NEW u \in C, NEW w \in C, w \in WaitsFor(u)
      PROVE  /\ call[w].pc = "lock"
             /\ \E d \in Due : /\ dueLock[d] = w
                               /\ call[u].pc = "lock" => d \in call[u].todo
  <2>1. \A p \in Profile : walletLock[p] # w
    BY <1>1, <1>3 DEF WalletOK
  <2>2. PICK d \in Due : dueLock[d] = w /\ (call[u].pc = "lock" => d \in call[u].todo)
    BY <1>1, <1>3, <1>4, <2>1, WaitedFor DEF Call
  <2>3. call[w].pc # "debit"
    <3>1. PICK x \in C : x \in WaitsFor(w)
      BY <1>2
    <3>2. \A p \in Profile : walletLock[p] # x
      BY <1>1, <1>3 DEF WalletOK
    <3>. QED  BY <1>1, <3>1, <3>2, WaitedFor
  <2>. QED  BY <1>1, <1>3, <2>2, <2>3 DEF DueOK
<1>5. call[s].pc = "lock" /\ \E d \in Due : dueLock[d] = s
  <2>1. PICK u \in C : s \in WaitsFor(u)
    BY DEF Deadlocked
  <2>. QED  BY <1>4, <2>1
<1>6. \E e \in Due : e \in call[s].todo
  <2>1. PICK w \in C : w \in WaitsFor(s)
    BY <1>2
  <2>. QED  BY <1>4, <1>5, <2>1
<1>. QED  BY <1>1, <1>5, <1>6 DEF LockOK, At

\* If finance reopens no due, every deadlock, of any number of sessions, is one
\* of payments that each asked for several dues.
THEOREM OnlyBatchesDeadlockCorrect ==
  ASSUME ~ReopenDues
  PROVE  Spec => []OnlyBatchesDeadlock
<1>1. Init => LocksInv
  <2>1. Init => \A s \in Session : LockOK(s)
    BY IdleType DEF Init, LockOK, At
  <2>. QED  BY <2>1, InitDebits DEF LocksInv
<1>2. LocksInv /\ [Next]_vars => LocksInv'
  BY LocksStep
<1>3. LocksInv => OnlyBatchesDeadlock
  BY BatchesDeadlock DEF OnlyBatchesDeadlock
<1>. QED  BY <1>1, <1>2, <1>3, PTL DEF Spec

-----------------------------------------------------------------------------
(* Sums over finite sets, as SumFunction of the community modules has them. *)

\* The element a fold takes out of a set first.
Chosen(s) == CHOOSE x \in s : TRUE

\* h holds the sums of f over the sets in F.
SumsOver(h, f, F) ==
  \A s \in F : h[s] = IF s = {} THEN 0 ELSE f[Chosen(s)] + h[s \ {Chosen(s)}]

Sums(f, S) ==
  CHOOSE h : h = [s \in SUBSET S |-> IF s = {} THEN 0
                                     ELSE f[Chosen(s)] + h[s \ {Chosen(s)}]]

\* SumFunctionOnSet is a recursive function over the subsets of its domain.
LEMMA SumUnfold ==
  ASSUME NEW f, NEW S
  PROVE  SumFunctionOnSet(f, S) = Sums(f, S)[S]
  BY DEF SumFunctionOnSet, FoldFunctionOnSet, MapThenFoldSet, Sums, Chosen

\* Induction over the subsets of a finite set, as the existence of a smallest
\* counterexample.
LEMMA SmallestSubset ==
  ASSUME NEW S, IsFiniteSet(S), NEW T \in SUBSET SUBSET S, T # {}
  PROVE  \E x \in T : \A y \in T : ~(y \subseteq x /\ y # x)
<1>1. IsWellFoundedOn(StrictSubsetOrdering(S), SUBSET S)
  BY FS_FiniteSubsetsOfFinite, FS_StrictSubsetOrderingWellFounded
<1>2. \E x \in T : \A y \in T : ~(<<y, x>> \in StrictSubsetOrdering(S))
  BY <1>1, WFMin
<1>. QED  BY <1>2 DEF StrictSubsetOrdering

LEMMA ChosenIn == \A s : s # {} => Chosen(s) \in s
  BY DEF Chosen

\* That function exists: it is built up from the empty set, subset by subset.
LEMMA SumsExist ==
  ASSUME NEW S, IsFiniteSet(S), NEW f, \A x \in S : f[x] \in Int
  PROVE  \E h \in [SUBSET S -> Int] : SumsOver(h, f, SUBSET S)
<1> DEFINE Done(C) == (SUBSET S) \ C
           Left == {C \in SUBSET SUBSET S :
                      /\ \A s, t \in SUBSET S : s \subseteq t /\ s \in C => t \in C
                      /\ \E h \in [Done(C) -> Int] : SumsOver(h, f, Done(C))}
<1>1. SUBSET S \in Left
  <2>1. Done(SUBSET S) = {}
    OBVIOUS
  <2>2. [x \in {} |-> 0] \in [{} -> Int]
    OBVIOUS
  <2>3. SumsOver([x \in {} |-> 0], f, {})
    BY DEF SumsOver
  <2>. QED  BY <2>1, <2>2, <2>3
<1>2. PICK C \in Left : \A D \in Left : ~(D \subseteq C /\ D # C)
  <2>1. IsFiniteSet(SUBSET S)
    BY FS_SUBSET
  <2>2. Left \in SUBSET SUBSET SUBSET S
    OBVIOUS
  <2>3. Left # {}
    BY <1>1
  <2> HIDE DEF Left
  <2>. QED  BY <2>1, <2>2, <2>3, SmallestSubset
<1>3. C = {}
  <2>1. SUFFICES ASSUME C # {} PROVE FALSE
    OBVIOUS
  <2>2. PICK t \in C : \A s \in C : ~(s \subseteq t /\ s # t)
    BY <2>1, SmallestSubset
  <2>3. PICK h \in [Done(C) -> Int] : SumsOver(h, f, Done(C))
    OBVIOUS
  <2> DEFINE D == C \ {t}
             value == IF t = {} THEN 0 ELSE f[Chosen(t)] + h[t \ {Chosen(t)}]
             g == [s \in Done(D) |-> IF s = t THEN value ELSE h[s]]
  <2>4. t \in SUBSET S /\ Done(D) = Done(C) \cup {t}
    OBVIOUS
  <2>5. t # {} => Chosen(t) \in S /\ t \ {Chosen(t)} \in Done(C)
    BY <2>2, <2>4, ChosenIn
  <2>6. value \in Int
    BY <2>5
  <2>7. g \in [Done(D) -> Int]
    <3> HIDE DEF value, Done
    <3>. QED  BY <2>4, <2>6
  <2>8. SumsOver(g, f, Done(D))
    <3>1. SUFFICES ASSUME NEW s \in Done(D)
                   PROVE  g[s] = IF s = {} THEN 0 ELSE f[Chosen(s)] + g[s \ {Chosen(s)}]
      BY DEF SumsOver
    <3>2. CASE s = t
      <4>1. t # {} => g[t \ {Chosen(t)}] = h[t \ {Chosen(t)}]
        <5> HIDE DEF value
        <5>. QED  BY <2>5, <2>4
      <4>. QED  BY <3>2, <4>1
    <3>3. CASE s # t
      <4>1. s \in Done(C)
        BY <3>3
      <4>2. s # {} => s \ {Chosen(s)} \in Done(C)
        BY <4>1, ChosenIn
      <4>3. s # {} => g[s \ {Chosen(s)}] = h[s \ {Chosen(s)}]
        <5> HIDE DEF value
        <5>. QED  BY <4>2, <2>4
      <4>4. g[s] = h[s]
        BY <3>3, <4>1
      <4>5. h[s] = IF s = {} THEN 0 ELSE f[Chosen(s)] + h[s \ {Chosen(s)}]
        BY <4>1, <2>3 DEF SumsOver
      <4>. QED  BY <4>3, <4>4, <4>5
    <3>. QED  BY <3>2, <3>3
  <2>9. \A s, u \in SUBSET S : s \subseteq u /\ s \in D => u \in D
    BY <2>2
  <2>10. D \in Left
    <3> HIDE DEF g, value
    <3>. QED  BY <2>7, <2>8, <2>9
  <2>. QED  BY <2>10, <1>2
<1>. QED  BY <1>3

\* So the recursive equation holds, and determines it.
LEMMA SumsFacts ==
  ASSUME NEW S, IsFiniteSet(S), NEW f, \A x \in S : f[x] \in Int
  PROVE  /\ Sums(f, S) \in [SUBSET S -> Int]
         /\ SumsOver(Sums(f, S), f, SUBSET S)
<1> DEFINE Fixed(h) == h = [s \in SUBSET S |-> IF s = {} THEN 0
                                     ELSE f[Chosen(s)] + h[s \ {Chosen(s)}]]
           k == Sums(f, S)
<1>1. PICK h \in [SUBSET S -> Int] : SumsOver(h, f, SUBSET S)
  BY SumsExist
<1>2. Fixed(h)
  BY <1>1 DEF SumsOver
<1>3. Fixed(k)
  BY <1>2 DEF Sums
<1> HIDE DEF k
<1>4. SumsOver(k, f, SUBSET S)
  BY <1>3 DEF SumsOver
<1>5. \A s \in SUBSET S : k[s] = h[s]
  <2> DEFINE T == {s \in SUBSET S : k[s] # h[s]}
  <2>1. SUFFICES ASSUME T # {} PROVE FALSE
    OBVIOUS
  <2>2. T \in SUBSET SUBSET S
    OBVIOUS
  <2>3. PICK s \in T : \A u \in T : ~(u \subseteq s /\ u # s)
    <3> HIDE DEF T
    <3>. QED  BY <2>1, <2>2, SmallestSubset
  <2>4. s # {} => Chosen(s) \in s /\ s \ {Chosen(s)} \in SUBSET S /\ s \ {Chosen(s)} # s
    BY ChosenIn
  <2>5. s # {} => k[s \ {Chosen(s)}] = h[s \ {Chosen(s)}]
    BY <2>3, <2>4
  <2>. QED  BY <2>5, <1>1, <1>4 DEF SumsOver
<1>6. k \in [SUBSET S -> Int]
  BY <1>3, <1>5
<1>. QED  BY <1>4, <1>6 DEF k

\* It does not matter which element is taken out first.
LEMMA SumsAny ==
  ASSUME NEW S, IsFiniteSet(S), NEW f, \A x \in S : f[x] \in Int,
         NEW s \in SUBSET S, NEW x \in s
  PROVE  Sums(f, S)[s] = f[x] + Sums(f, S)[s \ {x}]
<1> DEFINE h == Sums(f, S)
           T == {u \in SUBSET S : \E y \in u : h[u] # f[y] + h[u \ {y}]}
<1>0. /\ h \in [SUBSET S -> Int]
      /\ \A u \in SUBSET S : u # {} => h[u] = f[Chosen(u)] + h[u \ {Chosen(u)}]
  BY SumsFacts DEF SumsOver
<1> HIDE DEF h
<1>1. SUFFICES ASSUME T # {} PROVE FALSE
  BY DEF h
<1>2. PICK u \in T : \A v \in T : ~(v \subseteq u /\ v # u)
  <2>1. T \in SUBSET SUBSET S
    OBVIOUS
  <2> HIDE DEF T
  <2>. QED  BY <1>1, <2>1, SmallestSubset
<1>3. PICK y \in u : h[u] # f[y] + h[u \ {y}]
  OBVIOUS
<1>4. \A z \in u : \A w \in u \ {z} : h[u \ {z}] = f[w] + h[(u \ {z}) \ {w}]
  <2>1. TAKE z \in u
  <2>2. TAKE w \in u \ {z}
  <2>3. u \ {z} \in SUBSET S /\ u \ {z} \subseteq u /\ u \ {z} # u
    OBVIOUS
  <2>4. u \ {z} \notin T
    BY <2>3, <1>2
  <2>. QED  BY <2>3, <2>4
<1>5. PICK c \in u : h[u] = f[c] + h[u \ {c}]
  BY <1>0, <1>3, ChosenIn
<1>6. c # y
  BY <1>3, <1>5
<1>7. h[u \ {c}] = f[y] + h[(u \ {c}) \ {y}]
  BY <1>4, <1>6
<1>8. h[u \ {y}] = f[c] + h[(u \ {y}) \ {c}]
  BY <1>4, <1>6
<1>9. (u \ {y}) \ {c} = (u \ {c}) \ {y}
  OBVIOUS
<1>10. PICK rest \in Int : rest = h[(u \ {c}) \ {y}]
  BY <1>0
<1>11. h[u \ {c}] = f[y] + rest /\ h[u \ {y}] = f[c] + rest
  BY <1>7, <1>8, <1>9, <1>10
<1>12. h[u] = f[c] + (f[y] + rest) /\ h[u] # f[y] + (f[c] + rest)
  BY <1>3, <1>5, <1>11
<1>13. f[c] \in Int /\ f[y] \in Int
  OBVIOUS
<1> HIDE DEF T
<1>. QED  BY <1>10, <1>12, <1>13

LEMMA SumIs ==
  ASSUME NEW S, NEW f \in [S -> Int]
  PROVE  SumFunction(f) = Sums(f, S)[S]
<1>1. DOMAIN f = S
  OBVIOUS
<1>. QED  BY <1>1, SumUnfold DEF SumFunction

\* What Payments needs of sums: they are numbers, sums of nothing are nothing,
\* and one term changes the sum by as much as it changes itself.
LEMMA SumType ==
  ASSUME NEW S, IsFiniteSet(S), NEW f \in [S -> Int]
  PROVE  SumFunction(f) \in Int
<1>1. Sums(f, S) \in [SUBSET S -> Int]
  BY SumsFacts
<1>. QED  BY <1>1, SumIs

LEMMA SumZero ==
  ASSUME NEW S, IsFiniteSet(S), NEW f \in [S -> {0}]
  PROVE  SumFunction(f) = 0
<1> DEFINE h == Sums(f, S)
           T == {u \in SUBSET S : h[u] # 0}
<1>1. f \in [S -> Int]
  OBVIOUS
<1>2. SumsOver(h, f, SUBSET S)
  BY <1>1, SumsFacts
<1>3. SumFunction(f) = h[S]
  BY <1>1, SumIs
<1> HIDE DEF h
<1>4. SUFFICES ASSUME T # {} PROVE FALSE
  BY <1>3
<1>5. PICK u \in T : \A v \in T : ~(v \subseteq u /\ v # u)
  <2>1. T \in SUBSET SUBSET S
    OBVIOUS
  <2> HIDE DEF T
  <2>. QED  BY <1>4, <2>1, SmallestSubset
<1>6. u # {} => /\ Chosen(u) \in u /\ u \ {Chosen(u)} \in SUBSET S
                /\ u \ {Chosen(u)} \subseteq u /\ u \ {Chosen(u)} # u
  BY ChosenIn
<1>7. u # {} => h[u \ {Chosen(u)}] = 0
  BY <1>5, <1>6
<1>. QED  BY <1>6, <1>7, <1>2 DEF SumsOver

LEMMA SumChange ==
  ASSUME NEW S, IsFiniteSet(S), NEW f \in [S -> Int], NEW g \in [S -> Int], NEW d \in S,
         \A x \in S \ {d} : g[x] = f[x]
  PROVE  SumFunction(g) = SumFunction(f) - f[d] + g[d]
<1> DEFINE hf == Sums(f, S)
           hg == Sums(g, S)
           T == {u \in SUBSET (S \ {d}) : hf[u] # hg[u]}
<1>1. /\ SumsOver(hf, f, SUBSET S) /\ SumsOver(hg, g, SUBSET S)
      /\ hf \in [SUBSET S -> Int] /\ hg \in [SUBSET S -> Int]
  BY SumsFacts
<1>2. hf[S] = f[d] + hf[S \ {d}] /\ hg[S] = g[d] + hg[S \ {d}]
  BY SumsAny
<1>3. SumFunction(f) = hf[S] /\ SumFunction(g) = hg[S]
  BY SumIs
<1> HIDE DEF hf, hg
<1>4. T = {}
  <2>1. SUFFICES ASSUME T # {} PROVE FALSE
    OBVIOUS
  <2>2. T \in SUBSET SUBSET S
    OBVIOUS
  <2>3. PICK u \in T : \A v \in T : ~(v \subseteq u /\ v # u)
    <3> HIDE DEF T
    <3>. QED  BY <2>1, <2>2, SmallestSubset
  <2>4. u # {} => /\ Chosen(u) \in u /\ u \ {Chosen(u)} \in SUBSET (S \ {d})
                  /\ u \ {Chosen(u)} \subseteq u /\ u \ {Chosen(u)} # u
    BY ChosenIn
  <2>5. u # {} => hf[u \ {Chosen(u)}] = hg[u \ {Chosen(u)}]
    BY <2>3, <2>4
  <2>. QED  BY <2>4, <2>5, <1>1 DEF SumsOver
<1>5. hf[S \ {d}] = hg[S \ {d}]
  BY <1>4
<1>6. hf[S \ {d}] \in Int
  BY <1>1
<1>. QED  BY <1>2, <1>3, <1>5, <1>6

-----------------------------------------------------------------------------
(* Wallets against their ledger, dues reopened or not.                     *)

\* Raising some of the debits of a wallet by the amounts of their dues raises
\* their sum by the total of those dues.
Raised(f, D) == [d \in Due |-> IF d \in D THEN f[d] + DueAmount[d] ELSE f[d]]

LEMMA SumRaised ==
  ASSUME NEW f \in [Due -> Int], NEW D \in SUBSET Due
  PROVE  SumFunction(Raised(f, D)) = SumFunction(f) + DueTotal[D]
<1> DEFINE T == {E \in SUBSET Due : SumFunction(Raised(f, E)) # SumFunction(f) + DueTotal[E]}
<1>1. SUFFICES ASSUME T # {} PROVE FALSE
  OBVIOUS
<1>2. PICK E \in T : \A u \in T : ~(u \subseteq E /\ u # E)
  <2>1. T \in SUBSET SUBSET Due
    OBVIOUS
  <2> HIDE DEF T
  <2>. QED  BY <1>1, <2>1, SmallestSubset, TotalAssumption
<1>3. DueAmount \in [Due -> Int] /\ DueTotal \in [SUBSET Due -> Int]
  BY PaymentsAssumption DEF Amount
<1>4. SumFunction(f) \in Int
  BY SumType, TotalAssumption
<1>5. CASE E = {}
  <2>1. Raised(f, E) = f
    BY <1>5 DEF Raised
  <2>. QED  BY <1>4, <1>5, <2>1, TotalAssumption
<1>6. CASE E # {}
  <2>1. PICK d \in E : TRUE
    BY <1>6
  <2> DEFINE F == E \ {d}
  <2>2. /\ F \in SUBSET Due /\ d \in Due \ F /\ F \cup {d} = E
        /\ F \subseteq E /\ F # E
    BY <2>1
  <2>3. SumFunction(Raised(f, F)) = SumFunction(f) + DueTotal[F]
    BY <1>2, <2>2
  <2> HIDE DEF F
  <2>4. DueTotal[E] = DueTotal[F] + DueAmount[d]
    BY <2>2, TotalAssumption
  <2>5. Raised(f, E) \in [Due -> Int] /\ Raised(f, F) \in [Due -> Int]
    BY <1>3 DEF Raised
  <2>6. \A x \in Due \ {d} : Raised(f, E)[x] = Raised(f, F)[x]
    BY <2>2 DEF Raised
  <2>7. Raised(f, E)[d] = f[d] + DueAmount[d] /\ Raised(f, F)[d] = f[d]
    BY <2>1, <2>2 DEF Raised
  <2>8. SumFunction(Raised(f, E)) =
          SumFunction(Raised(f, F)) - Raised(f, F)[d] + Raised(f, E)[d]
    BY <2>2, <2>5, <2>6, SumChange, TotalAssumption
  <2>9. f[d] \in Int /\ DueAmount[d] \in Int /\ DueTotal[F] \in Int
    BY <1>3, <2>2
  <2>10. SumFunction(Raised(f, E)) = SumFunction(f) + DueTotal[E]
    BY <1>4, <2>3, <2>4, <2>7, <2>8, <2>9
  <2>. QED  BY <2>10
<1>. QED  BY <1>5, <1>6

LEMMA LedgerTypes ==
  ASSUME TypeOK, NEW p \in Profile
  PROVE  /\ TransferRows(p) \in [Transfer -> Int] /\ SumFunction(TransferRows(p)) \in Int
         /\ PaidOutside(p) \in [Transfer -> Int] /\ SumFunction(PaidOutside(p)) \in Int
         /\ Debits(p) \in [Due -> Int] /\ SumFunction(Debits(p)) \in Int
         /\ balance[p] \in Int
<1>1. ASSUME NEW t \in Transfer, transfers[t] # NULL PROVE posted[t] * transfers[t].amount \in Int
  BY <1>1, RowFacts DEF TypeOK, Amount
<1>2. TransferRows(p) \in [Transfer -> Int]
  BY <1>1 DEF TransferRows
<1>3. PaidOutside(p) \in [Transfer -> Int]
  BY <1>1 DEF PaidOutside
<1>4. ASSUME NEW d \in Due PROVE debited[p][d] * DueAmount[d] \in Int
  BY PaymentsAssumption DEF TypeOK, Amount
<1>5. Debits(p) \in [Due -> Int]
  BY <1>4 DEF Debits
<1>. QED  BY <1>2, <1>3, <1>5, SumType, TotalAssumption DEF TypeOK, Amount

\* A new row adds nothing to what was posted, and a status is no part of it.
LEMMA RowsOfLedgerKept ==
  ASSUME TypeOK, TypeOK', PostedRowsExist, RowsKept, posted' = posted, NEW p \in Profile
  PROVE  TransferRows(p)' = TransferRows(p) /\ PaidOutside(p)' = PaidOutside(p)
<1>1. ASSUME NEW t \in Transfer
      PROVE  TransferRows(p)'[t] = TransferRows(p)[t] /\ PaidOutside(p)'[t] = PaidOutside(p)[t]
  <2>1. CASE transfers[t] # NULL
    BY <2>1 DEF TransferRows, PaidOutside, RowsKept
  <2>2. CASE transfers[t] = NULL
    <3>1. posted'[t] = 0
      BY <2>2 DEF PostedRowsExist
    <3>2. transfers'[t] # NULL => transfers'[t].amount \in Int
      BY DEF TypeOK, Row, Amount
    <3>. QED  BY <2>2, <3>1, <3>2 DEF TransferRows, PaidOutside
  <2>. QED  BY <2>1, <2>2
<1>. QED  BY <1>1 DEF TransferRows, PaidOutside

LEMMA LedgerFrame ==
  ASSUME LedgerInv, MoneyInv', RowsKept, UNCHANGED <<balance, posted, debited>>
  PROVE  LedgerInv'
<1>1. PostedRowsExist'
  BY DEF LedgerInv, PostedRowsExist, RowsKept
<1>2. ASSUME NEW p \in Profile
      PROVE  /\ TransferRows(p)' = TransferRows(p) /\ PaidOutside(p)' = PaidOutside(p)
             /\ Debits(p)' = Debits(p)
  BY RowsOfLedgerKept DEF LedgerInv, MoneyInv, Debits
<1>. QED  BY <1>1, <1>2 DEF LedgerInv, BalanceMatchesLedger

LEMMA ConfirmPostLedger ==
  ASSUME LedgerInv, MoneyInv', NEW s \in Session, ConfirmPost(s)
  PROVE  LedgerInv'
<1> DEFINE t == call[s].t
           row == transfers[t]
<1>1. /\ t \in Transfer /\ row # NULL /\ row.by \in Profile /\ row.amount \in Int
  BY RowFacts DEF ConfirmPost, At, LedgerInv, MoneyInv, CallOK, Amount
<1>2. RowsKept
  BY <1>1, StatusFacts DEF ConfirmPost, Resolve, LedgerInv, MoneyInv
<1>3. /\ posted' = [posted EXCEPT ![t] = @ + 1] /\ posted[t] \in Int
      /\ debited' = debited
  BY <1>1 DEF ConfirmPost, LedgerInv, MoneyInv, TypeOK
<1>4. PostedRowsExist'
  BY <1>1, <1>2, <1>3 DEF LedgerInv, PostedRowsExist, RowsKept, MoneyInv, TypeOK
<1>5. ASSUME NEW p \in Profile, NEW u \in Transfer \ {t}
      PROVE  TransferRows(p)'[u] = TransferRows(p)[u] /\ PaidOutside(p)'[u] = PaidOutside(p)[u]
  <2>1. posted'[u] = posted[u]
    BY <1>3 DEF LedgerInv, MoneyInv, TypeOK
  <2>2. transfers'[u] = transfers[u]
    BY <1>1 DEF ConfirmPost, Resolve, LedgerInv, MoneyInv, TypeOK
  <2>. QED  BY <2>1, <2>2 DEF TransferRows, PaidOutside
\* A top-up raises the row and the wallet; a due lowers the row by what it
\* raises what was paid outside.
<1>6. ASSUME NEW p \in Profile
      PROVE  /\ balance'[p] = balance[p] + (TransferRows(p)'[t] - TransferRows(p)[t])
                              + (PaidOutside(p)'[t] - PaidOutside(p)[t])
  <2>1. posted'[t] = posted[t] + 1
    BY <1>1, <1>3 DEF LedgerInv, MoneyInv, TypeOK
  <2>2. transfers'[t] # NULL /\ transfers'[t].by = row.by /\ transfers'[t].due = row.due
        /\ transfers'[t].amount = row.amount
    BY <1>1, <1>2 DEF RowsKept
  <2>3. /\ balance[p] \in Int
        /\ posted[t] * row.amount \in Int
        /\ posted'[t] * row.amount = posted[t] * row.amount + row.amount
    <3>1. (posted[t] + 1) * row.amount = posted[t] * row.amount + row.amount
      BY <1>1, <1>3
    <3>. QED  BY <1>1, <1>3, <2>1, <3>1, LedgerTypes DEF LedgerInv, MoneyInv
  <2>4. CASE row.due = NULL /\ row.by = p
    <3>1. balance'[p] = balance[p] + row.amount
      BY <1>1, <2>4 DEF ConfirmPost, LedgerInv, MoneyInv, TypeOK
    <3>2. TransferRows(p)[t] = posted[t] * row.amount /\ PaidOutside(p)[t] = 0
      BY <1>1, <2>4 DEF TransferRows, PaidOutside
    <3>3. TransferRows(p)'[t] = posted'[t] * row.amount /\ PaidOutside(p)'[t] = 0
      BY <1>1, <2>2, <2>4 DEF TransferRows, PaidOutside
    <3>. QED  BY <1>1, <2>3, <3>1, <3>2, <3>3
  <2>5. CASE row.due # NULL /\ row.by = p
    <3>1. balance'[p] = balance[p]
      BY <1>1, <2>5 DEF ConfirmPost, LedgerInv, MoneyInv, TypeOK
    <3>2. TransferRows(p)[t] = -(posted[t] * row.amount) /\ PaidOutside(p)[t] = posted[t] * row.amount
      BY <1>1, <2>5 DEF TransferRows, PaidOutside
    <3>3. TransferRows(p)'[t] = -(posted'[t] * row.amount) /\ PaidOutside(p)'[t] = posted'[t] * row.amount
      BY <1>1, <2>2, <2>5 DEF TransferRows, PaidOutside
    <3>. QED  BY <1>1, <2>3, <3>1, <3>2, <3>3
  <2>6. CASE row.by # p
    <3>1. balance'[p] = balance[p]
      BY <1>1, <2>6 DEF ConfirmPost, LedgerInv, MoneyInv, TypeOK
    <3>2. /\ TransferRows(p)[t] = 0 /\ TransferRows(p)'[t] = 0
          /\ PaidOutside(p)[t] = 0 /\ PaidOutside(p)'[t] = 0
      BY <1>1, <2>2, <2>6 DEF TransferRows, PaidOutside
    <3>. QED  BY <2>3, <3>1, <3>2
  <2>. QED  BY <2>4, <2>5, <2>6
<1>7. ASSUME NEW p \in Profile
      PROVE  balance'[p] = SumFunction(TransferRows(p)') - SumFunction(Debits(p)')
                           + SumFunction(PaidOutside(p)')
  <2>1. /\ TransferRows(p) \in [Transfer -> Int] /\ TransferRows(p)' \in [Transfer -> Int]
        /\ PaidOutside(p) \in [Transfer -> Int] /\ PaidOutside(p)' \in [Transfer -> Int]
        /\ SumFunction(TransferRows(p)) \in Int /\ SumFunction(PaidOutside(p)) \in Int
        /\ SumFunction(Debits(p)) \in Int /\ balance[p] \in Int
    <3>1. ASSUME NEW u \in Transfer, transfers'[u] # NULL
          PROVE  posted'[u] * transfers'[u].amount \in Int
      <4>1. transfers'[u].amount \in Int /\ posted'[u] \in Int
        BY <3>1 DEF MoneyInv, TypeOK, Row, Amount
      <4>. QED  BY <4>1
    <3>2. /\ TransferRows(p)' \in [Transfer -> Int]
          /\ PaidOutside(p)' \in [Transfer -> Int]
      BY <3>1 DEF TransferRows, PaidOutside
    <3>. QED  BY <3>1, <3>2, LedgerTypes DEF LedgerInv, MoneyInv
  <2>2. SumFunction(TransferRows(p)') =
          SumFunction(TransferRows(p)) - TransferRows(p)[t] + TransferRows(p)'[t]
    BY <1>1, <1>5, <2>1, SumChange, TotalAssumption
  <2>3. SumFunction(PaidOutside(p)') =
          SumFunction(PaidOutside(p)) - PaidOutside(p)[t] + PaidOutside(p)'[t]
    BY <1>1, <1>5, <2>1, SumChange, TotalAssumption
  <2>4. Debits(p)' = Debits(p)
    BY <1>3 DEF Debits
  <2>5. balance[p] = SumFunction(TransferRows(p)) - SumFunction(Debits(p))
                     + SumFunction(PaidOutside(p))
    BY DEF LedgerInv, BalanceMatchesLedger
  <2>6. /\ TransferRows(p)[t] \in Int /\ TransferRows(p)'[t] \in Int
        /\ PaidOutside(p)[t] \in Int /\ PaidOutside(p)'[t] \in Int
    BY <1>1, <2>1
  <2>. QED  BY <1>6, <2>1, <2>2, <2>3, <2>4, <2>5, <2>6
<1>. QED  BY <1>4, <1>7 DEF LedgerInv, BalanceMatchesLedger

LEMMA PayCommitLedger ==
  ASSUME LedgerInv, MoneyInv', NEW s \in Session, PayCommit(s)
  PROVE  LedgerInv'
<1>1. PICK p \in Profile, D \in SUBSET Due : p = call[s].by /\ D = call[s].want
  BY DEF PayCommit, At, LedgerInv, MoneyInv, TypeOK, Call, CallOK
<1>2. /\ UNCHANGED <<transfers, posted>>
      /\ balance' = [balance EXCEPT ![p] = @ - DueTotal[D]]
      /\ debited' = [debited EXCEPT ![p] =
                       [d \in Due |-> IF d \in D THEN @[d] + 1 ELSE @[d]]]
  BY <1>1 DEF PayCommit
<1>3. ASSUME NEW q \in Profile
      PROVE  TransferRows(q)' = TransferRows(q) /\ PaidOutside(q)' = PaidOutside(q)
  BY <1>2 DEF TransferRows, PaidOutside
<1>4. ASSUME NEW q \in Profile, q # p
      PROVE  balance'[q] = balance[q] /\ Debits(q)' = Debits(q)
  BY <1>1, <1>2, <1>4 DEF LedgerInv, MoneyInv, TypeOK, Debits
<1>5. Debits(p)' = Raised(Debits(p), D)
  <2>1. ASSUME NEW d \in Due PROVE Debits(p)'[d] = Raised(Debits(p), D)[d]
    <3>1. debited[p][d] \in Int /\ DueAmount[d] \in Int
      BY <1>1, PaymentsAssumption DEF LedgerInv, MoneyInv, TypeOK, Amount
    <3>2. debited'[p][d] = IF d \in D THEN debited[p][d] + 1 ELSE debited[p][d]
      BY <1>1, <1>2 DEF LedgerInv, MoneyInv, TypeOK
    <3>3. (debited[p][d] + 1) * DueAmount[d] = debited[p][d] * DueAmount[d] + DueAmount[d]
      BY <3>1
    <3>. QED  BY <3>2, <3>3 DEF Debits, Raised
  <2>. QED  BY <2>1 DEF Debits, Raised
<1>6. balance'[p] = balance[p] - DueTotal[D]
  BY <1>1, <1>2 DEF LedgerInv, MoneyInv, TypeOK
<1>7. balance'[p] = SumFunction(TransferRows(p)) - SumFunction(Debits(p)')
                    + SumFunction(PaidOutside(p))
  <2>1. /\ Debits(p) \in [Due -> Int] /\ SumFunction(TransferRows(p)) \in Int
        /\ SumFunction(Debits(p)) \in Int /\ SumFunction(PaidOutside(p)) \in Int
    BY <1>1, LedgerTypes DEF LedgerInv, MoneyInv
  <2>2. SumFunction(Debits(p)') = SumFunction(Debits(p)) + DueTotal[D]
    BY <1>1, <1>5, <2>1, SumRaised
  <2>3. balance[p] = SumFunction(TransferRows(p)) - SumFunction(Debits(p))
                     + SumFunction(PaidOutside(p))
    BY <1>1 DEF LedgerInv, BalanceMatchesLedger
  <2>4. DueTotal[D] \in Int
    BY <1>1, PaymentsAssumption
  <2>. QED  BY <1>6, <2>1, <2>2, <2>3, <2>4
<1>8. BalanceMatchesLedger'
  BY <1>3, <1>4, <1>7 DEF LedgerInv, BalanceMatchesLedger
<1>9. PostedRowsExist'
  BY <1>2 DEF LedgerInv, PostedRowsExist
<1>. QED  BY <1>8, <1>9 DEF LedgerInv

LEMMA InitLedger == Init => LedgerInv
<1> SUFFICES ASSUME Init PROVE LedgerInv
  OBVIOUS
<1>1. ASSUME NEW p \in Profile
      PROVE  balance[p] = SumFunction(TransferRows(p)) - SumFunction(Debits(p))
                          + SumFunction(PaidOutside(p))
  <2>1. TransferRows(p) \in [Transfer -> {0}] /\ PaidOutside(p) \in [Transfer -> {0}]
    BY DEF Init, TransferRows, PaidOutside
  <2>2. \A d \in Due : debited[p][d] = 0 /\ DueAmount[d] \in Int
    BY PaymentsAssumption DEF Init, Amount
  <2>3. Debits(p) \in [Due -> {0}]
    BY <2>2 DEF Debits
  <2>4. /\ SumFunction(TransferRows(p)) = 0 /\ SumFunction(PaidOutside(p)) = 0
        /\ SumFunction(Debits(p)) = 0
    BY <2>1, <2>3, SumZero, TotalAssumption
  <2>. QED  BY <2>4 DEF Init
<1>2. PostedRowsExist
  BY DEF Init, PostedRowsExist
<1>. QED  BY <1>1, <1>2, InitMoney DEF LedgerInv, BalanceMatchesLedger

LEMMA LedgerStep == LedgerInv /\ [Next]_vars => LedgerInv'
<1> SUFFICES ASSUME LedgerInv, [Next]_vars PROVE LedgerInv'
  OBVIOUS
<1>1. MoneyInv /\ MoneyInv'
  BY MoneyStep DEF LedgerInv
<1>2. ASSUME UNCHANGED <<transfers, balance, posted, debited>> PROVE LedgerInv'
  BY <1>1, <1>2, LedgerFrame DEF RowsKept
<1>3. ASSUME NEW s \in Session, Start(s) \/ Rollback(s) \/ DeadlockAbort(s) PROVE LedgerInv'
  BY <1>2, <1>3 DEF Start, SubmitCheck, ConfirmRead, RejectRead, ContestRead, PayBegin,
     Rollback, DeadlockAbort, Raise, tables
<1>4. ASSUME NEW s \in Session, Run(s) PROVE LedgerInv'
  <2>1. CASE SubmitInsert(s)
    <3>1. RowsKept
      BY <2>1 DEF SubmitInsert, RowsKept, MoneyInv, TypeOK
    <3>. QED  BY <1>1, <2>1, <3>1, LedgerFrame DEF SubmitInsert
  <2>2. CASE RejectWrite(s) \/ ContestWrite(s)
    <3>1. call[s].t \in Transfer /\ transfers[call[s].t] # NULL
      BY <1>1, <2>2 DEF RejectWrite, ContestWrite, At, MoneyInv, CallOK
    <3>2. RowsKept
      BY <1>1, <2>2, <3>1, StatusFacts DEF RejectWrite, ContestWrite, Resolve, MoneyInv
    <3>. QED  BY <1>1, <2>2, <3>2, LedgerFrame DEF RejectWrite, ContestWrite
  <2>3. CASE ConfirmPost(s)
    BY <1>1, <2>3, ConfirmPostLedger
  <2>4. CASE PayCommit(s)
    BY <1>1, <2>4, PayCommitLedger
  <2>5. CASE ConfirmTopup(s) \/ ConfirmDue(s) \/ (\E d \in Due : PayLockDue(s, d))
             \/ PayCount(s) \/ PayLockWallet(s)
    BY <1>2, <2>5 DEF ConfirmTopup, ConfirmDue, PayLockDue, PayCount, PayLockWallet,
       Raise, tables
  <2>. QED  BY <1>4, <2>1, <2>2, <2>3, <2>4, <2>5 DEF Run
<1>5. ASSUME NEW d \in Due, Finance(d) PROVE LedgerInv'
  BY <1>2, <1>5 DEF Finance, AssignDue, MarkDuePaid, ReopenDue, DeleteDue, SetDue
<1>6. CASE UNCHANGED vars
  BY <1>2, <1>6 DEF vars, tables
<1>. QED  BY <1>3, <1>4, <1>5, <1>6 DEF Next

\* Every wallet differs from its rows of wallet_transactions by the dues paid by
\* bank transfer and nothing else, for any number of overlapping payments and
\* confirmations and whether or not dues are reopened: no update of a balance is
\* lost, although a balance is compared and written in different statements.
THEOREM BalanceMatchesLedgerCorrect == Spec => []BalanceMatchesLedger
<1>1. LedgerInv => BalanceMatchesLedger
  BY DEF LedgerInv
<1>. QED  BY InitLedger, LedgerStep, <1>1, PTL DEF Spec

-----------------------------------------------------------------------------
(* A transfer at a time.                                                   *)

LEMMA InitResolved == Init => ResolvedInv
  BY PaymentsAssumption DEF Init, ResolvedInv, PostedAsConfirmed, ResolvedOK, HasStatus, Idle,
     Local

\* A step that writes no transfer, and after which every call is done or knows
\* of its transfer what it knew before.
LEMMA QuietResolved ==
  ASSUME ResolvedInv, UNCHANGED <<transfers, posted>>, NEW s \in Session,
         \A u \in Session \ {s} : call'[u] = call[u],
         ResolvedOK(s)'
  PROVE  ResolvedInv'
<1>1. PostedAsConfirmed'
  BY DEF ResolvedInv, PostedAsConfirmed, HasStatus
<1>2. ASSUME NEW u \in Session \ {s} PROVE ResolvedOK(u)'
  <2>1. ResolvedOK(u)
    BY DEF ResolvedInv
  <2>. QED  BY <2>1 DEF ResolvedOK, HasStatus
<1>. QED  BY <1>1, <1>2 DEF ResolvedInv

LEMMA EndResolved ==
  ASSUME ResolvedInv, TypeOK, NEW s \in Session, End(s), UNCHANGED <<transfers, posted>>
  PROVE  ResolvedInv'
<1>1. call'[s].pc = "idle" /\ \A u \in Session \ {s} : call'[u] = call[u]
  BY EndFacts
<1>2. ResolvedOK(s)'
  BY <1>1 DEF ResolvedOK
<1>. QED  BY <1>1, <1>2, QuietResolved

LEMMA StartResolved ==
  ASSUME ResolvedInv, TypeOK, NEW s \in Session, Start(s)
  PROVE  ResolvedInv'
<1> USE PaymentsAssumption
<1>1. ASSUME NEW c \in Call, Begin(s, c), UNCHANGED <<transfers, posted>>,
             c.pc \in {"confirm", "post", "reject"} => HasStatus(c.t, "pending"),
             c.pc = "contest" => HasStatus(c.t, "rejected")
      PROVE  ResolvedInv'
  <2>1. call'[s] = c /\ \A u \in Session \ {s} : call'[u] = call[u]
    BY <1>1, BeginFacts
  <2>2. ResolvedOK(s)'
    BY <1>1, <2>1 DEF ResolvedOK, HasStatus
  <2>. QED  BY <1>1, <2>1, <2>2, QuietResolved
<1>2. ASSUME NEW p \in Profile, NEW d \in Due \cup {NULL}, SubmitCheck(s, p, d)
      PROVE  ResolvedInv'
  <2>1. Local("submit", p, NULL, d, {}, {}) \in Call
    BY LocalType
  <2>. QED  BY <1>1, <1>2, <2>1 DEF SubmitCheck, Local, tables
<1>3. ASSUME NEW t \in Transfer, ConfirmRead(s, t) \/ RejectRead(s, t) PROVE ResolvedInv'
  <2>1. PICK pc \in {"confirm", "reject"} : Begin(s, Local(pc, NULL, t, NULL, {}, {}))
    BY <1>3 DEF ConfirmRead, RejectRead
  <2>2. Local(pc, NULL, t, NULL, {}, {}) \in Call
    BY LocalType
  <2>. QED  BY <1>1, <1>3, <2>1, <2>2 DEF ConfirmRead, RejectRead, Local, tables
<1>4. ASSUME NEW t \in Transfer, ContestRead(s, t) PROVE ResolvedInv'
  <2>1. Local("contest", transfers[t].by, t, NULL, {}, {}) \in Call
    BY <1>4, LocalType, RowFacts DEF ContestRead, HasStatus
  <2>. QED  BY <1>1, <1>4, <2>1 DEF ContestRead, Local, tables
<1>5. ASSUME NEW p \in Profile, NEW D \in SUBSET Due, PayBegin(s, p, D) PROVE ResolvedInv'
  <2>1. Local("lock", p, NULL, NULL, D, {d \in D : Payable(p, d)}) \in Call
    BY LocalType
  <2>. QED  BY <1>1, <1>5, <2>1 DEF PayBegin, Local, tables
<1>. QED  BY <1>2, <1>3, <1>4, <1>5 DEF Start

\* The one call about a transfer resolves it: what it knew still holds.
LEMMA ResolveResolved ==
  ASSUME ResolvedInv, ResolvedAlone, MoneyInv, NEW s \in Session,
         ConfirmPost(s) \/ RejectWrite(s) \/ ContestWrite(s)
  PROVE  /\ ResolvedInv'
         /\ \A t \in Transfer : HasStatus(t, "confirmed") => HasStatus(t, "confirmed")'
<1> DEFINE t == call[s].t
<1>0. TypeOK /\ \A u \in Session : CallOK(u)
  BY DEF MoneyInv
<1>1. /\ t \in Transfer /\ transfers[t] # NULL /\ transfers[t].status # "confirmed"
      /\ posted[t] = 0
  BY <1>0 DEF ConfirmPost, RejectWrite, ContestWrite, At, CallOK, ResolvedInv, ResolvedOK,
         PostedAsConfirmed, HasStatus
<1>2. PICK st \in {"confirmed", "rejected", "pending"} :
         /\ transfers' = [transfers EXCEPT ![t].status = st]
         /\ posted' = IF st = "confirmed" THEN [posted EXCEPT ![t] = @ + 1] ELSE posted
  BY DEF ConfirmPost, RejectWrite, ContestWrite, Resolve
<1>3. /\ transfers'[t].status = st /\ transfers'[t] # NULL
      /\ \A u \in Transfer \ {t} : transfers'[u] = transfers[u] /\ posted'[u] = posted[u]
      /\ posted'[t] = IF st = "confirmed" THEN 1 ELSE 0
  <2>1. transfers'[t].status = st
    BY <1>0, <1>1, <1>2 DEF TypeOK, Row
  <2>2. transfers'[t] # NULL
    BY <1>0, <1>1, <1>2, StatusFacts DEF RowsKept
  <2>. QED  BY <1>0, <1>1, <1>2, <2>1, <2>2 DEF TypeOK
<1>4. call'[s].pc = "idle" /\ \A u \in Session \ {s} : call'[u] = call[u]
  BY <1>0, EndFacts DEF ConfirmPost, RejectWrite, ContestWrite
<1>5. PostedAsConfirmed'
  BY <1>3 DEF ResolvedInv, PostedAsConfirmed, HasStatus
<1>6. ASSUME NEW u \in Session PROVE ResolvedOK(u)'
  <2>1. CASE u = s
    BY <1>4, <2>1 DEF ResolvedOK
  <2>2. CASE u # s
    <3>1. call'[u] = call[u] /\ ResolvedOK(u)
      BY <1>4, <2>2 DEF ResolvedInv
    <3>2. call[u].t # t
      BY <1>1, <2>2, PaymentsAssumption DEF ResolvedAlone
    <3>3. call[u].t \in Transfer \/ call[u].t = NULL
      BY <1>0 DEF TypeOK, Call
    <3>4. CASE call[u].t = NULL
      <4>1. call[u].pc \notin {"confirm", "post", "reject", "contest"}
        BY <1>0, <3>4, PaymentsAssumption DEF CallOK
      <4>. QED  BY <3>1, <4>1 DEF ResolvedOK
    <3>5. CASE call[u].t \in Transfer
      BY <1>3, <3>1, <3>2, <3>5 DEF ResolvedOK, HasStatus
    <3>. QED  BY <3>3, <3>4, <3>5
  <2>. QED  BY <2>1, <2>2
<1>7. ASSUME NEW u \in Transfer, HasStatus(u, "confirmed") PROVE HasStatus(u, "confirmed")'
  BY <1>1, <1>3, <1>7 DEF HasStatus
<1>. QED  BY <1>5, <1>6, <1>7 DEF ResolvedInv

LEMMA ResolvedStep ==
  ASSUME ResolvedInv, ResolvedAlone, MoneyInv, [Next]_vars
  PROVE  /\ ResolvedInv'
         /\ \A t \in Transfer : HasStatus(t, "confirmed") => HasStatus(t, "confirmed")'
<1> USE PaymentsAssumption
<1> DEFINE Final == \A t \in Transfer : HasStatus(t, "confirmed") => HasStatus(t, "confirmed")'
<1>0. TypeOK
  BY DEF MoneyInv
<1>1. UNCHANGED transfers => Final
  BY DEF HasStatus
<1>2. ASSUME NEW s \in Session, Start(s) PROVE ResolvedInv' /\ UNCHANGED transfers
  <2>1. UNCHANGED transfers
    BY <1>2 DEF Start, SubmitCheck, ConfirmRead, RejectRead, ContestRead, PayBegin, tables
  <2>. QED  BY <1>0, <1>2, <2>1, StartResolved
<1>3. ASSUME NEW s \in Session, Rollback(s) \/ DeadlockAbort(s)
      PROVE  ResolvedInv' /\ UNCHANGED transfers
  BY <1>0, <1>3, EndResolved DEF Rollback, DeadlockAbort, Raise, tables
<1>4. ASSUME NEW s \in Session, Run(s) PROVE ResolvedInv' /\ Final
  <2>1. CASE SubmitInsert(s)
    <3>1. PICK t \in Transfer :
             /\ transfers[t] = NULL /\ transfers'[t].status = "pending"
             /\ \A u \in Transfer \ {t} : transfers'[u] = transfers[u]
      BY <1>0, <2>1 DEF SubmitInsert, TypeOK
    <3>2. call'[s].pc = "idle" /\ \A u \in Session \ {s} : call'[u] = call[u]
      BY <1>0, <2>1, EndFacts DEF SubmitInsert
    <3>3. \A u \in Transfer : transfers[u] # NULL => transfers'[u] = transfers[u]
      BY <3>1
    <3>4. PostedAsConfirmed'
      <4>1. ~HasStatus(t, "confirmed") /\ ~HasStatus(t, "confirmed")'
        BY <3>1 DEF HasStatus
      <4>2. posted' = posted
        BY <2>1 DEF SubmitInsert
      <4>. QED  BY <3>1, <4>1, <4>2 DEF ResolvedInv, PostedAsConfirmed, HasStatus
    <3>5. ASSUME NEW u \in Session PROVE ResolvedOK(u)'
      <4>1. CASE u = s
        BY <3>2, <4>1 DEF ResolvedOK
      <4>2. CASE u # s
        <5>1. ResolvedOK(u) /\ CallOK(u) /\ call'[u] = call[u]
          BY <3>2, <4>2 DEF ResolvedInv, MoneyInv
        <5>. QED  BY <3>3, <5>1 DEF ResolvedOK, CallOK, HasStatus
      <4>. QED  BY <4>1, <4>2
    <3>. QED  BY <3>3, <3>4, <3>5 DEF ResolvedInv, HasStatus
  <2>2. CASE ConfirmPost(s) \/ RejectWrite(s) \/ ContestWrite(s)
    BY <2>2, ResolveResolved
  <2>3. CASE Raise(s)
    BY <1>0, <1>1, <2>3, EndResolved DEF Raise, tables
  <2>4. CASE PayCommit(s)
    BY <1>0, <1>1, <2>4, EndResolved DEF PayCommit
  <2>5. ASSUME NEW pc \in {"post", "debit", "commit"}, Continue(s, pc), UNCHANGED tables,
               pc = "post" => At(s, "confirm")
        PROVE  ResolvedInv' /\ Final
    <3>1. /\ call'[s].pc = pc /\ call'[s].t = call[s].t
          /\ \A u \in Session \ {s} : call'[u] = call[u]
      BY <1>0, <2>5, ContinueFacts
    <3>2. UNCHANGED <<transfers, posted>>
      BY <2>5 DEF tables
    <3>3. ResolvedOK(s)'
      BY <2>5, <3>1, <3>2 DEF ResolvedInv, ResolvedOK, HasStatus, At
    <3>. QED  BY <1>1, <3>1, <3>2, <3>3, QuietResolved
  <2>6. CASE ConfirmTopup(s) \/ ConfirmDue(s) \/ PayCount(s) \/ PayLockWallet(s)
    BY <2>3, <2>5, <2>6 DEF ConfirmTopup, ConfirmDue, PayCount, PayLockWallet
  <2>7. ASSUME NEW d \in Due, PayLockDue(s, d) PROVE ResolvedInv' /\ Final
    <3>1. /\ call'[s].pc = call[s].pc /\ call[s].pc = "lock"
          /\ \A u \in Session \ {s} : call'[u] = call[u]
      BY <1>0, <2>7, TodoFacts DEF PayLockDue, At
    <3>2. UNCHANGED <<transfers, posted>>
      BY <2>7 DEF PayLockDue, tables
    <3>3. ResolvedOK(s)'
      BY <3>1 DEF ResolvedOK
    <3>. QED  BY <1>1, <3>1, <3>2, <3>3, QuietResolved
  <2>. QED  BY <1>4, <2>1, <2>2, <2>4, <2>6, <2>7 DEF Run
<1>5. ASSUME UNCHANGED <<transfers, posted, call>> PROVE ResolvedInv' /\ Final
  <2>1. PostedAsConfirmed'
    BY <1>5 DEF ResolvedInv, PostedAsConfirmed, HasStatus
  <2>2. \A s \in Session : ResolvedOK(s)'
    BY <1>5 DEF ResolvedInv, ResolvedOK, HasStatus
  <2>. QED  BY <1>1, <1>5, <2>1, <2>2 DEF ResolvedInv
<1>6. ASSUME NEW d \in Due, Finance(d) PROVE ResolvedInv' /\ Final
  BY <1>5, <1>6 DEF Finance, AssignDue, MarkDuePaid, ReopenDue, DeleteDue, SetDue
<1>7. CASE UNCHANGED vars
  BY <1>5, <1>7 DEF vars, tables
<1>. QED  BY <1>1, <1>2, <1>3, <1>4, <1>6, <1>7 DEF Next

\* Transfers are posted twice by overlap alone: as long as no two calls are
\* about one transfer at a time, each is posted once when it is confirmed and
\* never otherwise, whatever else any number of sessions does meanwhile.
THEOREM PostedAsConfirmedCorrect == Spec /\ []ResolvedAlone => []PostedAsConfirmed
<1>1. ResolvedInv => PostedAsConfirmed
  BY DEF ResolvedInv
<1>2. ResolvedInv /\ ResolvedAlone /\ MoneyInv /\ [Next]_vars => ResolvedInv'
  BY ResolvedStep
<1>. QED  BY <1>1, <1>2, InitResolved, MoneyCorrect, PTL DEF Spec

\* ... and stays confirmed.
THEOREM ConfirmedIsFinalCorrect ==
  Spec /\ []ResolvedAlone =>
    [][\A t \in Transfer : HasStatus(t, "confirmed") => HasStatus(t, "confirmed")']_vars
<1> DEFINE Final == \A t \in Transfer : HasStatus(t, "confirmed") => HasStatus(t, "confirmed")'
<1>1. ResolvedInv /\ ResolvedAlone /\ MoneyInv /\ [Next]_vars => ResolvedInv' /\ [Final]_vars
  BY ResolvedStep
<1>. QED  BY <1>1, InitResolved, MoneyCorrect, PTL DEF Spec
=============================================================================
