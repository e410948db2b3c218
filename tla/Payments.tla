------------------------------ MODULE Payments ------------------------------
(***************************************************************************)
(* The money RPCs of the estate database: bank transfers waiting for the   *)
(* finance desk, dues, and the wallets that pay them.                      *)
(*                                                                         *)
(* Every RPC is one READ COMMITTED transaction.  A session runs one        *)
(* transaction at a time, one action per statement: a plain SELECT reads   *)
(* the committed rows and takes no lock; an UPDATE or a SELECT ... FOR     *)
(* UPDATE waits for the row lock and then sees the newest committed row.   *)
(* The writes of a transaction become visible when it commits, which is    *)
(* its last action; until then the locks keep the rows it wrote from       *)
(* everybody else.  The marketplace purpose of a transfer is modelled in   *)
(* Marketplace; here a transfer tops up a wallet (due = NULL) or settles a *)
(* due.                                                                    *)
(***************************************************************************)
EXTENDS Integers, FiniteSetsExt

CONSTANTS
  Session,      \* database sessions serving requests, one transaction each
  Profile,      \* residents; each has a wallets row from sign-up on
  Due,          \* ids of rows of dues
  Transfer,     \* ids of rows of transfers
  Household,    \* Household[p]: private.auth_household_profile_ids() for p
  Owner,        \* Owner[d]: dues.profile_id
  DueAmount,    \* DueAmount[d]: dues.amount
  DueTotal,     \* DueTotal[D]: sum(amount) over the dues in D
  TopupAmount,  \* the amounts residents top up with
  MaxInteger,   \* largest value of the integer type
  MaxPosts,     \* bound: a transfer posted this often is not confirmed again
  ReopenDues,   \* whether finance ever sets a paid due back to unpaid
  NULL

Amount == 0..MaxInteger

Row == [by: Profile, due: Due \cup {NULL}, amount: Amount,
        status: {"pending", "confirmed", "rejected"}]

ASSUME PaymentsAssumption ==
  /\ NULL \notin Session \cup Profile \cup Due \cup Transfer \cup Row
  /\ Household \in [Profile -> SUBSET Profile]
  /\ Owner \in [Due -> Profile]
  /\ DueAmount \in [Due -> Amount \ {0}]
  /\ DueTotal \in [SUBSET Due -> Nat]
  /\ TopupAmount \subseteq Amount \ {0}
  /\ MaxInteger \in Nat
  /\ MaxPosts \in Nat
  /\ ReopenDues \in BOOLEAN

\* Tables are finite, and DueTotal is what it says.
ASSUME TotalAssumption ==
  /\ IsFiniteSet(Transfer) /\ IsFiniteSet(Due)
  /\ DueTotal[{}] = 0
  /\ \A D \in SUBSET Due : \A d \in Due \ D :
       DueTotal[D \cup {d}] = DueTotal[D] + DueAmount[d]

VARIABLES
  transfers,    \* the transfers table
  dueStatus,    \* dues.status; 'overdue' behaves as 'due'
  balance,      \* wallets.balance
  posted,       \* wallet_transactions rows confirm_transfer wrote per transfer: the
                \* amount for a top-up, minus the amount for a due
  debited,      \* per wallet and due, the ledger rows of payments that covered it
  notice,       \* type of the latest notification about a transfer
  dueLock,      \* the session holding the row lock of a due
  walletLock,   \* the session holding the row lock of a wallet
  call          \* what each session is executing

tables == <<transfers, dueStatus, balance, posted, debited, notice>>
locks == <<dueLock, walletLock>>
vars == <<tables, locks, call>>

-----------------------------------------------------------------------------
Call == [pc: {"idle", "submit", "confirm", "post", "reject", "contest",
              "lock", "debit", "commit"},
         by: Profile \cup {NULL},     \* auth.uid() of a resident's call
         t: Transfer \cup {NULL},     \* p_transfer_id
         due: Due \cup {NULL},        \* reference_id of a new transfer
         want: SUBSET Due,            \* p_due_ids
         todo: SUBSET Due]            \* rows FOR UPDATE has still to lock

Local(pc, by, t, due, want, todo) ==
  [pc |-> pc, by |-> by, t |-> t, due |-> due, want |-> want, todo |-> todo]
Idle == Local("idle", NULL, NULL, NULL, {}, {})

TypeOK ==
  /\ transfers \in [Transfer -> Row \cup {NULL}]
  /\ dueStatus \in [Due -> {"unassigned", "due", "paid", "deleted"}]
  /\ balance \in [Profile -> Amount]
  /\ posted \in [Transfer -> Nat]
  /\ debited \in [Profile -> [Due -> Nat]]
  /\ notice \in [Transfer -> {"none", "transfer_confirmed",
                              "transfer_rejected", "transfer_contested"}]
  /\ dueLock \in [Due -> Session \cup {NULL}]
  /\ walletLock \in [Profile -> Session \cup {NULL}]
  /\ call \in [Session -> Call]

Init ==
  /\ transfers = [t \in Transfer |-> NULL]
  /\ dueStatus = [d \in Due |-> "unassigned"]
  /\ balance = [p \in Profile |-> 0]
  /\ posted = [t \in Transfer |-> 0]
  /\ debited = [p \in Profile |-> [d \in Due |-> 0]]
  /\ notice = [t \in Transfer |-> "none"]
  /\ dueLock = [d \in Due |-> NULL]
  /\ walletLock = [p \in Profile |-> NULL]
  /\ call = [s \in Session |-> Idle]

-----------------------------------------------------------------------------
\* Rows as the statements of the RPCs select them.
HasStatus(t, st) == transfers[t] # NULL /\ transfers[t].status = st
OpenFor(d) == {t \in Transfer : HasStatus(t, "pending") /\ transfers[t].due = d}
Exists(d) == dueStatus[d] \in {"due", "paid"}
Payable(p, d) == dueStatus[d] = "due" /\ Owner[d] \in Household[p]

At(s, pc) == call[s].pc = pc
Begin(s, c) == At(s, "idle") /\ call' = [call EXCEPT ![s] = c]
Continue(s, pc) == call' = [call EXCEPT ![s].pc = pc]

\* The end of a transaction, committed or rolled back: locks are released.
End(s) ==
  /\ call' = [call EXCEPT ![s] = Idle]
  /\ dueLock' = [d \in Due |-> IF dueLock[d] = s THEN NULL ELSE dueLock[d]]
  /\ walletLock' = [p \in Profile |->
                      IF walletLock[p] = s THEN NULL ELSE walletLock[p]]

\* The transaction is cancelled from outside: a statement timeout, a lost
\* connection, a database crash.  Nothing it wrote was visible to anyone.
Rollback(s) == ~At(s, "idle") /\ End(s) /\ UNCHANGED tables

\* A RAISE EXCEPTION, or an integer out of range, inside the function.
Raise(s) == End(s) /\ UNCHANGED tables

-----------------------------------------------------------------------------
\* INSERT INTO transfers: the policy and the BEFORE trigger check, then the
\* row goes in.  Bound: there are as many transfers as ids.
SubmitCheck(s, p, d) ==
  /\ Cardinality({t \in Transfer : transfers[t] # NULL}
                 \cup {u \in Session : At(u, "submit")}) < Cardinality(Transfer)
  /\ d # NULL => Payable(p, d) /\ OpenFor(d) = {}
  /\ Begin(s, Local("submit", p, NULL, d, {}, {}))
  /\ UNCHANGED <<tables, locks>>

SubmitInsert(s) ==
  LET d == call[s].due
  IN
  /\ At(s, "submit")
  /\ \E t \in Transfer, a \in IF d = NULL THEN TopupAmount ELSE {DueAmount[d]} :
       /\ transfers[t] = NULL
       /\ transfers' = [transfers EXCEPT ![t] =
            [by |-> call[s].by, due |-> d, amount |-> a, status |-> "pending"]]
  /\ End(s)
  /\ UNCHANGED <<dueStatus, balance, posted, debited, notice>>

-----------------------------------------------------------------------------
\* confirm_transfer: an unlocked look for a pending row; then the wallet or
\* the due is updated; then the ledger row and the transfer itself.
ConfirmRead(s, t) ==
  /\ HasStatus(t, "pending")
  /\ posted[t] < MaxPosts
  /\ Begin(s, Local("confirm", NULL, t, NULL, {}, {}))
  /\ UNCHANGED <<tables, locks>>

\* A top-up past the integer range raises; a due deleted meanwhile matches no
\* row and the call goes on.
ConfirmTopup(s) ==
  LET row == transfers[call[s].t]
  IN
  /\ At(s, "confirm") /\ row.due = NULL
  /\ walletLock[row.by] = NULL
  /\ IF balance[row.by] + row.amount > MaxInteger
     THEN Raise(s)
     ELSE /\ walletLock' = [walletLock EXCEPT ![row.by] = s]
          /\ Continue(s, "post")
          /\ UNCHANGED <<tables, dueLock>>

ConfirmDue(s) ==
  LET d == transfers[call[s].t].due
  IN
  /\ At(s, "confirm") /\ d # NULL
  /\ IF Exists(d)
     THEN dueLock[d] = NULL /\ dueLock' = [dueLock EXCEPT ![d] = s]
     ELSE UNCHANGED dueLock
  /\ Continue(s, "post")
  /\ UNCHANGED <<tables, walletLock>>

\* Mutant: the trigger fires for pending transfers only.
ResolveQuietly(t, st, type) ==
  /\ transfers' = [transfers EXCEPT ![t].status = st]
  /\ notice' = IF HasStatus(t, "pending") THEN [notice EXCEPT ![t] = type] ELSE notice

\* notify_transfer_resolved fires only when the status changes.
Resolve(t, st, type) ==
  /\ transfers' = [transfers EXCEPT ![t].status = st]
  /\ notice' = IF HasStatus(t, st) THEN notice
               ELSE [notice EXCEPT ![t] = type]

ConfirmPost(s) ==
  LET t == call[s].t
      row == transfers[t]
  IN
  /\ At(s, "post")
  /\ IF row.due = NULL
     THEN /\ balance' = [balance EXCEPT ![row.by] = @ + row.amount]
          /\ UNCHANGED dueStatus
     ELSE /\ dueStatus' = IF Exists(row.due)
                          THEN [dueStatus EXCEPT ![row.due] = "paid"]
                          ELSE dueStatus
          /\ UNCHANGED balance
  /\ posted' = [posted EXCEPT ![t] = @ + 1]
  /\ Resolve(t, "confirmed", "transfer_confirmed")
  /\ End(s)
  /\ UNCHANGED debited

\* reject_transfer.
RejectRead(s, t) ==
  /\ HasStatus(t, "pending")
  /\ Begin(s, Local("reject", NULL, t, NULL, {}, {}))
  /\ UNCHANGED <<tables, locks>>

RejectWrite(s) ==
  /\ At(s, "reject")
  /\ Resolve(call[s].t, "rejected", "transfer_rejected")
  /\ End(s)
  /\ UNCHANGED <<dueStatus, balance, posted, debited>>

\* contest_transfer: the submitter puts a rejected transfer back in the queue;
\* notify_transfer_contested fires only if the row is still rejected.
ContestRead(s, t) ==
  /\ HasStatus(t, "rejected")
  /\ Begin(s, Local("contest", transfers[t].by, t, NULL, {}, {}))
  /\ UNCHANGED <<tables, locks>>

ContestWrite(s) ==
  LET t == call[s].t
  IN
  /\ At(s, "contest")
  /\ transfers' = [transfers EXCEPT ![t].status = "pending"]
  /\ notice' = IF HasStatus(t, "rejected")
               THEN [notice EXCEPT ![t] = "transfer_contested"]
               ELSE notice
  /\ End(s)
  /\ UNCHANGED <<dueStatus, balance, posted, debited>>

-----------------------------------------------------------------------------
\* Mutant: FOR UPDATE selects every payable due of the household.
PayBeginAll(s, p, D) ==
  /\ D # {} /\ \A d \in D : dueStatus[d] # "unassigned"
  /\ Begin(s, Local("lock", p, NULL, NULL, D, {d \in Due : Payable(p, d)}))
  /\ UNCHANGED <<tables, locks>>

\* pay_dues_from_wallet.  A caller names dues that exist: their ids are made
\* by the database.  FOR UPDATE locks, in no particular order, the rows that
\* were payable when the statement started; one that is paid by the time its
\* lock is granted drops out of the result but stays locked.
PayBegin(s, p, D) ==
  /\ D # {} /\ \A d \in D : dueStatus[d] # "unassigned"
  /\ Begin(s, Local("lock", p, NULL, NULL, D, {d \in D : Payable(p, d)}))
  /\ UNCHANGED <<tables, locks>>

\* Mutant: the dues are selected without FOR UPDATE.
PayLockNothing(s, d) ==
  /\ At(s, "lock") /\ d \in call[s].todo
  /\ call' = [call EXCEPT ![s].todo = @ \ {d}]
  /\ UNCHANGED <<tables, locks>>

PayLockDue(s, d) ==
  /\ At(s, "lock") /\ d \in call[s].todo
  /\ dueLock[d] = NULL
  /\ dueLock' = IF Exists(d) THEN [dueLock EXCEPT ![d] = s] ELSE dueLock
  /\ call' = [call EXCEPT ![s].todo = @ \ {d}]
  /\ UNCHANGED <<tables, walletLock>>

\* Mutant: the count takes dues of the household whatever their status.
PayCountAny(s) ==
  /\ At(s, "lock") /\ call[s].todo = {}
  /\ IF /\ \A d \in call[s].want : Owner[d] \in Household[call[s].by]
        /\ DueTotal[call[s].want] <= MaxInteger
     THEN Continue(s, "debit") /\ UNCHANGED <<tables, locks>>
     ELSE Raise(s)

\* Mutant: a call whose dues are not all payable does not raise.
PayCountOrWait(s) ==
  /\ At(s, "lock") /\ call[s].todo = {}
  /\ \A d \in call[s].want : Payable(call[s].by, d)
  /\ Continue(s, "debit")
  /\ UNCHANGED <<tables, locks>>

\* The count of payable rows must be the number asked for, and the total must
\* fit v_total; otherwise the call raises.
PayCount(s) ==
  /\ At(s, "lock") /\ call[s].todo = {}
  /\ IF /\ \A d \in call[s].want : Payable(call[s].by, d)
        /\ DueTotal[call[s].want] <= MaxInteger
     THEN Continue(s, "debit") /\ UNCHANGED <<tables, locks>>
     ELSE Raise(s)

\* Mutant: the balance is not compared with the total.
PayLockWalletAny(s) ==
  /\ At(s, "debit")
  /\ walletLock[call[s].by] = NULL
  /\ walletLock' = [walletLock EXCEPT ![call[s].by] = s]
  /\ Continue(s, "commit")
  /\ UNCHANGED <<tables, dueLock>>

PayLockWallet(s) ==
  LET p == call[s].by
  IN
  /\ At(s, "debit")
  /\ walletLock[p] = NULL
  /\ IF balance[p] < DueTotal[call[s].want]
     THEN Raise(s)
     ELSE /\ walletLock' = [walletLock EXCEPT ![p] = s]
          /\ Continue(s, "commit")
          /\ UNCHANGED <<tables, dueLock>>

\* Mutant: the ledger row covers one of the dues only.
PayCommitOneRow(s) ==
  LET p == call[s].by
      D == call[s].want
  IN
  /\ At(s, "commit")
  /\ \A d \in D : dueLock[d] \in {s, NULL}
  /\ balance' = [balance EXCEPT ![p] = @ - DueTotal[D]]
  /\ dueStatus' = [d \in Due |-> IF d \in D /\ Exists(d) THEN "paid" ELSE dueStatus[d]]
  /\ \E d \in D : debited' = [debited EXCEPT ![p][d] = @ + 1]
  /\ End(s)
  /\ UNCHANGED <<transfers, posted, notice>>

PayCommit(s) ==
  LET p == call[s].by
      D == call[s].want
  IN
  /\ At(s, "commit")
  /\ \A d \in D : dueLock[d] \in {s, NULL}
  /\ balance' = [balance EXCEPT ![p] = @ - DueTotal[D]]
  /\ dueStatus' = [d \in Due |-> IF d \in D /\ Exists(d) THEN "paid"
                                 ELSE dueStatus[d]]
  /\ debited' = [debited EXCEPT ![p] =
                   [d \in Due |-> IF d \in D THEN @[d] + 1 ELSE @[d]]]
  /\ End(s)
  /\ UNCHANGED <<transfers, posted, notice>>

-----------------------------------------------------------------------------
\* Finance writes dues directly, one statement each; an UPDATE or DELETE waits
\* for the row lock.
SetDue(d, from, to) ==
  /\ dueStatus[d] \in from
  /\ dueLock[d] = NULL
  /\ dueStatus' = [dueStatus EXCEPT ![d] = to]
  /\ UNCHANGED <<transfers, balance, posted, debited, notice, locks, call>>

\* Mutant: assigning a due again reopens a settled one.
AssignDueAgain(d) == SetDue(d, {"unassigned", "paid"}, "due")

AssignDue(d) == SetDue(d, {"unassigned"}, "due")
MarkDuePaid(d) == SetDue(d, {"due"}, "paid")
ReopenDue(d) == ReopenDues /\ SetDue(d, {"paid"}, "due")
DeleteDue(d) == SetDue(d, {"due", "paid"}, "deleted")

-----------------------------------------------------------------------------
\* A session that waits for row locks, and for whom.
WaitsFor(s) ==
  LET c == call[s]
      row == transfers[c.t]
      Holders(rows, holder) == {holder[x] : x \in rows} \ {NULL, s}
  IN CASE c.pc = "confirm" /\ row.due = NULL -> Holders({row.by}, walletLock)
       [] c.pc = "confirm" /\ row.due # NULL -> Holders({row.due}, dueLock)
       [] c.pc = "lock" /\ \A d \in c.todo : dueLock[d] # NULL
            -> Holders(c.todo, dueLock)
       [] c.pc = "debit" -> Holders({c.by}, walletLock)
       [] c.pc = "commit" -> Holders(c.want, dueLock)
       [] OTHER -> {}

\* Sessions that wait for nobody but each other, each in somebody's way: one
\* that only queues behind a cycle is not part of it.
Deadlocked(C) ==
  /\ C # {} /\ \A s \in C : WaitsFor(s) # {} /\ WaitsFor(s) \subseteq C
  /\ \A s \in C : \E u \in C : s \in WaitsFor(u)

\* Postgres's deadlock check cancels one of them.
DeadlockAbort(s) ==
  /\ \E C \in SUBSET Session : s \in C /\ Deadlocked(C)
  /\ Raise(s)

-----------------------------------------------------------------------------
Start(s) ==
  \/ \E p \in Profile, d \in Due \cup {NULL} : SubmitCheck(s, p, d)
  \/ \E t \in Transfer : ConfirmRead(s, t) \/ RejectRead(s, t) \/ ContestRead(s, t)
  \/ \E p \in Profile, D \in SUBSET Due : PayBegin(s, p, D)

Run(s) ==
  \/ SubmitInsert(s)
  \/ ConfirmTopup(s) \/ ConfirmDue(s) \/ ConfirmPost(s)
  \/ RejectWrite(s) \/ ContestWrite(s)
  \/ \E d \in Due : PayLockDue(s, d)
  \/ PayCount(s) \/ PayLockWallet(s) \/ PayCommit(s)

Finance(d) == AssignDue(d) \/ MarkDuePaid(d) \/ ReopenDue(d) \/ DeleteDue(d)

Next ==
  \/ \E s \in Session : Start(s) \/ Run(s) \/ Rollback(s) \/ DeadlockAbort(s)
  \/ \E d \in Due : Finance(d)

Spec == Init /\ [][Next]_vars

\* Lock queues are first come, first served, so a session whose lock is
\* released again and again gets it; the deadlock check always runs.  Callers
\* and finance owe nothing.
FairSpec ==
  /\ Spec
  /\ \A s \in Session : SF_vars(Run(s))
  /\ WF_vars(\E s \in Session : DeadlockAbort(s))

-----------------------------------------------------------------------------
\* The strengthening the proofs need, in two parts.  What the local variables
\* of a call mean, and why a wallet stays within 0..MaxInteger: whoever is
\* about to write it holds its lock since the balance was last compared.
CallOK(s) ==
  LET c == call[s]
  IN /\ c.pc = "submit" => c.by \in Profile
     /\ c.pc \in {"confirm", "post", "reject", "contest"} =>
          c.t \in Transfer /\ transfers[c.t] # NULL
     /\ c.pc \in {"lock", "debit", "commit"} => c.by \in Profile

WalletOK(s) ==
  LET c == call[s]
      row == transfers[c.t]
  IN /\ \A p \in Profile : walletLock[p] = s => c.pc \in {"post", "commit"}
     /\ c.pc = "commit" => /\ walletLock[c.by] = s
                           /\ DueTotal[c.want] <= balance[c.by]
     /\ c.pc = "post" /\ row.due = NULL =>
          /\ walletLock[row.by] = s
          /\ balance[row.by] + row.amount <= MaxInteger

MoneyInv == TypeOK /\ \A s \in Session : CallOK(s) /\ WalletOK(s)

\* If no due is ever reopened: a payment that has counted its dues holds all
\* their locks and they are unpaid; one still locking has yet to see, or has
\* locked, or can never pay each of them; a confirmation about to mark a due
\* paid holds its lock unless the due is gone; and a debited due stays paid.
DueOK(s) ==
  LET c == call[s]
      row == transfers[c.t]
  IN /\ \A d \in Due : dueLock[d] = s => c.pc \in {"post", "lock", "debit", "commit"}
     /\ c.pc = "lock" =>
          \A d \in c.want : /\ dueStatus[d] # "unassigned"
                            /\ \/ d \in c.todo
                               \/ dueLock[d] = s /\ Payable(c.by, d)
                               \/ dueStatus[d] \in {"paid", "deleted"}
                               \/ Owner[d] \notin Household[c.by]
     /\ c.pc \in {"debit", "commit"} =>
          \A d \in c.want : dueLock[d] = s /\ Payable(c.by, d)
     /\ c.pc = "post" /\ row.due # NULL =>
          dueLock[row.due] = s \/ dueStatus[row.due] = "deleted"
     /\ c.pc = "submit" /\ c.due # NULL => dueStatus[c.due] # "unassigned"

TransfersNameDues ==
  \A t \in Transfer :
    transfers[t] # NULL /\ transfers[t].due # NULL =>
      dueStatus[transfers[t].due] # "unassigned"

DebitedStayPaid ==
  \A p \in Profile, d \in Due : debited[p][d] > 0 => dueStatus[d] \in {"paid", "deleted"}

\* A payment locks only dues it asked for, and has yet to lock only such.
LockOK(s) ==
  At(s, "lock") =>
    /\ call[s].todo \subseteq call[s].want
    /\ \A d \in Due : dueLock[d] = s => d \in call[s].want \ call[s].todo

DuesInv == DebitedStayPaid /\ TransfersNameDues /\ \A s \in Session : DueOK(s)

\* No due is taken out of wallets twice, whoever of the household pays and
\* however the calls of pay_dues_from_wallet overlap.
DebitedOnce ==
  \A d \in Due : \A p, q \in Profile :
    /\ debited[p][d] <= 1
    /\ p # q => debited[p][d] = 0 \/ debited[q][d] = 0

\* A wallet is debited for a due only at a moment the due is unpaid: not after
\* a transfer for it was confirmed, not after finance marked it paid.
DebitsOnlyUnpaid ==
  [][\A p \in Profile, d \in Due :
       debited'[p][d] # debited[p][d] => dueStatus[d] = "due"]_vars

\* What the rows of wallet_transactions say of a wallet: confirm_transfer writes
\* the amount of a top-up, and minus the amount of a due paid by bank transfer;
\* pay_dues_from_wallet writes minus the total of the dues it pays.
TransferRows(p) ==
  [t \in Transfer |->
     IF transfers[t] = NULL \/ transfers[t].by # p THEN 0
     ELSE IF transfers[t].due = NULL THEN posted[t] * transfers[t].amount
     ELSE -(posted[t] * transfers[t].amount)]
Debits(p) == [d \in Due |-> debited[p][d] * DueAmount[d]]

\* The money of p that went by bank transfer to a due, past the wallet.
PaidOutside(p) ==
  [t \in Transfer |->
     IF transfers[t] = NULL \/ transfers[t].by # p \/ transfers[t].due = NULL THEN 0
     ELSE posted[t] * transfers[t].amount]

\* A wallet differs from the sum of its rows of wallet_transactions by exactly
\* the dues paid by bank transfer, whose rows confirm_transfer writes although
\* the wallet does not change: no update of a balance is lost however calls
\* overlap, and every other one has its row.  (A transfer that pays an order of
\* the marketplace has such a row too; those transfers are in Marketplace.)
BalanceMatchesLedger ==
  \A p \in Profile :
    balance[p] = SumFunction(TransferRows(p)) - SumFunction(Debits(p))
                 + SumFunction(PaidOutside(p))

\* A row that does not exist yet was not posted.
PostedRowsExist == \A t \in Transfer : transfers[t] = NULL => posted[t] = 0

LedgerInv == MoneyInv /\ PostedRowsExist /\ BalanceMatchesLedger

\* A due for which money was taken, from a wallet or by a confirmed transfer,
\* is paid for as long as the row exists.
SettledDueIsPaid ==
  \A d \in Due :
    \/ \E p \in Profile : debited[p][d] > 0
    \/ \E t \in Transfer : HasStatus(t, "confirmed") /\ transfers[t].due = d
    => dueStatus[d] \in {"paid", "deleted"}

\* The last thing a resident is told about a resolved transfer is its outcome,
\* also when the calls that resolved it overlapped.
NoticeTellsOutcome ==
  \A t \in Transfer :
    /\ HasStatus(t, "confirmed") => notice[t] = "transfer_confirmed"
    /\ HasStatus(t, "rejected") => notice[t] = "transfer_rejected"

\* Only payments of several dues at once ever deadlock: no lock order between
\* confirming a transfer, debiting a wallet and locking dues is circular.
OnlyBatchesDeadlock ==
  \A C \in SUBSET Session :
    Deadlocked(C) => \A s \in C : At(s, "lock") /\ \E d, e \in call[s].want : d # e

Atomic == INSTANCE AtomicDues
            WITH Profile <- Profile, Due <- Due, Household <- Household, Owner <- Owner,
                 DueTotal <- DueTotal, MaxInteger <- MaxInteger,
                 dueStatus <- dueStatus, balance <- balance, debited <- debited

\* "Atomically pays one or more of the caller's own unpaid dues": statement by
\* statement and lock by lock, the RPCs look like single steps on the dues,
\* the wallets and the debits.
ImplementsAtomicDues == Atomic!Spec

\* Every call returns, also one caught in a deadlock.
EveryCallReturns ==
  \A s \in Session : ~At(s, "idle") ~> At(s, "idle")

\* A transfer is posted just as often as its status says: once when confirmed,
\* else never.  True as long as no two calls are about one transfer at a time
\* (ResolvedAlone); ResolvedOK is what such a call then still knows of it.
ResolvedAlone ==
  \A s, u \in Session : s # u /\ call[s].t # NULL => call[s].t # call[u].t

PostedAsConfirmed ==
  \A t \in Transfer : posted[t] = IF HasStatus(t, "confirmed") THEN 1 ELSE 0

ResolvedOK(s) ==
  LET c == call[s]
  IN /\ c.pc \in {"confirm", "post", "reject"} => HasStatus(c.t, "pending")
     /\ c.pc = "contest" => HasStatus(c.t, "rejected")

ResolvedInv == PostedAsConfirmed /\ \A s \in Session : ResolvedOK(s)

\* Nobody is charged or credited twice: a transfer is posted once at most, and
\* a due is settled by one wallet debit or by one confirmed transfer.
ChargedOnce ==
  /\ \A t \in Transfer : posted[t] <= 1
  /\ \A d \in Due :
       LET confirmed == {t \in Transfer : HasStatus(t, "confirmed") /\ transfers[t].due = d}
       IN Cardinality(confirmed) + MapThenSumSet(LAMBDA p : debited[p][d], Profile) <= 1
=============================================================================
