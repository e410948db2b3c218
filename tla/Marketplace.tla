---------------------------- MODULE Marketplace ----------------------------
(***************************************************************************)
(* Listings, the orders that reserve them, and the bank transfers that pay *)
(* for orders.                                                             *)
(*                                                                         *)
(* As in Payments a session runs one READ COMMITTED transaction, one       *)
(* action per statement that others can come in between; its writes become *)
(* visible with its last action.  Only cancel_order keeps a row lock from  *)
(* one action to a later one, the lock of its order; the rows written by a *)
(* last statement are locked just for that statement.  Sellers and estate  *)
(* admins set the status of an order by hand; the order of the statuses is *)
(* enforced by their app alone, so that the database takes any of them.    *)
(***************************************************************************)
EXTENDS Naturals

CONSTANTS
  Session,        \* requests in progress
  Listing, Order, Transfer,   \* ids of rows
  Good,           \* the listings of type 'good'; the others are services
  SellerChoices,  \* what sellers set the status of their listings to by hand
  SuspendFrom,    \* the statuses from which finance suspends a listing
  NULL

ASSUME MarketplaceAssumption ==
  /\ NULL \notin Session \cup Listing \cup Order \cup Transfer
  /\ Good \subseteq Listing
  /\ SellerChoices \subseteq {"active", "sold", "removed"}
  /\ SuspendFrom \subseteq {"active", "sold", "removed"}

VARIABLES
  listings,     \* listings.status, "deleted" once the row is gone
  orders,       \* orders.status, "none" before the row exists
  item,         \* orders.listing_id
  transfers,    \* transfers.status, "none" before the row exists
  reference,    \* transfers.reference_id
  orderLock,    \* the session holding the row lock of an order
  call,         \* what each session is executing
  disturbed     \* history: the goods that met one of the cases Disturb names

tables == <<listings, orders, item, transfers, reference>>
vars == <<tables, orderLock, call, disturbed>>

-----------------------------------------------------------------------------
OrderStatus == {"pending_transfer", "paid", "completed", "cancelled"}

Call == [pc: {"idle", "place", "cancel", "keep", "relist",
              "submit", "confirm", "reject", "contest"},
         listing: Listing \cup {NULL},
         order: Order \cup {NULL},
         transfer: Transfer \cup {NULL}]

Local(pc, l, o, t) == [pc |-> pc, listing |-> l, order |-> o, transfer |-> t]
Idle == Local("idle", NULL, NULL, NULL)

TypeOK ==
  /\ listings \in [Listing -> {"active", "sold", "removed", "suspended", "deleted"}]
  /\ orders \in [Order -> OrderStatus \cup {"none", "deleted"}]
  /\ item \in [Order -> Listing \cup {NULL}]
  /\ transfers \in [Transfer -> {"none", "pending", "confirmed", "rejected"}]
  /\ reference \in [Transfer -> Order \cup {NULL}]
  /\ orderLock \in [Order -> Session \cup {NULL}]
  /\ call \in [Session -> Call]
  /\ disturbed \in [Listing -> BOOLEAN]

Init ==
  /\ listings = [l \in Listing |-> "active"]
  /\ orders = [o \in Order |-> "none"]
  /\ item = [o \in Order |-> NULL]
  /\ transfers = [t \in Transfer |-> "none"]
  /\ reference = [t \in Transfer |-> NULL]
  /\ orderLock = [o \in Order |-> NULL]
  /\ call = [s \in Session |-> Idle]
  /\ disturbed = [l \in Listing |-> FALSE]

-----------------------------------------------------------------------------
Exists(o) == orders[o] \in OrderStatus
Live(o) == orders[o] \in {"pending_transfer", "paid", "completed"}
LiveOrders(l) == {o \in Order : Live(o) /\ item[o] = l}
OpenFor(o) == {t \in Transfer : transfers[t] = "pending" /\ reference[t] = o}

At(s, pc) == call[s].pc = pc

Begin(s, c) == At(s, "idle") /\ call' = [call EXCEPT ![s] = c]

\* The end of a transaction, committed or rolled back: locks are released.
End(s) ==
  /\ call' = [call EXCEPT ![s] = Idle]
  /\ orderLock' = [o \in Order |-> IF orderLock[o] = s THEN NULL ELSE orderLock[o]]

Rollback(s) == ~At(s, "idle") /\ End(s) /\ UNCHANGED <<tables, disturbed>>

\* A step after which the code no longer keeps good l and its orders together,
\* if it is taken in the case named.
Disturb(l, case) == disturbed' = [disturbed EXCEPT ![l] = @ \/ (l \in Good /\ case)]

SetOrder(o, st) == orders' = [orders EXCEPT ![o] = st]

\* Mutant: the UPDATE does not look at the status.
MoveGoodAny(l, from, to) ==
  listings' = IF l \in Good THEN [listings EXCEPT ![l] = to] ELSE listings

\* UPDATE listings SET status = to WHERE type = 'good' AND status = from.
MoveGood(l, from, to) ==
  listings' = IF l \in Good /\ listings[l] = from
              THEN [listings EXCEPT ![l] = to] ELSE listings

-----------------------------------------------------------------------------
\* INSERT INTO orders: enforce_order_insert reads the listing without a lock;
\* the row goes in unless the listing is gone, and reserve_good_listing takes a
\* good that is still active.  A good that another order has come to hold since
\* the check is sold twice.  Bound: there are as many orders as ids.
PlaceCheck(s, l) ==
  /\ listings[l] = "active"
  /\ \E o \in Order : orders[o] = "none"
  /\ Begin(s, Local("place", l, NULL, NULL))
  /\ UNCHANGED <<tables, orderLock, disturbed>>

PlaceInsert(s) ==
  LET l == call[s].listing
  IN
  /\ At(s, "place")
  /\ listings[l] # "deleted"
  /\ \E o \in Order :
       /\ orders[o] = "none"
       /\ SetOrder(o, "pending_transfer")
       /\ item' = [item EXCEPT ![o] = l]
  /\ MoveGood(l, "active", "sold")
  /\ Disturb(l, LiveOrders(l) # {})
  /\ End(s)
  /\ UNCHANGED <<transfers, reference>>

\* Mutant: cancel_order selects the order without FOR UPDATE.
CancelUnlocked(s, o) ==
  /\ orders[o] = "pending_transfer"
  /\ Begin(s, Local("cancel", item[o], o, NULL))
  /\ UNCHANGED <<tables, orderLock, disturbed>>

\* cancel_order: lock the order; look, in the snapshot of the next UPDATE,
\* whether the good goes back on sale; if so, relist it provided it is sold at
\* the moment its row is locked; commit.
CancelLock(s, o) ==
  /\ orders[o] = "pending_transfer"
  /\ orderLock[o] = NULL
  /\ orderLock' = [orderLock EXCEPT ![o] = s]
  /\ Begin(s, Local("cancel", item[o], o, NULL))
  /\ UNCHANGED <<tables, disturbed>>

Relistable(l, o) == /\ l \in Good /\ listings[l] = "sold"
                    /\ LiveOrders(l) \subseteq {o}

CancelScan(s) ==
  /\ At(s, "cancel")
  /\ call' = [call EXCEPT ![s].pc =
                IF Relistable(call[s].listing, call[s].order) THEN "relist" ELSE "keep"]
  /\ UNCHANGED <<tables, orderLock, disturbed>>

CancelKeep(s) ==
  /\ At(s, "keep")
  /\ SetOrder(call[s].order, "cancelled")
  /\ End(s)
  /\ UNCHANGED <<listings, item, transfers, reference, disturbed>>

CancelRelist(s) ==
  /\ At(s, "relist")
  /\ SetOrder(call[s].order, "cancelled")
  /\ MoveGood(call[s].listing, "sold", "active")
  /\ End(s)
  /\ UNCHANGED <<item, transfers, reference, disturbed>>

\* The seller, or an admin who intervenes, sets the status of an order.  The
\* UPDATE waits for the row lock, looks at no status and leaves the listing
\* alone: it disturbs the good if the order begins or ceases to hold it.
EditOrder(o, st) ==
  /\ Exists(o) /\ orderLock[o] = NULL
  /\ SetOrder(o, st)
  /\ Disturb(item[o], Live(o) # (st # "cancelled"))
  /\ UNCHANGED <<listings, item, transfers, reference, orderLock, call>>

-----------------------------------------------------------------------------
\* A transfer for an order, checked and then inserted.  Bound: as many as ids.
SubmitCheck(s, o) ==
  /\ Exists(o) /\ OpenFor(o) = {}
  /\ \E t \in Transfer : transfers[t] = "none"
  /\ Begin(s, Local("submit", NULL, o, NULL))
  /\ UNCHANGED <<tables, orderLock, disturbed>>

SubmitInsert(s) ==
  /\ At(s, "submit")
  /\ \E t \in Transfer :
       /\ transfers[t] = "none"
       /\ transfers' = [transfers EXCEPT ![t] = "pending"]
       /\ reference' = [reference EXCEPT ![t] = call[s].order]
  /\ End(s)
  /\ UNCHANGED <<listings, orders, item, disturbed>>

\* confirm_transfer, reject_transfer and contest_transfer look at the transfer
\* without a lock and write later; the UPDATE of the order waits for its lock
\* and does not look at the status, and matches nothing if the row is gone.  An
\* order cancelled while its transfer waited comes back to life when that is
\* confirmed; when it is rejected, a good sold anew goes back on sale.
Review(s, t, from, pc) ==
  /\ transfers[t] = from
  /\ Begin(s, Local(pc, NULL, NULL, t))
  /\ UNCHANGED <<tables, orderLock, disturbed>>

ConfirmRead(s, t) == Review(s, t, "pending", "confirm")
RejectRead(s, t) == Review(s, t, "pending", "reject")
ContestRead(s, t) == Review(s, t, "rejected", "contest")

ConfirmWrite(s) ==
  LET t == call[s].transfer
      o == reference[t]
  IN
  /\ At(s, "confirm") /\ orderLock[o] = NULL
  /\ IF Exists(o) THEN SetOrder(o, "paid") ELSE UNCHANGED orders
  /\ transfers' = [transfers EXCEPT ![t] = "confirmed"]
  /\ Disturb(item[o], orders[o] = "cancelled")
  /\ End(s)
  /\ UNCHANGED <<listings, item, reference>>

RejectWrite(s) ==
  LET t == call[s].transfer
      o == reference[t]
  IN
  /\ At(s, "reject") /\ orderLock[o] = NULL
  /\ IF Exists(o)
     THEN SetOrder(o, "cancelled") /\ MoveGood(item[o], "sold", "active")
     ELSE UNCHANGED <<orders, listings>>
  /\ transfers' = [transfers EXCEPT ![t] = "rejected"]
  /\ Disturb(item[o], orders[o] = "cancelled" /\ LiveOrders(item[o]) # {})
  /\ End(s)
  /\ UNCHANGED <<item, reference>>

ContestWrite(s) ==
  /\ At(s, "contest")
  /\ transfers' = [transfers EXCEPT ![call[s].transfer] = "pending"]
  /\ End(s)
  /\ UNCHANGED <<listings, orders, item, reference, disturbed>>

-----------------------------------------------------------------------------
\* Single statements on listings.  The policy keeps sellers off a suspended
\* row; deleting a listing deletes its orders and waits for their locks.  A
\* status set against what the orders say disturbs, and so does marking a good
\* sold that a cancellation has decided to leave as it was.
Against(l, st) ==
  \/ st = "active" /\ LiveOrders(l) # {}
  \/ st = "sold" /\ LiveOrders(l) = {}
  \/ st = "sold" /\ \E s \in Session : At(s, "keep") /\ call[s].listing = l

SetListing(l, from, to) ==
  /\ listings[l] \in from
  /\ listings' = [listings EXCEPT ![l] = to]
  /\ Disturb(l, Against(l, to))
  /\ UNCHANGED <<orders, item, transfers, reference, orderLock, call>>

SellerSets(l, st) == SetListing(l, {"active", "sold", "removed"}, st)
Suspend(l) == SetListing(l, SuspendFrom, "suspended")
Reinstate(l) == \E st \in {"active"} \cup SellerChoices : SetListing(l, {"suspended"}, st)

DeleteListing(l) ==
  /\ listings[l] # "deleted"
  /\ \A o \in Order : item[o] = l => orderLock[o] = NULL
  /\ listings' = [listings EXCEPT ![l] = "deleted"]
  /\ orders' = [o \in Order |-> IF item[o] = l THEN "deleted" ELSE orders[o]]
  /\ UNCHANGED <<item, transfers, reference, orderLock, call, disturbed>>

-----------------------------------------------------------------------------
Start(s) ==
  \/ \E l \in Listing : PlaceCheck(s, l)
  \/ \E o \in Order : CancelLock(s, o) \/ SubmitCheck(s, o)
  \/ \E t \in Transfer : ConfirmRead(s, t) \/ RejectRead(s, t) \/ ContestRead(s, t)

Run(s) ==
  \/ PlaceInsert(s)
  \/ CancelScan(s) \/ CancelKeep(s) \/ CancelRelist(s)
  \/ SubmitInsert(s) \/ ConfirmWrite(s) \/ RejectWrite(s) \/ ContestWrite(s)

Desk(l) ==
  \/ \E st \in SellerChoices : SellerSets(l, st)
  \/ Suspend(l) \/ Reinstate(l) \/ DeleteListing(l)

Next ==
  \/ \E s \in Session : Start(s) \/ Run(s) \/ Rollback(s)
  \/ \E o \in Order, st \in OrderStatus : EditOrder(o, st)
  \/ \E l \in Listing : Desk(l)

Spec == Init /\ [][Next]_vars

-----------------------------------------------------------------------------
\* The strengthening: a session that is cancelling an order holds its lock and
\* the order is still awaiting transfer, and nobody else holds locks.
CancelOK(s) ==
  LET c == call[s]
  IN /\ c.pc \in {"cancel", "keep", "relist"} =>
          /\ c.order \in Order /\ orderLock[c.order] = s
          /\ orders[c.order] = "pending_transfer"
     /\ c.pc \in {"place", "cancel", "keep", "relist"} => c.listing \in Listing
     /\ c.pc = "submit" => c.order \in Order
     /\ c.pc \in {"confirm", "reject", "contest"} =>
          c.transfer \in Transfer /\ transfers[c.transfer] # "none"
     /\ \A o \in Order : orderLock[o] = s => c.pc \in {"cancel", "keep", "relist"} /\ c.order = o

RowsOK ==
  /\ \A o \in Order : Exists(o) => item[o] \in Listing
  /\ \A t \in Transfer : transfers[t] # "none" => reference[t] \in Order

CancelInv == TypeOK /\ RowsOK /\ \A s \in Session : CancelOK(s)

\* "Once it is paid it can no longer be cancelled here": whatever sellers, admins
\* and finance do to the order while cancel_order runs, an order that was paid or
\* completed becomes cancelled only when a transfer for it is rejected or its
\* seller or an admin cancels it by hand.
PaidIsNotCancelled ==
  [][\A o \in Order :
       orders[o] \in {"paid", "completed"} /\ orders'[o] = "cancelled" =>
         \/ \E s \in Session : RejectWrite(s) /\ reference[call[s].transfer] = o
         \/ EditOrder(o, "cancelled")]_vars

\* A suspended listing stays frozen until finance lifts the suspension: no
\* order, cancellation or rejected transfer in flight brings it back on sale.
SuspendedIsFrozen ==
  [][\A l \in Listing :
       listings[l] = "suspended" /\ listings'[l] \notin {"suspended", "deleted"} =>
         Reinstate(l)]_vars

\* One live order at most, which holds the good; a sold good has one.
MatchesOrders(l) ==
  /\ \A o, q \in LiveOrders(l) : o = q
  /\ LiveOrders(l) # {} => listings[l] # "active"
  /\ listings[l] = "sold" => LiveOrders(l) # {}

\* A good is bought once, is off the market for as long as an order holds it, and
\* is back on sale when that order is cancelled, however requests about it
\* overlap: cancellations of it with each other, with payment, rejection,
\* contest, suspension and deletion.  Only a good that met one of the cases
\* Disturb names is excepted: a placement after another order took the good, a
\* transfer resolved for an order that had been cancelled, a status set by hand
\* against the other table.
GoodMatchesOrders == \A l \in Good : disturbed[l] \/ MatchesOrders(l)

\* The strengthening of GoodMatchesOrders: rows keep what they refer to; a
\* cancellation is of an order for its listing; and a good it decided to leave
\* as it is has not become sold since.
ReferencesOK ==
  /\ \A o \in Order : orders[o] # "none" => item[o] \in Listing
  /\ \A t \in Transfer : transfers[t] # "none" => orders[reference[t]] # "none"

NamedOK(s) ==
  LET c == call[s]
  IN /\ c.pc \in {"cancel", "keep", "relist"} => c.listing = item[c.order]
     /\ c.pc = "submit" => orders[c.order] # "none"

KeepOK(s) ==
  LET l == call[s].listing
  IN At(s, "keep") /\ l \in Good /\ ~disturbed[l] => listings[l] # "sold"

GoodInv ==
  /\ CancelInv /\ ReferencesOK
  /\ \A s \in Session : NamedOK(s) /\ KeepOK(s)
  /\ GoodMatchesOrders
=============================================================================
