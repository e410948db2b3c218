------------------------- MODULE Marketplace_proofs -------------------------
(***************************************************************************)
(* Proofs about Marketplace: the row lock cancel_order takes first keeps   *)
(* its later statements from cancelling an order that was paid meanwhile.  *)
(* A good agrees with its orders however requests about it overlap, until  *)
(* it meets one of the cases in which the code itself lets go of that.     *)
(***************************************************************************)
EXTENDS Marketplace, TLAPS

-----------------------------------------------------------------------------
(* Local variables and locks at the start and the end of a transaction.    *)

LEMMA LocalType ==
  ASSUME NEW pc \in {"idle", "place", "cancel", "keep", "relist",
                     "submit", "confirm", "reject", "contest"},
         NEW l \in Listing \cup {NULL}, NEW o \in Order \cup {NULL},
         NEW t \in Transfer \cup {NULL}
  PROVE  Local(pc, l, o, t) \in Call
  BY DEF Local, Call

LEMMA IdleType == Idle \in Call /\ Idle.pc = "idle"
  BY LocalType DEF Idle, Local

LEMMA EndFacts ==
  ASSUME TypeOK, NEW s \in Session, End(s)
  PROVE  /\ call' \in [Session -> Call]
         /\ orderLock' \in [Order -> Session \cup {NULL}]
         /\ call'[s].pc = "idle"
         /\ \A u \in Session \ {s} : call'[u] = call[u]
         /\ \A o \in Order : orderLock'[o] # s
         /\ \A u \in Session \ {s}, o \in Order : orderLock'[o] = u <=> orderLock[o] = u
  BY IdleType, MarketplaceAssumption DEF TypeOK, End

LEMMA BeginFacts ==
  ASSUME TypeOK, NEW s \in Session, NEW c \in Call, Begin(s, c)
  PROVE  /\ call' \in [Session -> Call]
         /\ call'[s] = c
         /\ call[s].pc = "idle"
         /\ \A u \in Session \ {s} : call'[u] = call[u]
  BY DEF TypeOK, Begin, At

\* A good is disturbed for good, in the case named, and no other listing is.
LEMMA DisturbFacts ==
  ASSUME TypeOK, NEW l \in Listing, NEW case \in BOOLEAN, Disturb(l, case)
  PROVE  /\ disturbed' \in [Listing -> BOOLEAN]
         /\ \A m \in Listing : disturbed[m] => disturbed'[m]
         /\ \A m \in Listing \ {l} : disturbed'[m] = disturbed[m]
         /\ l \in Good => (disturbed'[l] <=> disturbed[l] \/ case)
<1> DEFINE b == disturbed[l] \/ (l \in Good /\ case)
<1>1. b \in BOOLEAN
  OBVIOUS
<1>2. disturbed' = [disturbed EXCEPT ![l] = b]
  BY DEF Disturb
<1>3. disturbed \in [Listing -> BOOLEAN]
  BY DEF TypeOK
<1>4. b <=> disturbed[l] \/ (l \in Good /\ case)
  OBVIOUS
<1> HIDE DEF b
<1>5. disturbed' \in [Listing -> BOOLEAN]
  BY <1>1, <1>2, <1>3, Zenon
<1>6. disturbed'[l] = b /\ \A m \in Listing \ {l} : disturbed'[m] = disturbed[m]
  BY <1>2, <1>3, Zenon
<1>7. l \in Good => (disturbed'[l] <=> disturbed[l] \/ case)
  BY <1>4, <1>6
<1>8. ASSUME NEW m \in Listing, disturbed[m] PROVE disturbed'[m]
  <2>1. CASE m = l
    BY <1>4, <1>6, <1>8, <2>1
  <2>2. CASE m # l
    BY <1>6, <1>8, <2>2
  <2>. QED  BY <2>1, <2>2
<1>. QED  BY <1>5, <1>6, <1>7, <1>8

-----------------------------------------------------------------------------
(* The invariant of cancel_order.                                          *)

\* A session keeps its invariant through the steps of others that leave its
\* locks and the orders it has locked alone and remove no transfer.
LEMMA Frame ==
  ASSUME NEW u \in Session, CancelOK(u), call'[u] = call[u],
         \A o \in Order : orderLock'[o] = u <=> orderLock[o] = u,
         \A o \in Order : orderLock[o] = u => orders'[o] = orders[o],
         \A t \in Transfer : transfers[t] # "none" => transfers'[t] # "none"
  PROVE  CancelOK(u)'
  BY DEF CancelOK

\* A transaction that commits writes only to orders nobody else has locked.
LEMMA EndInv ==
  ASSUME CancelInv, NEW s \in Session, End(s), RowsOK',
         listings' \in [Listing -> {"active", "sold", "removed", "suspended", "deleted"}],
         orders' \in [Order -> OrderStatus \cup {"none", "deleted"}],
         item' \in [Order -> Listing \cup {NULL}],
         transfers' \in [Transfer -> {"none", "pending", "confirmed", "rejected"}],
         reference' \in [Transfer -> Order \cup {NULL}],
         disturbed' \in [Listing -> BOOLEAN],
         \A o \in Order : orders'[o] # orders[o] =>
           orderLock[o] \in {s, NULL} \/ orders[o] = "none",
         \A t \in Transfer : transfers[t] # "none" => transfers'[t] # "none"
  PROVE  CancelInv'
<1> USE MarketplaceAssumption
<1>1. TypeOK'
  BY EndFacts DEF CancelInv, TypeOK
<1>2. CancelOK(s)'
  BY EndFacts DEF CancelInv, CancelOK
<1>3. ASSUME NEW u \in Session \ {s} PROVE CancelOK(u)'
  <2>1. \A o \in Order : orderLock[o] = u => orders'[o] = orders[o]
    BY DEF CancelInv, CancelOK
  <2>. QED  BY <2>1, Frame, EndFacts DEF CancelInv
<1>. QED  BY <1>1, <1>2, <1>3 DEF CancelInv

LEMMA InitInv == Init => CancelInv
<1> SUFFICES ASSUME Init PROVE CancelInv
  OBVIOUS
<1> USE MarketplaceAssumption
<1>1. TypeOK
  BY IdleType DEF Init, TypeOK
<1>2. RowsOK
  BY DEF Init, RowsOK, Exists, OrderStatus
<1>3. ASSUME NEW s \in Session PROVE CancelOK(s)
  BY IdleType DEF Init, CancelOK
<1>. QED  BY <1>1, <1>2, <1>3 DEF CancelInv

LEMMA StartInv ==
  ASSUME CancelInv, NEW s \in Session, Start(s)
  PROVE  CancelInv'
<1> USE MarketplaceAssumption
<1>1. ASSUME NEW c \in Call, Begin(s, c), UNCHANGED <<tables, disturbed>>,
             orderLock' \in [Order -> Session \cup {NULL}],
             \A u \in Session \ {s}, o \in Order : orderLock'[o] = u <=> orderLock[o] = u,
             CancelOK(s)'
      PROVE  CancelInv'
  <2>1. TypeOK' /\ RowsOK'
    BY <1>1, BeginFacts DEF CancelInv, TypeOK, RowsOK, Exists, tables
  <2>2. ASSUME NEW u \in Session \ {s} PROVE CancelOK(u)'
    BY <1>1, Frame, BeginFacts DEF CancelInv, tables
  <2>. QED  BY <1>1, <2>1, <2>2 DEF CancelInv
<1>2. ASSUME NEW c \in Call, Begin(s, c), UNCHANGED <<tables, orderLock, disturbed>>,
             c.pc \in {"place", "submit", "confirm", "reject", "contest"},
             c.pc = "place" => c.listing \in Listing,
             c.pc = "submit" => c.order \in Order,
             c.pc \in {"confirm", "reject", "contest"} =>
               c.transfer \in Transfer /\ transfers[c.transfer] # "none"
      PROVE  CancelInv'
  <2>1. TypeOK /\ CancelOK(s)
    BY DEF CancelInv
  <2>2. CancelOK(s)'
    BY <1>2, <2>1, BeginFacts DEF CancelOK, tables
  <2>. QED  BY <1>1, <1>2, <2>1, <2>2 DEF TypeOK
<1>3. ASSUME NEW l \in Listing, PlaceCheck(s, l) PROVE CancelInv'
  BY <1>2, <1>3, LocalType DEF PlaceCheck, Local
<1>4. ASSUME NEW o \in Order, CancelLock(s, o) PROVE CancelInv'
  <2> DEFINE c == Local("cancel", item[o], o, NULL)
  <2>1. /\ c \in Call /\ c.pc = "cancel" /\ c.order = o /\ c.listing = item[o]
        /\ item[o] \in Listing
    BY <1>4, LocalType DEF CancelLock, CancelInv, RowsOK, Exists, OrderStatus, Local
  <2>2. /\ Begin(s, c) /\ UNCHANGED <<tables, disturbed>> /\ orderLock[o] = NULL
        /\ orders[o] = "pending_transfer"
        /\ orderLock' = [orderLock EXCEPT ![o] = s]
    BY <1>4 DEF CancelLock
  <2>3. /\ orderLock' \in [Order -> Session \cup {NULL}]
        /\ \A u \in Session \ {s}, q \in Order : orderLock'[q] = u <=> orderLock[q] = u
        /\ \A q \in Order : orderLock'[q] = s => q = o
    BY <2>2, BeginFacts, <2>1 DEF CancelInv, TypeOK, CancelOK
  <2>4. CancelOK(s)'
    BY <2>1, <2>2, <2>3, BeginFacts DEF CancelInv, TypeOK, CancelOK, tables
  <2>. QED  BY <1>1, <2>1, <2>2, <2>3, <2>4
<1>5. ASSUME NEW o \in Order, SubmitCheck(s, o) PROVE CancelInv'
  BY <1>2, <1>5, LocalType DEF SubmitCheck, Local
<1>6. ASSUME NEW t \in Transfer, ConfirmRead(s, t) \/ RejectRead(s, t) \/ ContestRead(s, t)
      PROVE  CancelInv'
  BY <1>2, <1>6, LocalType DEF ConfirmRead, RejectRead, ContestRead, Review, Local
<1>. QED  BY <1>3, <1>4, <1>5, <1>6 DEF Start

\* The statements of running transactions, those on an order and those on a
\* transfer.
LEMMA OrderStepInv ==
  ASSUME CancelInv, NEW s \in Session,
         PlaceInsert(s) \/ CancelKeep(s) \/ CancelRelist(s)
  PROVE  CancelInv'
<1> USE MarketplaceAssumption
<1>1. CASE PlaceInsert(s)
  <2>1. call[s].listing \in Listing
    BY <1>1 DEF PlaceInsert, At, CancelInv, CancelOK
  <2>2. PICK o \in Order : /\ orders[o] = "none"
                           /\ orders' = [orders EXCEPT ![o] = "pending_transfer"]
                           /\ item' = [item EXCEPT ![o] = call[s].listing]
    BY <1>1 DEF PlaceInsert, SetOrder
  <2>3. RowsOK'
    BY <1>1, <2>1, <2>2 DEF PlaceInsert, CancelInv, TypeOK, RowsOK, Exists
  <2>4. disturbed' \in [Listing -> BOOLEAN]
    BY <1>1, <2>1, DisturbFacts DEF PlaceInsert, CancelInv
  <2>. QED
    BY <1>1, <2>1, <2>2, <2>3, <2>4, EndInv
       DEF PlaceInsert, MoveGood, CancelInv, TypeOK, OrderStatus
<1>2. CASE CancelKeep(s) \/ CancelRelist(s)
  <2>1. /\ call[s].order \in Order /\ call[s].listing \in Listing
        /\ orderLock[call[s].order] = s
        /\ orders[call[s].order] = "pending_transfer"
    BY <1>2 DEF CancelKeep, CancelRelist, At, CancelInv, CancelOK
  <2>2. RowsOK'
    BY <1>2, <2>1 DEF CancelKeep, CancelRelist, SetOrder, CancelInv, TypeOK, RowsOK,
       Exists, OrderStatus
  <2>. QED
    BY <1>2, <2>1, <2>2, EndInv
       DEF CancelKeep, CancelRelist, SetOrder, MoveGood, CancelInv, TypeOK, OrderStatus
<1>. QED  BY <1>1, <1>2

LEMMA TransferStepInv ==
  ASSUME CancelInv, NEW s \in Session,
         SubmitInsert(s) \/ ConfirmWrite(s) \/ RejectWrite(s) \/ ContestWrite(s)
  PROVE  CancelInv'
<1> DEFINE t == call[s].transfer
           o == reference[t]
<1> USE MarketplaceAssumption
<1>1. CASE SubmitInsert(s)
  <2>1. call[s].order \in Order
    BY <1>1 DEF SubmitInsert, At, CancelInv, CancelOK
  <2>2. PICK x \in Transfer : /\ transfers' = [transfers EXCEPT ![x] = "pending"]
                              /\ reference' = [reference EXCEPT ![x] = call[s].order]
    BY <1>1 DEF SubmitInsert
  <2>3. RowsOK'
    BY <1>1, <2>1, <2>2 DEF SubmitInsert, CancelInv, TypeOK, RowsOK, Exists
  <2>. QED  BY <1>1, <2>1, <2>2, <2>3, EndInv DEF SubmitInsert, CancelInv, TypeOK
<1>2. CASE ConfirmWrite(s)
  <2>1. t \in Transfer /\ o \in Order
    BY <1>2 DEF ConfirmWrite, At, CancelInv, CancelOK, RowsOK
  <2>2. RowsOK'
    BY <1>2, <2>1 DEF ConfirmWrite, SetOrder, CancelInv, TypeOK, RowsOK, Exists
  <2>3. disturbed' \in [Listing -> BOOLEAN]
    <3>1. CASE item[o] \in Listing
      BY <1>2, <3>1, DisturbFacts DEF ConfirmWrite, CancelInv
    <3>2. CASE item[o] \notin Listing
      BY <1>2, <3>2 DEF ConfirmWrite, Disturb, CancelInv, TypeOK
    <3>. QED  BY <3>1, <3>2
  <2>. QED
    BY <1>2, <2>1, <2>2, <2>3, EndInv DEF ConfirmWrite, SetOrder, CancelInv, TypeOK, OrderStatus
<1>3. CASE RejectWrite(s)
  <2>1. t \in Transfer /\ o \in Order
    BY <1>3 DEF RejectWrite, At, CancelInv, CancelOK, RowsOK
  <2>2. RowsOK'
    BY <1>3, <2>1 DEF RejectWrite, SetOrder, CancelInv, TypeOK, RowsOK, Exists
  <2>3. disturbed' \in [Listing -> BOOLEAN]
    <3>1. CASE item[o] \in Listing
      BY <1>3, <3>1, DisturbFacts DEF RejectWrite, CancelInv
    <3>2. CASE item[o] \notin Listing
      BY <1>3, <3>2 DEF RejectWrite, Disturb, CancelInv, TypeOK
    <3>. QED  BY <3>1, <3>2
  <2>. QED
    BY <1>3, <2>1, <2>2, <2>3, EndInv
       DEF RejectWrite, SetOrder, MoveGood, CancelInv, TypeOK, OrderStatus
<1>4. CASE ContestWrite(s)
  <2>1. t \in Transfer /\ o \in Order
    BY <1>4 DEF ContestWrite, At, CancelInv, CancelOK, RowsOK
  <2>2. RowsOK'
    BY <1>4, <2>1 DEF ContestWrite, CancelInv, TypeOK, RowsOK, Exists
  <2>. QED  BY <1>4, <2>1, <2>2, EndInv DEF ContestWrite, CancelInv, TypeOK
<1>. QED  BY <1>1, <1>2, <1>3, <1>4

LEMMA ScanInv ==
  ASSUME CancelInv, NEW s \in Session, CancelScan(s)
  PROVE  CancelInv'
<1> DEFINE pc == IF Relistable(call[s].listing, call[s].order) THEN "relist" ELSE "keep"
           c == [call[s] EXCEPT !.pc = pc]
<1>1. call[s] \in Call /\ call[s].pc = "cancel" /\ UNCHANGED <<tables, orderLock, disturbed>>
  BY DEF CancelScan, At, CancelInv, TypeOK
<1>2. /\ c \in Call /\ c.pc \in {"relist", "keep"}
      /\ c.order = call[s].order /\ c.listing = call[s].listing
  BY <1>1 DEF Call
<1>3. call' = [call EXCEPT ![s] = c]
  BY DEF CancelScan
<1> HIDE DEF c
<1>4. /\ call' \in [Session -> Call] /\ call'[s] = c
      /\ \A u \in Session \ {s} : call'[u] = call[u]
  BY <1>2, <1>3 DEF CancelInv, TypeOK
<1>5. TypeOK' /\ RowsOK'
  BY <1>1, <1>4 DEF CancelInv, TypeOK, RowsOK, Exists, tables
<1>6. CancelOK(s)'
  BY <1>1, <1>2, <1>4 DEF CancelInv, CancelOK, tables
<1>7. ASSUME NEW u \in Session \ {s} PROVE CancelOK(u)'
  BY <1>1, <1>4, Frame DEF CancelInv, tables
<1>. QED  BY <1>5, <1>6, <1>7 DEF CancelInv

LEMMA EditInv ==
  ASSUME CancelInv, NEW o \in Order, NEW st \in OrderStatus, EditOrder(o, st)
  PROVE  CancelInv'
<1> USE MarketplaceAssumption
<1>1. /\ orders' = [orders EXCEPT ![o] = st] /\ Exists(o) /\ orderLock[o] = NULL
      /\ UNCHANGED <<listings, item, transfers, reference, orderLock, call>>
  BY DEF EditOrder, SetOrder
<1>2. item[o] \in Listing
  BY <1>1 DEF CancelInv, RowsOK
<1>3. disturbed' \in [Listing -> BOOLEAN]
  BY <1>2, DisturbFacts DEF EditOrder, CancelInv
<1>4. TypeOK' /\ RowsOK'
  BY <1>1, <1>3 DEF CancelInv, TypeOK, RowsOK, Exists
<1>5. ASSUME NEW u \in Session PROVE CancelOK(u)'
  <2>1. \A q \in Order : orderLock[q] = u => orders'[q] = orders[q]
    BY <1>1 DEF CancelInv, TypeOK
  <2>. QED  BY <1>1, <2>1, Frame DEF CancelInv
<1>. QED  BY <1>4, <1>5 DEF CancelInv

LEMMA DeskInv ==
  ASSUME CancelInv, NEW l \in Listing, Desk(l)
  PROVE  CancelInv'
<1> USE MarketplaceAssumption
<1>1. /\ listings' \in [Listing -> {"active", "sold", "removed", "suspended", "deleted"}]
      /\ orders' \in [Order -> OrderStatus \cup {"none", "deleted"}]
      /\ UNCHANGED <<item, transfers, reference, orderLock, call>>
      /\ \A o \in Order : orders'[o] # orders[o] =>
           orders'[o] = "deleted" /\ orderLock[o] = NULL
  BY DEF Desk, SellerSets, Suspend, Reinstate, SetListing, DeleteListing,
         CancelInv, TypeOK
<1>2. disturbed' \in [Listing -> BOOLEAN]
  <2>1. ASSUME NEW from, NEW to, SetListing(l, from, to)
        PROVE  disturbed' \in [Listing -> BOOLEAN]
    BY <2>1, DisturbFacts DEF SetListing, Against, CancelInv
  <2>2. ASSUME DeleteListing(l) PROVE disturbed' \in [Listing -> BOOLEAN]
    BY <2>2 DEF DeleteListing, CancelInv, TypeOK
  <2>. QED  BY <2>1, <2>2 DEF Desk, SellerSets, Suspend, Reinstate
<1>3. TypeOK' /\ RowsOK'
  BY <1>1, <1>2 DEF CancelInv, TypeOK, RowsOK, Exists, OrderStatus
<1>4. ASSUME NEW u \in Session PROVE CancelOK(u)'
  BY <1>1, Frame DEF CancelInv
<1>. QED  BY <1>3, <1>4 DEF CancelInv

LEMMA CancelStep == CancelInv /\ [Next]_vars => CancelInv'
<1> SUFFICES ASSUME CancelInv, [Next]_vars PROVE CancelInv'
  OBVIOUS
<1>1. ASSUME NEW s \in Session, Start(s) PROVE CancelInv'
  BY <1>1, StartInv
<1>2. ASSUME NEW s \in Session, Run(s) PROVE CancelInv'
  BY <1>2, OrderStepInv, TransferStepInv, ScanInv DEF Run
<1>3. ASSUME NEW s \in Session, Rollback(s) PROVE CancelInv'
  <2>1. RowsOK'
    BY <1>3 DEF Rollback, tables, CancelInv, RowsOK, Exists
  <2>. QED  BY <1>3, <2>1, EndInv DEF Rollback, tables, CancelInv, TypeOK
<1>4. ASSUME NEW l \in Listing, Desk(l) PROVE CancelInv'
  BY <1>4, DeskInv
<1>5. ASSUME NEW o \in Order, NEW st \in OrderStatus, EditOrder(o, st) PROVE CancelInv'
  BY <1>5, EditInv
<1>6. CASE UNCHANGED vars
  BY <1>6 DEF vars, tables, CancelInv, TypeOK, RowsOK, Exists, CancelOK
<1>. QED  BY <1>1, <1>2, <1>3, <1>4, <1>5, <1>6 DEF Next

LEMMA CancelCorrect == Spec => []CancelInv
  BY InitInv, CancelStep, PTL DEF Spec

-----------------------------------------------------------------------------
\* No request, however it overlaps with others, leaves a status, a reference or
\* a lock outside what its column admits.
THEOREM TypeCorrect == Spec => []TypeOK
<1>1. CancelInv => TypeOK
  BY DEF CancelInv
<1>. QED  BY CancelCorrect, <1>1, PTL

\* For any number of sessions, orders and transfers, an order that was paid or
\* completed is cancelled only by rejecting a transfer for it or by hand:
\* cancel_order, which checks the status two statements before it commits,
\* never does it.
THEOREM PaidIsNotCancelledCorrect == Spec => PaidIsNotCancelled
<1> DEFINE Kept == \A o \in Order :
             orders[o] \in {"paid", "completed"} /\ orders'[o] = "cancelled" =>
               \/ \E s \in Session : RejectWrite(s) /\ reference[call[s].transfer] = o
               \/ EditOrder(o, "cancelled")
<1>1. ASSUME CancelInv, [Next]_vars, NEW o \in Order,
             orders[o] \in {"paid", "completed"}, orders'[o] = "cancelled"
      PROVE  \/ \E s \in Session : RejectWrite(s) /\ reference[call[s].transfer] = o
             \/ EditOrder(o, "cancelled")
  <2>1. orders' # orders
    BY <1>1
  <2>2. ~\E s \in Session : Start(s) \/ Rollback(s)
    BY <2>1 DEF Start, PlaceCheck, CancelLock, SubmitCheck, ConfirmRead,
       RejectRead, ContestRead, Review, Rollback, tables
  <2>3. ASSUME NEW l \in Listing, Desk(l) PROVE FALSE
    BY <1>1, <2>3 DEF Desk, SellerSets, Suspend, Reinstate, SetListing, DeleteListing,
       CancelInv, TypeOK
  <2>4. ASSUME NEW q \in Order, NEW st \in OrderStatus, EditOrder(q, st)
        PROVE  EditOrder(o, "cancelled")
    <3>1. orders' = [orders EXCEPT ![q] = st]
      BY <2>4 DEF EditOrder, SetOrder
    <3>2. q = o /\ st = "cancelled"
      BY <1>1, <3>1 DEF CancelInv, TypeOK
    <3>. QED  BY <2>4, <3>2
  <2>5. ASSUME NEW s \in Session, Run(s)
        PROVE  RejectWrite(s) /\ reference[call[s].transfer] = o
    <3>1. ~PlaceInsert(s)
      BY <1>1 DEF PlaceInsert, SetOrder, CancelInv, TypeOK
    <3>2. ~CancelKeep(s) /\ ~CancelRelist(s)
      BY <1>1 DEF CancelKeep, CancelRelist, SetOrder, At, CancelInv, CancelOK, TypeOK
    <3>3. ~ConfirmWrite(s)
      BY <1>1 DEF ConfirmWrite, SetOrder, CancelInv, TypeOK
    <3>4. ~CancelScan(s) /\ ~SubmitInsert(s) /\ ~ContestWrite(s)
      BY <2>1 DEF CancelScan, SubmitInsert, ContestWrite, tables
    <3>5. RejectWrite(s)
      BY <2>5, <3>1, <3>2, <3>3, <3>4 DEF Run
    <3>6. reference[call[s].transfer] = o
      BY <1>1, <2>1, <3>5 DEF RejectWrite, SetOrder, CancelInv, TypeOK
    <3>. QED  BY <3>5, <3>6
  <2>. QED  BY <1>1, <2>1, <2>2, <2>3, <2>4, <2>5 DEF Next, vars, tables
<1>2. CancelInv /\ [Next]_vars => [Kept]_vars
  BY <1>1
<1>. QED  BY CancelCorrect, <1>2, PTL DEF Spec, PaidIsNotCancelled

\* A suspended listing is frozen for any number of requests in flight: what an
\* order writes to a listing it writes only from active or sold.
THEOREM SuspendedIsFrozenCorrect == Spec => SuspendedIsFrozen
<1> DEFINE Kept == \A l \in Listing :
             listings[l] = "suspended" /\ listings'[l] \notin {"suspended", "deleted"} =>
               Reinstate(l)
<1>1. ASSUME CancelInv, [Next]_vars, NEW l \in Listing, listings[l] = "suspended",
             listings'[l] \notin {"suspended", "deleted"}
      PROVE  Reinstate(l)
  <2>0. TypeOK /\ listings' # listings
    BY <1>1 DEF CancelInv
  <2>1. ASSUME NEW m, NEW from \in {"active", "sold"}, NEW to, MoveGood(m, from, to)
        PROVE  FALSE
    BY <1>1, <2>0, <2>1 DEF MoveGood, TypeOK
  <2>2. ~\E s \in Session : Start(s) \/ Run(s) \/ Rollback(s)
    <3>1. ~\E s \in Session : Start(s) \/ Rollback(s)
      BY <2>0 DEF Start, PlaceCheck, CancelLock, SubmitCheck, ConfirmRead,
         RejectRead, ContestRead, Review, Rollback, tables
    <3>2. ASSUME NEW s \in Session, PlaceInsert(s) \/ CancelRelist(s) PROVE FALSE
      BY <2>1, <3>2 DEF PlaceInsert, CancelRelist
    <3>3. ASSUME NEW s \in Session, RejectWrite(s) PROVE FALSE
      BY <2>0, <2>1, <3>3 DEF RejectWrite
    <3>4. ~\E s \in Session : \/ CancelScan(s) \/ CancelKeep(s) \/ SubmitInsert(s)
                               \/ ConfirmWrite(s) \/ ContestWrite(s)
      BY <2>0 DEF CancelScan, CancelKeep, SubmitInsert, ConfirmWrite,
         ContestWrite, tables
    <3>. QED  BY <3>1, <3>2, <3>3, <3>4 DEF Run
  <2>3. PICK m \in Listing : Desk(m)
    BY <1>1, <2>0, <2>2 DEF Next, vars, tables, EditOrder
  <2>4. ~SellerSets(m, "active") /\ ~SellerSets(m, "sold") /\ ~SellerSets(m, "removed")
    BY <1>1, <2>0 DEF SellerSets, SetListing, TypeOK
  <2>5. ~Suspend(m) /\ ~DeleteListing(m)
    BY <1>1, <2>0 DEF Suspend, SetListing, DeleteListing, TypeOK
  <2>6. Reinstate(m)
    BY <2>3, <2>4, <2>5, MarketplaceAssumption DEF Desk
  <2>7. m = l
    BY <1>1, <2>0, <2>6 DEF Reinstate, SetListing, TypeOK
  <2>. QED  BY <2>6, <2>7
<1>2. CancelInv /\ [Next]_vars => [Kept]_vars
  BY <1>1
<1>. QED  BY CancelCorrect, <1>2, PTL DEF Spec, SuspendedIsFrozen

-----------------------------------------------------------------------------
(* Goods and their orders.                                                 *)

\* What a step that keeps references does to a call it does not touch.
KeepsRows ==
  /\ \A o \in Order : orders[o] # "none" => orders'[o] # "none" /\ item'[o] = item[o]
  /\ \A t \in Transfer : transfers[t] # "none" =>
       transfers'[t] # "none" /\ reference'[t] = reference[t]

LEMMA NamedKept ==
  ASSUME GoodInv, KeepsRows, NEW u \in Session, call'[u] = call[u]
  PROVE  NamedOK(u)'
<1>1. CancelOK(u) /\ NamedOK(u)
  BY DEF GoodInv, CancelInv
<1>. QED  BY <1>1 DEF CancelOK, NamedOK, KeepsRows

\* A session about to keep a good as it is finds it so as long as no step makes
\* that good sold without disturbing it.
LEMMA KeepKept ==
  ASSUME GoodInv, NEW u \in Session, call'[u] = call[u],
         \A l \in Good : disturbed[l] => disturbed'[l],
         \A l \in Good : listings'[l] = "sold" /\ ~disturbed'[l] /\ At(u, "keep")
                         /\ call[u].listing = l => listings[l] = "sold"
  PROVE  KeepOK(u)'
<1>1. KeepOK(u)
  BY DEF GoodInv
<1>. QED  BY <1>1 DEF KeepOK, At

\* A step at the end of which one listing, with its orders, has changed at most.
LEMMA GoodFrame ==
  ASSUME GoodInv, NEW m \in Listing,
         \A l \in Listing \ {m} : disturbed'[l] = disturbed[l],
         \A l \in Listing \ {m} : listings'[l] = listings[l],
         \A o \in Order : orders'[o] # orders[o] \/ item'[o] # item[o] =>
           item'[o] = m /\ (item[o] = m \/ orders[o] = "none"),
         m \in Good /\ ~disturbed'[m] => MatchesOrders(m)'
  PROVE  GoodMatchesOrders'
<1> SUFFICES ASSUME NEW l \in Good, ~disturbed'[l] PROVE MatchesOrders(l)'
  BY DEF GoodMatchesOrders
<1>1. CASE l = m
  BY <1>1
<1>2. CASE l # m
  <2>1. ~disturbed[l] /\ listings'[l] = listings[l]
    BY <1>2, MarketplaceAssumption
  <2>2. LiveOrders(l)' = LiveOrders(l)
    BY <1>2 DEF LiveOrders, Live
  <2>3. MatchesOrders(l)
    BY <2>1 DEF GoodInv, GoodMatchesOrders
  <2>. QED  BY <2>1, <2>2, <2>3 DEF MatchesOrders
<1>. QED  BY <1>1, <1>2

\* A step that leaves listings, orders and the history alone.
LEMMA QuietGood ==
  ASSUME GoodInv, CancelInv', NEW s \in Session,
         UNCHANGED <<listings, orders, item, disturbed>>,
         KeepsRows, ReferencesOK', NamedOK(s)', KeepOK(s)',
         \A u \in Session \ {s} : call'[u] = call[u]
  PROVE  GoodInv'
<1>1. GoodMatchesOrders'
  BY DEF GoodInv, GoodMatchesOrders, MatchesOrders, LiveOrders, Live
<1>2. ASSUME NEW u \in Session PROVE NamedOK(u)' /\ KeepOK(u)'
  <2>1. CASE u = s
    BY <2>1
  <2>2. CASE u # s
    BY <2>2, NamedKept, KeepKept
  <2>. QED  BY <2>1, <2>2
<1>. QED  BY <1>1, <1>2 DEF GoodInv

LEMMA StartGood ==
  ASSUME GoodInv, NEW s \in Session, Start(s), CancelInv'
  PROVE  GoodInv'
<1>0. TypeOK /\ RowsOK
  BY DEF GoodInv, CancelInv
<1> SUFFICES ASSUME NEW c \in Call, Begin(s, c), UNCHANGED <<tables, disturbed>>,
                    c.pc \in {"place", "cancel", "submit", "confirm", "reject", "contest"},
                    c.pc = "cancel" => c.listing = item[c.order],
                    c.pc = "submit" => orders[c.order] # "none"
             PROVE  GoodInv'
  <2>1. ASSUME NEW l \in Listing, PlaceCheck(s, l) PROVE GoodInv'
    BY <2>1, LocalType DEF PlaceCheck, Local
  <2>2. ASSUME NEW o \in Order, CancelLock(s, o) PROVE GoodInv'
    <3> DEFINE c == Local("cancel", item[o], o, NULL)
    <3>1. c \in Call /\ c.pc = "cancel" /\ c.listing = item[o] /\ c.order = o
      BY <1>0, <2>2, LocalType DEF CancelLock, RowsOK, Exists, OrderStatus, Local
    <3>2. Begin(s, c) /\ UNCHANGED <<tables, disturbed>>
      BY <2>2 DEF CancelLock
    <3> HIDE DEF c
    <3>. QED  BY <3>1, <3>2
  <2>3. ASSUME NEW o \in Order, SubmitCheck(s, o) PROVE GoodInv'
    BY <2>3, LocalType DEF SubmitCheck, Local, Exists, OrderStatus
  <2>4. ASSUME NEW t \in Transfer, ConfirmRead(s, t) \/ RejectRead(s, t) \/ ContestRead(s, t)
        PROVE  GoodInv'
    BY <2>4, LocalType DEF ConfirmRead, RejectRead, ContestRead, Review, Local
  <2>. QED  BY <2>1, <2>2, <2>3, <2>4 DEF Start
<1>1. call'[s] = c /\ \A u \in Session \ {s} : call'[u] = call[u]
  BY <1>0, BeginFacts
<1>2. KeepsRows /\ ReferencesOK'
  BY DEF KeepsRows, tables, GoodInv, ReferencesOK
<1>3. NamedOK(s)' /\ KeepOK(s)'
  BY <1>1 DEF NamedOK, KeepOK, At, tables
<1>. QED  BY <1>1, <1>2, <1>3, QuietGood DEF tables

\* The end of a transaction that leaves listings, orders and the history alone.
LEMMA QuietEndGood ==
  ASSUME GoodInv, CancelInv', NEW s \in Session, End(s),
         UNCHANGED <<listings, orders, item, disturbed>>, KeepsRows, ReferencesOK'
  PROVE  GoodInv'
<1>1. call'[s].pc = "idle" /\ \A u \in Session \ {s} : call'[u] = call[u]
  BY EndFacts DEF GoodInv, CancelInv
<1>2. NamedOK(s)' /\ KeepOK(s)'
  BY <1>1 DEF NamedOK, KeepOK, At
<1>. QED  BY <1>1, <1>2, QuietGood

\* The end of a transaction that wrote to one listing, to its orders, or both,
\* and made no good sold that was decided to be kept.
LEMMA EndGood ==
  ASSUME GoodInv, CancelInv', NEW s \in Session, End(s), KeepsRows, ReferencesOK',
         NEW m \in Listing,
         \A l \in Listing : disturbed[l] => disturbed'[l],
         \A l \in Listing \ {m} : disturbed'[l] = disturbed[l],
         \A l \in Listing \ {m} : listings'[l] = listings[l],
         \A o \in Order : orders'[o] # orders[o] \/ item'[o] # item[o] =>
           item'[o] = m /\ (item[o] = m \/ orders[o] = "none"),
         m \in Good /\ ~disturbed'[m] => MatchesOrders(m)',
         \A u \in Session \ {s} :
           m \in Good /\ ~disturbed'[m] /\ listings'[m] = "sold" /\ At(u, "keep")
           /\ call[u].listing = m => listings[m] = "sold"
  PROVE  GoodInv'
<1>1. call'[s].pc = "idle" /\ \A u \in Session \ {s} : call'[u] = call[u]
  BY EndFacts DEF GoodInv, CancelInv
<1>2. NamedOK(s)' /\ KeepOK(s)'
  BY <1>1 DEF NamedOK, KeepOK, At
<1>3. ASSUME NEW u \in Session \ {s} PROVE NamedOK(u)' /\ KeepOK(u)'
  <2>1. \A l \in Good : listings'[l] = "sold" /\ ~disturbed'[l] /\ At(u, "keep")
                        /\ call[u].listing = l => listings[l] = "sold"
    BY MarketplaceAssumption
  <2>. QED  BY <1>1, <2>1, NamedKept, KeepKept, MarketplaceAssumption
<1>4. GoodMatchesOrders'
  BY GoodFrame
<1>. QED  BY <1>2, <1>3, <1>4 DEF GoodInv

LEMMA PlaceGood ==
  ASSUME GoodInv, CancelInv', NEW s \in Session, PlaceInsert(s)
  PROVE  GoodInv'
<1>0. TypeOK /\ RowsOK /\ ReferencesOK /\ CancelOK(s)
  BY DEF GoodInv, CancelInv
<1>1. PICK m \in Listing : m = call[s].listing
  BY <1>0 DEF PlaceInsert, At, CancelOK
<1>2. PICK o \in Order :
        /\ orders[o] = "none"
        /\ orders' = [orders EXCEPT ![o] = "pending_transfer"]
        /\ item' = [item EXCEPT ![o] = m]
  BY <1>1 DEF PlaceInsert, SetOrder
<1>3. /\ End(s) /\ UNCHANGED <<transfers, reference>>
      /\ MoveGood(m, "active", "sold") /\ Disturb(m, LiveOrders(m) # {})
  BY <1>1 DEF PlaceInsert
<1>4. /\ \A l \in Listing : disturbed[l] => disturbed'[l]
      /\ \A l \in Listing \ {m} : disturbed'[l] = disturbed[l]
      /\ m \in Good => (disturbed'[m] <=> disturbed[m] \/ LiveOrders(m) # {})
  BY <1>0, <1>3, DisturbFacts
<1>5. KeepsRows /\ ReferencesOK'
  BY <1>0, <1>2, <1>3 DEF KeepsRows, ReferencesOK, RowsOK, TypeOK
<1>6. \A l \in Listing \ {m} : listings'[l] = listings[l]
  BY <1>0, <1>3 DEF MoveGood, TypeOK
<1>7. \A q \in Order : orders'[q] # orders[q] \/ item'[q] # item[q] => q = o
  BY <1>0, <1>2 DEF TypeOK
<1>8. item'[o] = m
  BY <1>0, <1>2 DEF TypeOK
\* The good was free, so the order takes it; whoever cancels an order for it
\* would hold a live one.
<1>9. ASSUME m \in Good, ~disturbed'[m] PROVE MatchesOrders(m)'
  <2>1. LiveOrders(m) = {} /\ MatchesOrders(m)
    BY <1>4, <1>9 DEF GoodInv, GoodMatchesOrders
  <2>2. listings'[m] # "active"
    BY <1>0, <1>3, <1>9 DEF MoveGood, TypeOK
  <2>3. LiveOrders(m)' = {o}
    BY <1>0, <1>2, <2>1 DEF LiveOrders, Live, TypeOK
  <2>. QED  BY <2>2, <2>3 DEF MatchesOrders
<1>10. ASSUME NEW u \in Session, m \in Good, ~disturbed'[m], At(u, "keep"), call[u].listing = m
       PROVE  FALSE
  <2>1. call[u].order \in Order /\ orders[call[u].order] = "pending_transfer"
        /\ item[call[u].order] = m
    BY <1>10 DEF At, GoodInv, CancelInv, CancelOK, NamedOK
  <2>2. call[u].order \in LiveOrders(m)
    BY <2>1 DEF LiveOrders, Live
  <2>. QED  BY <1>4, <1>10, <2>2
<1>. QED  BY <1>2, <1>3, <1>4, <1>5, <1>6, <1>7, <1>8, <1>9, <1>10, EndGood

LEMMA CancelGood ==
  ASSUME GoodInv, CancelInv', NEW s \in Session, CancelKeep(s) \/ CancelRelist(s)
  PROVE  GoodInv'
<1>0. TypeOK /\ RowsOK /\ ReferencesOK /\ CancelOK(s) /\ NamedOK(s) /\ KeepOK(s)
  BY DEF GoodInv, CancelInv
<1>1. PICK m \in Listing, o \in Order : m = call[s].listing /\ o = call[s].order
  BY <1>0 DEF CancelKeep, CancelRelist, At, CancelOK
<1>2. /\ call[s].pc \in {"keep", "relist"} /\ End(s)
      /\ UNCHANGED <<item, transfers, reference, disturbed>>
      /\ orders' = [orders EXCEPT ![o] = "cancelled"]
      /\ \/ At(s, "keep") /\ listings' = listings
         \/ MoveGood(m, "sold", "active")
  BY <1>1 DEF CancelKeep, CancelRelist, SetOrder, At
<1>3. orders[o] = "pending_transfer" /\ item[o] = m
  BY <1>0, <1>1, <1>2 DEF CancelOK, NamedOK
<1>4. KeepsRows /\ ReferencesOK'
  BY <1>0, <1>2, <1>3 DEF KeepsRows, ReferencesOK, RowsOK, TypeOK
<1>5. \A l \in Listing : l # m \/ l \notin Good => listings'[l] = listings[l]
  BY <1>0, <1>2 DEF MoveGood, TypeOK
<1>6. listings'[m] = "sold" => listings[m] = "sold"
  BY <1>0, <1>2 DEF MoveGood, TypeOK
<1>7. ASSUME m \in Good, ~disturbed'[m] PROVE MatchesOrders(m)'
  <2>1. MatchesOrders(m)
    BY <1>2, <1>7 DEF GoodInv, GoodMatchesOrders
  <2>2. LiveOrders(m) = {o}
    BY <1>3, <2>1 DEF MatchesOrders, LiveOrders, Live
  <2>3. LiveOrders(m)' = {}
    BY <1>0, <1>2, <1>3, <2>2 DEF LiveOrders, Live, TypeOK
  <2>4. listings'[m] # "sold"
    BY <1>0, <1>1, <1>2, <1>7 DEF MoveGood, KeepOK, TypeOK
  <2>. QED  BY <2>3, <2>4 DEF MatchesOrders
<1>8. \A q \in Order : orders'[q] # orders[q] \/ item'[q] # item[q] => q = o
  BY <1>0, <1>2 DEF TypeOK
<1>. QED  BY <1>2, <1>3, <1>4, <1>5, <1>6, <1>7, <1>8, EndGood

LEMMA ResolveGood ==
  ASSUME GoodInv, CancelInv', NEW s \in Session, ConfirmWrite(s) \/ RejectWrite(s)
  PROVE  GoodInv'
<1>0. TypeOK /\ RowsOK /\ ReferencesOK /\ CancelOK(s)
  BY DEF GoodInv, CancelInv
<1>1. PICK t \in Transfer, o \in Order, m \in Listing :
        t = call[s].transfer /\ o = reference[t] /\ m = item[o] /\ transfers[t] # "none"
  <2>1. call[s].transfer \in Transfer /\ transfers[call[s].transfer] # "none"
    BY <1>0 DEF ConfirmWrite, RejectWrite, At, CancelOK
  <2>2. reference[call[s].transfer] \in Order /\ item[reference[call[s].transfer]] \in Listing
    BY <1>0, <2>1 DEF RowsOK, ReferencesOK
  <2>. QED  BY <2>1, <2>2
<1>2. /\ End(s) /\ UNCHANGED <<item, reference>>
      /\ \E st \in {"confirmed", "rejected"} : transfers' = [transfers EXCEPT ![t] = st]
      /\ \/ ~Exists(o) /\ UNCHANGED <<orders, listings>>
         \/ /\ Exists(o) /\ orders' = [orders EXCEPT ![o] = "paid"] /\ UNCHANGED listings
            /\ Disturb(m, orders[o] = "cancelled")
         \/ /\ Exists(o) /\ orders' = [orders EXCEPT ![o] = "cancelled"]
            /\ MoveGood(m, "sold", "active")
            /\ Disturb(m, orders[o] = "cancelled" /\ LiveOrders(m) # {})
  BY <1>1 DEF ConfirmWrite, RejectWrite, SetOrder
<1>3. \E case \in BOOLEAN : Disturb(m, case)
  BY <1>1 DEF ConfirmWrite, RejectWrite
<1>4. /\ \A l \in Listing : disturbed[l] => disturbed'[l]
      /\ \A l \in Listing \ {m} : disturbed'[l] = disturbed[l]
  BY <1>0, <1>3, DisturbFacts
<1>5. KeepsRows /\ ReferencesOK'
  <2>1. \A q \in Order : orders[q] # "none" <=> orders'[q] # "none"
    BY <1>0, <1>2 DEF Exists, OrderStatus, TypeOK
  <2>2. \A x \in Transfer : transfers[x] # "none" <=> transfers'[x] # "none"
    BY <1>0, <1>1, <1>2 DEF TypeOK
  <2>. QED  BY <1>0, <1>2, <2>1, <2>2 DEF KeepsRows, ReferencesOK, RowsOK
<1>6. \A l \in Listing : l # m \/ l \notin Good => listings'[l] = listings[l]
  BY <1>0, <1>2 DEF MoveGood, TypeOK
<1>7. listings'[m] = "sold" => listings[m] = "sold"
  BY <1>0, <1>2 DEF MoveGood, TypeOK
<1>8. ASSUME m \in Good, ~disturbed'[m] PROVE MatchesOrders(m)'
  <2>0. MatchesOrders(m)
    BY <1>4, <1>8 DEF GoodInv, GoodMatchesOrders
  <2>1. CASE ~Exists(o) /\ UNCHANGED <<orders, listings>>
    BY <1>2, <2>0, <2>1 DEF MatchesOrders, LiveOrders, Live
  <2>2. CASE /\ Exists(o) /\ orders' = [orders EXCEPT ![o] = "paid"] /\ UNCHANGED listings
             /\ Disturb(m, orders[o] = "cancelled")
    <3>1. orders[o] # "cancelled"
      BY <1>0, <1>8, <2>2, DisturbFacts
    <3>2. LiveOrders(m)' = LiveOrders(m)
      BY <1>0, <1>2, <2>2, <3>1 DEF LiveOrders, Live, Exists, OrderStatus, TypeOK
    <3>. QED  BY <2>0, <2>2, <3>2 DEF MatchesOrders
  <2>3. CASE /\ Exists(o) /\ orders' = [orders EXCEPT ![o] = "cancelled"]
             /\ MoveGood(m, "sold", "active")
             /\ Disturb(m, orders[o] = "cancelled" /\ LiveOrders(m) # {})
    <3>1. orders[o] # "cancelled" \/ LiveOrders(m) = {}
      BY <1>0, <1>8, <2>3, DisturbFacts
    <3>2. LiveOrders(m) \subseteq {o}
      BY <1>1, <2>0, <2>3, <3>1 DEF MatchesOrders, LiveOrders, Live, Exists, OrderStatus
    <3>3. LiveOrders(m)' = {}
      BY <1>0, <1>2, <2>3, <3>2 DEF LiveOrders, Live, TypeOK
    <3>4. listings'[m] # "sold"
      BY <1>0, <1>8, <2>3 DEF MoveGood, TypeOK
    <3>. QED  BY <3>3, <3>4 DEF MatchesOrders
  <2>. QED  BY <1>2, <2>1, <2>2, <2>3
<1>9. \A q \in Order : orders'[q] # orders[q] \/ item'[q] # item[q] => q = o
  BY <1>0, <1>2 DEF TypeOK
<1>. QED  BY <1>1, <1>2, <1>4, <1>5, <1>6, <1>7, <1>8, <1>9, EndGood

\* The scan finds the order it cancels to be the only one of the good.
LEMMA ScanGood ==
  ASSUME GoodInv, CancelInv', NEW s \in Session, CancelScan(s)
  PROVE  GoodInv'
<1> DEFINE pc == IF Relistable(call[s].listing, call[s].order) THEN "relist" ELSE "keep"
           d == [call[s] EXCEPT !.pc = pc]
<1>0. TypeOK /\ CancelOK(s) /\ NamedOK(s) /\ call[s] \in Call /\ call[s].pc = "cancel"
  BY DEF GoodInv, CancelInv, TypeOK, CancelScan, At
<1>1. /\ d.pc = pc /\ d.pc \in {"keep", "relist"}
      /\ d.listing = call[s].listing /\ d.order = call[s].order
  BY <1>0 DEF Call
<1>2. call' = [call EXCEPT ![s] = d] /\ UNCHANGED <<tables, orderLock, disturbed>>
  BY DEF CancelScan
<1> HIDE DEF d
<1>3. call'[s] = d /\ \A u \in Session \ {s} : call'[u] = call[u]
  BY <1>0, <1>2 DEF TypeOK
<1>4. KeepsRows /\ ReferencesOK'
  BY <1>2 DEF KeepsRows, GoodInv, ReferencesOK, tables
<1>5. NamedOK(s)'
  BY <1>0, <1>1, <1>2, <1>3 DEF NamedOK, tables
<1>6. KeepOK(s)'
  <2>1. SUFFICES ASSUME pc = "keep", call[s].listing \in Good, ~disturbed[call[s].listing]
                 PROVE  listings[call[s].listing] # "sold"
    BY <1>1, <1>2, <1>3 DEF KeepOK, At, tables
  <2>2. MatchesOrders(call[s].listing)
    BY <2>1 DEF GoodInv, GoodMatchesOrders
  <2>3. LiveOrders(call[s].listing) \subseteq {call[s].order}
    BY <1>0, <2>2 DEF MatchesOrders, LiveOrders, Live, CancelOK, NamedOK
  <2>. QED  BY <2>1, <2>3 DEF Relistable
<1>. QED  BY <1>2, <1>3, <1>4, <1>5, <1>6, QuietGood DEF tables

LEMMA RunGood ==
  ASSUME GoodInv, NEW s \in Session, Run(s) \/ Rollback(s), CancelInv'
  PROVE  GoodInv'
<1>0. TypeOK /\ RowsOK /\ ReferencesOK /\ CancelOK(s) /\ NamedOK(s)
  BY DEF GoodInv, CancelInv
<1>1. CASE Rollback(s)
  <2>1. KeepsRows /\ ReferencesOK'
    BY <1>0, <1>1 DEF Rollback, KeepsRows, ReferencesOK, tables
  <2>. QED  BY <1>1, <2>1, QuietEndGood DEF Rollback, tables
<1>2. CASE SubmitInsert(s)
  <2>1. PICK t \in Transfer :
          /\ transfers[t] = "none"
          /\ transfers' = [transfers EXCEPT ![t] = "pending"]
          /\ reference' = [reference EXCEPT ![t] = call[s].order]
    BY <1>2 DEF SubmitInsert
  <2>2. End(s) /\ UNCHANGED <<listings, orders, item, disturbed>> /\ call[s].pc = "submit"
    BY <1>2 DEF SubmitInsert, At
  <2>3. KeepsRows /\ ReferencesOK'
    BY <1>0, <2>1, <2>2 DEF KeepsRows, ReferencesOK, NamedOK, TypeOK
  <2>. QED  BY <2>2, <2>3, QuietEndGood
<1>3. CASE ContestWrite(s)
  <2>1. /\ End(s) /\ UNCHANGED <<listings, orders, item, reference, disturbed>>
        /\ transfers' = [transfers EXCEPT ![call[s].transfer] = "pending"]
        /\ transfers[call[s].transfer] # "none"
    BY <1>0, <1>3 DEF ContestWrite, At, CancelOK
  <2>2. KeepsRows /\ ReferencesOK'
    BY <1>0, <2>1 DEF KeepsRows, ReferencesOK, TypeOK
  <2>. QED  BY <2>1, <2>2, QuietEndGood
<1>. QED  BY <1>1, <1>2, <1>3, PlaceGood, CancelGood, ResolveGood, ScanGood DEF Run

LEMMA EditGood ==
  ASSUME GoodInv, CancelInv', NEW o \in Order, NEW st \in OrderStatus, EditOrder(o, st)
  PROVE  GoodInv'
<1>0. TypeOK /\ RowsOK /\ ReferencesOK
  BY DEF GoodInv, CancelInv
<1>1. PICK m \in Listing : m = item[o]
  BY <1>0 DEF EditOrder, RowsOK
<1>2. /\ orders' = [orders EXCEPT ![o] = st] /\ Exists(o)
      /\ UNCHANGED <<listings, item, transfers, reference, call>>
      /\ Disturb(m, Live(o) # (st # "cancelled"))
  BY <1>1 DEF EditOrder, SetOrder
<1>3. /\ \A l \in Listing : disturbed[l] => disturbed'[l]
      /\ \A l \in Listing \ {m} : disturbed'[l] = disturbed[l]
      /\ m \in Good => (disturbed'[m] <=> disturbed[m] \/ Live(o) # (st # "cancelled"))
  BY <1>0, <1>2, DisturbFacts
<1>4. KeepsRows /\ ReferencesOK'
  BY <1>0, <1>2 DEF KeepsRows, ReferencesOK, RowsOK, OrderStatus, TypeOK
<1>5. \A u \in Session : NamedOK(u)' /\ KeepOK(u)'
  BY <1>2, <1>3, <1>4, NamedKept, KeepKept, MarketplaceAssumption
<1>6. ASSUME m \in Good, ~disturbed'[m] PROVE MatchesOrders(m)'
  <2>1. ~disturbed[m] /\ (Live(o) <=> st # "cancelled")
    BY <1>3, <1>6 DEF Live
  <2>2. LiveOrders(m)' = LiveOrders(m)
    BY <1>0, <1>2, <2>1 DEF LiveOrders, Live, OrderStatus, TypeOK
  <2>3. MatchesOrders(m)
    BY <1>6, <2>1 DEF GoodInv, GoodMatchesOrders
  <2>. QED  BY <1>2, <2>2, <2>3 DEF MatchesOrders
<1>7. \A q \in Order : orders'[q] # orders[q] \/ item'[q] # item[q] => q = o
  BY <1>0, <1>2 DEF TypeOK
<1>8. GoodMatchesOrders'
  BY <1>1, <1>2, <1>3, <1>6, <1>7, GoodFrame
<1>. QED  BY <1>4, <1>5, <1>8 DEF GoodInv

LEMMA DeskGood ==
  ASSUME GoodInv, NEW l \in Listing, Desk(l), CancelInv'
  PROVE  GoodInv'
<1>0. TypeOK /\ RowsOK /\ ReferencesOK
  BY DEF GoodInv, CancelInv
<1>1. ASSUME NEW from, NEW to, SetListing(l, from, to) PROVE GoodInv'
  <2>1. /\ listings' = [listings EXCEPT ![l] = to]
        /\ Disturb(l, Against(l, to))
        /\ UNCHANGED <<orders, item, transfers, reference, orderLock, call>>
    BY <1>1 DEF SetListing
  <2>2. Against(l, to) \in BOOLEAN
    BY DEF Against
  <2>3. /\ \A m \in Listing : disturbed[m] => disturbed'[m]
        /\ \A m \in Listing \ {l} : disturbed'[m] = disturbed[m]
        /\ l \in Good => (disturbed'[l] <=> disturbed[l] \/ Against(l, to))
    BY <1>0, <2>1, <2>2, DisturbFacts
  <2>4. KeepsRows /\ ReferencesOK'
    BY <1>0, <2>1 DEF KeepsRows, ReferencesOK
  <2>5. \A m \in Listing : listings'[m] = IF m = l THEN to ELSE listings[m]
    BY <1>0, <2>1 DEF TypeOK
  <2>6. ASSUME NEW u \in Session PROVE NamedOK(u)' /\ KeepOK(u)'
    <3>1. \A m \in Good : listings'[m] = "sold" /\ ~disturbed'[m] /\ At(u, "keep")
                          /\ call[u].listing = m => listings[m] = "sold"
      BY <2>3, <2>5, MarketplaceAssumption DEF Against
    <3>. QED  BY <2>1, <2>3, <2>4, <3>1, NamedKept, KeepKept, MarketplaceAssumption
  <2>7. ASSUME l \in Good, ~disturbed'[l] PROVE MatchesOrders(l)'
    <3>1. ~disturbed[l] /\ ~Against(l, to)
      BY <2>3, <2>7
    <3>2. MatchesOrders(l)
      BY <2>7, <3>1 DEF GoodInv, GoodMatchesOrders
    <3>3. LiveOrders(l)' = LiveOrders(l) /\ listings'[l] = to
      BY <2>1, <2>5 DEF LiveOrders, Live
    <3>. QED  BY <3>1, <3>2, <3>3 DEF Against, MatchesOrders
  <2>8. GoodMatchesOrders'
    BY <2>1, <2>3, <2>5, <2>7, GoodFrame
  <2>. QED  BY <2>4, <2>6, <2>8 DEF GoodInv
<1>2. CASE DeleteListing(l)
  <2>1. /\ listings' = [listings EXCEPT ![l] = "deleted"]
        /\ orders' = [o \in Order |-> IF item[o] = l THEN "deleted" ELSE orders[o]]
        /\ UNCHANGED <<item, transfers, reference, orderLock, call, disturbed>>
    BY <1>2 DEF DeleteListing
  <2>2. KeepsRows /\ ReferencesOK'
    BY <1>0, <2>1 DEF KeepsRows, ReferencesOK, RowsOK, TypeOK
  <2>3. \A m \in Listing : listings'[m] = IF m = l THEN "deleted" ELSE listings[m]
    BY <1>0, <2>1 DEF TypeOK
  <2>4. \A u \in Session : NamedOK(u)' /\ KeepOK(u)'
    BY <2>1, <2>2, <2>3, NamedKept, KeepKept, MarketplaceAssumption
  <2>5. MatchesOrders(l)'
    <3>1. LiveOrders(l)' = {} /\ listings'[l] = "deleted"
      BY <1>0, <2>1, <2>3 DEF LiveOrders, Live, TypeOK
    <3>. QED  BY <3>1 DEF MatchesOrders
  <2>6. GoodMatchesOrders'
    BY <2>1, <2>3, <2>5, GoodFrame
  <2>. QED  BY <2>2, <2>4, <2>6 DEF GoodInv
<1>. QED  BY <1>1, <1>2 DEF Desk, SellerSets, Suspend, Reinstate

LEMMA GoodStep == GoodInv /\ [Next]_vars => GoodInv'
<1> SUFFICES ASSUME GoodInv, [Next]_vars PROVE GoodInv'
  OBVIOUS
<1>1. CancelInv'
  BY CancelStep DEF GoodInv
<1>2. CASE Next
  BY <1>1, <1>2, StartGood, RunGood, EditGood, DeskGood DEF Next
<1>3. CASE UNCHANGED vars
  BY <1>1, <1>3 DEF vars, tables, GoodInv, ReferencesOK, NamedOK, KeepOK, At,
     GoodMatchesOrders, MatchesOrders, LiveOrders, Live
<1>. QED  BY <1>2, <1>3

LEMMA InitGood == Init => GoodInv
<1> SUFFICES ASSUME Init PROVE GoodInv
  OBVIOUS
<1>1. CancelInv
  BY InitInv
<1>2. \A s \in Session : call[s].pc = "idle"
  BY IdleType DEF Init
<1>3. ReferencesOK /\ \A s \in Session : NamedOK(s) /\ KeepOK(s)
  BY <1>2 DEF Init, ReferencesOK, NamedOK, KeepOK, At
<1>4. ASSUME NEW l \in Good PROVE MatchesOrders(l)
  BY MarketplaceAssumption DEF Init, MatchesOrders, LiveOrders, Live
<1>. QED  BY <1>1, <1>3, <1>4 DEF GoodInv, GoodMatchesOrders

\* For any number of sessions, orders and listings a good agrees with its orders
\* however requests about it overlap, unless it met a case that Disturb names.
THEOREM GoodMatchesOrdersCorrect == Spec => []GoodMatchesOrders
<1>1. GoodInv => GoodMatchesOrders
  BY DEF GoodInv
<1>. QED  BY <1>1, InitGood, GoodStep, PTL DEF Spec
=============================================================================
