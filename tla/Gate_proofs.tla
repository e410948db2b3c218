----------------------------- MODULE Gate_proofs -----------------------------
(***************************************************************************)
(* Proofs about Gate: the pass policy, checked on the newest row, is what  *)
(* makes a pass single-use and its end final for any number of officers;   *)
(* the trigger keeps review dates current since it sees every write of a   *)
(* card; and scans and reviews keep a card revoked because each rechecks   *)
(* its row.                                                                *)
(***************************************************************************)
EXTENDS Gate, TLAPS

-----------------------------------------------------------------------------
(* Types.                                                                  *)

LEMMA BeginType ==
  ASSUME TypeOK, NEW o \in Officer, NEW pc \in {"flip", "checkin", "scan"},
         NEW id \in Ticket, Begin(o, pc, id)
  PROVE  /\ call' \in [Officer -> Call]
         /\ call'[o].pc = pc /\ call'[o].id = id
         /\ \A q \in Officer \ {o} : call'[q] = call[q]
         /\ call[o].pc = "idle"
<1> DEFINE c == [pc |-> pc, id |-> id]
<1>1. c \in Call /\ c.pc = pc /\ c.id = id
  BY DEF Call
<1>2. call' = [call EXCEPT ![o] = c] /\ call[o].pc = "idle"
  BY DEF Begin, At
<1> HIDE DEF c
<1>. QED  BY <1>1, <1>2 DEF TypeOK

LEMMA EndType ==
  ASSUME TypeOK, NEW o \in Officer, End(o)
  PROVE  /\ call' \in [Officer -> Call]
         /\ call'[o].pc = "idle"
         /\ \A q \in Officer \ {o} : call'[q] = call[q]
<1>1. Idle \in Call /\ Idle.pc = "idle"
  BY DEF Idle, Call
<1>. QED  BY <1>1 DEF TypeOK, End

LEMMA LogType ==
  ASSUME TypeOK, NEW o \in Officer, call' = [call EXCEPT ![o].pc = "log"]
  PROVE  /\ call' \in [Officer -> Call]
         /\ call'[o].pc = "log" /\ call'[o].id = call[o].id
         /\ \A q \in Officer \ {o} : call'[q] = call[q]
<1> DEFINE c == [call[o] EXCEPT !.pc = "log"]
<1>1. call[o] \in Call
  BY DEF TypeOK
<1>2. c \in Call /\ c.pc = "log" /\ c.id = call[o].id
  BY <1>1 DEF Call
<1>3. call' = [call EXCEPT ![o] = c]
  OBVIOUS
<1> HIDE DEF c
<1>. QED  BY <1>2, <1>3 DEF TypeOK

-----------------------------------------------------------------------------
(* Steps that neither notify, log nor issue a pass, and in which no officer *)
(* starts or stops logging.                                                *)

LEMMA QuietPass ==
  ASSUME GateInv, TypeOK', \A o \in Officer : CallOK(o)',
         UNCHANGED <<passNotices, passLogs>>,
         \A p \in Pass : pass'[p] \in {"none", "pending"} =>
           pass[p] \in {"none", "pending"},
         \A o \in Officer : call'[o].pc = "log" =>
           call[o].pc = "log" /\ call'[o].id = call[o].id
  PROVE  GateInv'
<1>1. ASSUME NEW p \in Pass PROVE PassOK(p)'
  <2>1. Logging(p)' \subseteq Logging(p)
    BY DEF Logging, At
  <2>. QED  BY <2>1 DEF GateInv, PassOK
<1>. QED  BY <1>1 DEF GateInv

LEMMA InitGate == Init => GateInv
<1> SUFFICES ASSUME Init PROVE GateInv
  OBVIOUS
<1>1. Idle \in Call /\ Idle.pc = "idle"
  BY DEF Idle, Call
<1>2. TypeOK
  BY <1>1 DEF Init, TypeOK, CardStatus, Dates
<1>3. \A o \in Officer : CallOK(o)
  BY <1>1 DEF Init, CallOK
<1>4. \A p \in Pass : PassOK(p)
  BY <1>1 DEF Init, PassOK, Logging, At
<1>. QED  BY <1>2, <1>3, <1>4 DEF GateInv

LEMMA FlipGate ==
  ASSUME GateInv, NEW o \in Officer, FlipPass(o)
  PROVE  GateInv'
<1>0. PICK p \in Pass : p = call[o].id
  BY DEF FlipPass, At, GateInv, CallOK
<1>1. /\ TypeOK /\ p \in Pass /\ pass[p] = "pending" /\ call[o].pc = "flip"
      /\ pass' = [pass EXCEPT ![p] = "used"]
      /\ passNotices' = [passNotices EXCEPT ![p] = @ + 1]
      /\ call' = [call EXCEPT ![o].pc = "log"]
      /\ UNCHANGED <<passLate, passLogs, visitVars, cardVars, worker>>
  BY <1>0 DEF FlipPass, SetPass, At, GateInv
<1>2. /\ call' \in [Officer -> Call] /\ call'[o].pc = "log" /\ call'[o].id = p
      /\ \A q \in Officer \ {o} : call'[q] = call[q]
  BY <1>0, <1>1, LogType
<1>3. TypeOK'
  BY <1>1, <1>2 DEF TypeOK, visitVars, cardVars
<1>4. \A q \in Officer : CallOK(q)'
  BY <1>1, <1>2 DEF GateInv, CallOK
<1>5. passNotices[p] = 0 /\ passLogs[p] = 0 /\ Logging(p) = {}
  BY <1>1 DEF GateInv, PassOK, TypeOK
<1>6. Logging(p)' = {o}
  BY <1>2, <1>5 DEF Logging, At
<1>7. PassOK(p)'
  BY <1>1, <1>5, <1>6 DEF PassOK, TypeOK
<1>8. ASSUME NEW x \in Pass \ {p} PROVE PassOK(x)'
  <2>1. Logging(x)' = Logging(x)
    BY <1>1, <1>2 DEF Logging, At
  <2>. QED  BY <1>1, <2>1 DEF GateInv, PassOK, TypeOK
<1>. QED  BY <1>3, <1>4, <1>7, <1>8 DEF GateInv

LEMMA LogGate ==
  ASSUME GateInv, NEW o \in Officer, LogPass(o)
  PROVE  GateInv'
<1>0. PICK p \in Pass : p = call[o].id
  BY DEF LogPass, At, GateInv, CallOK
<1>1. /\ TypeOK /\ p \in Pass /\ call[o].pc = "log" /\ End(o)
      /\ passLogs' = [passLogs EXCEPT ![p] = @ + 1]
      /\ UNCHANGED <<pass, passLate, passNotices, visitVars, cardVars, worker>>
  BY <1>0 DEF LogPass, At, GateInv
<1>2. TypeOK'
  BY <1>1, EndType DEF TypeOK, visitVars, cardVars
<1>3. \A q \in Officer : CallOK(q)'
  BY <1>1, EndType DEF GateInv, CallOK
<1>4. o \in Logging(p) /\ \A q \in Logging(p) : q = o
  BY <1>0, <1>1 DEF GateInv, PassOK, Logging, At
<1>5. Logging(p)' = {}
  BY <1>1, <1>4, EndType DEF Logging, At
<1>6. PassOK(p)'
  BY <1>1, <1>4, <1>5 DEF GateInv, PassOK, TypeOK
<1>7. ASSUME NEW x \in Pass \ {p} PROVE PassOK(x)'
  <2>1. Logging(x)' \subseteq Logging(x)
    BY <1>1, EndType DEF Logging, At
  <2>. QED  BY <1>1, <2>1 DEF GateInv, PassOK, TypeOK
<1>. QED  BY <1>2, <1>3, <1>6, <1>7 DEF GateInv

\* The requests of officers about anything else, and their beginnings.
LEMMA GatehouseGate ==
  ASSUME GateInv, NEW o \in Officer, Gatehouse(o)
  PROVE  GateInv'
<1>0. TypeOK
  BY DEF GateInv
<1>1. ASSUME NEW p \in Pass, ScanPass(o, p) PROVE GateInv'
  <2>1. Begin(o, "flip", p) /\ UNCHANGED <<passVars, visitVars, cardVars, worker>>
    BY <1>1 DEF ScanPass
  <2>2. TypeOK'
    BY <1>0, <2>1, BeginType DEF Ticket, TypeOK, passVars, visitVars, cardVars
  <2>3. \A q \in Officer : CallOK(q)'
    BY <1>0, <2>1, BeginType DEF Ticket, GateInv, CallOK
  <2>. QED  BY <1>0, <2>1, <2>2, <2>3, BeginType, QuietPass DEF Ticket, passVars
<1>2. ASSUME NEW v \in Visit, CheckInRead(o, v) PROVE GateInv'
  <2>1. Begin(o, "checkin", v) /\ UNCHANGED <<passVars, visitVars, cardVars, worker>>
    BY <1>2 DEF CheckInRead
  <2>2. TypeOK'
    BY <1>0, <2>1, BeginType DEF Ticket, TypeOK, passVars, visitVars, cardVars
  <2>3. \A q \in Officer : CallOK(q)'
    BY <1>0, <2>1, BeginType DEF Ticket, GateInv, CallOK
  <2>. QED  BY <1>0, <2>1, <2>2, <2>3, BeginType, QuietPass DEF Ticket, passVars
<1>3. ASSUME NEW c \in Card, ScanCardRead(o, c) PROVE GateInv'
  <2>1. Begin(o, "scan", c) /\ UNCHANGED <<passVars, visitVars, cardVars, worker>>
    BY <1>3 DEF ScanCardRead
  <2>2. TypeOK'
    BY <1>0, <2>1, BeginType DEF Ticket, TypeOK, passVars, visitVars, cardVars
  <2>3. \A q \in Officer : CallOK(q)'
    BY <1>0, <2>1, BeginType DEF Ticket, GateInv, CallOK
  <2>. QED  BY <1>0, <2>1, <2>2, <2>3, BeginType, QuietPass DEF Ticket, passVars
<1>4. ASSUME End(o), TypeOK', UNCHANGED passVars PROVE GateInv'
  <2>1. \A q \in Officer : CallOK(q)'
    BY <1>0, <1>4, EndType DEF GateInv, CallOK
  <2>. QED  BY <1>0, <1>4, <2>1, EndType, QuietPass DEF passVars
<1>5. CASE CheckInWrite(o)
  <2>1. call[o].id \in Visit
    BY <1>5 DEF CheckInWrite, At, GateInv, CallOK
  <2>2. TypeOK'
    BY <1>0, <1>5, <2>1, EndType DEF CheckInWrite, TypeOK, passVars, cardVars
  <2>. QED  BY <1>4, <1>5, <2>2 DEF CheckInWrite
<1>6. CASE ScanCardWrite(o)
  <2>1. call[o].id \in Card
    BY <1>6 DEF ScanCardWrite, At, GateInv, CallOK
  <2>2. TypeOK'
    BY <1>0, <1>6, <2>1, EndType
       DEF ScanCardWrite, WriteCard, NextReview, DatedBy, Recomputes, CardStatus, Dates,
           TypeOK, passVars, visitVars, cardVars
  <2>. QED  BY <1>4, <1>6, <2>2 DEF ScanCardWrite
<1>7. CASE Abandon(o)
  <2>1. TypeOK'
    BY <1>0, <1>7, EndType DEF Abandon, TypeOK, passVars, visitVars, cardVars
  <2>. QED  BY <1>4, <1>7, <2>1 DEF Abandon
<1>. QED  BY <1>1, <1>2, <1>3, <1>5, <1>6, <1>7, FlipGate, LogGate DEF Gatehouse

\* Residents, the clock and the scheduler touch no request of an officer.
LEMMA OthersGate ==
  ASSUME GateInv, TypeOK', UNCHANGED <<passNotices, passLogs, call>>,
         \A p \in Pass : pass'[p] \in {"none", "pending"} =>
           pass[p] \in {"none", "pending"}
  PROVE  GateInv'
<1>1. \A q \in Officer : CallOK(q)'
  BY DEF GateInv, CallOK
<1>. QED  BY <1>1, QuietPass

LEMMA ResidentGate == ASSUME GateInv, Resident PROVE GateInv'
<1>0. TypeOK
  BY DEF GateInv
<1>1. ASSUME NEW p \in Pass, IssuePass(p) \/ RevokePass(p) \/ DeletePass(p)
      PROVE  GateInv'
  <2>1. TypeOK'
    BY <1>0, <1>1 DEF IssuePass, RevokePass, DeletePass, SetPass, TypeOK, visitVars, cardVars
  <2>. QED  BY <1>0, <1>1, <2>1, OthersGate
               DEF IssuePass, RevokePass, DeletePass, SetPass, TypeOK
<1>2. ASSUME NEW v \in Visit, ScheduleVisit(v) \/ CancelVisit(v) \/ DeleteVisit(v)
      PROVE  GateInv'
  <2>1. TypeOK' /\ UNCHANGED <<passVars, call>>
    BY <1>0, <1>2 DEF ScheduleVisit, CancelVisit, DeleteVisit, SetVisit, TypeOK,
       passVars, cardVars, CardStatus, Dates
  <2>. QED  BY <2>1, OthersGate DEF passVars
<1>3. ASSUME NEW c \in Card, NEW st \in CardStatus, NEW f \in Cadences \cup {NULL},
             NEW date \in HandDates \cup {"kept"},
             IssueCard(c, st, f, date) \/ EditCard(c, st, f, date)
      PROVE  GateInv'
  <2>1. WriteCard(c, st, f, date) /\ UNCHANGED <<passVars, visitVars, worker, call>>
    BY <1>3 DEF IssueCard, EditCard
  <2>2. NextReview(c, st, f, date) \in Dates
    BY <1>0, GateAssumption DEF NextReview, Dates, TypeOK
  <2>3. DatedBy(c, st, f, date) \in Cadences \cup {NULL, "hand"}
    BY <1>0 DEF DatedBy, Recomputes, TypeOK
  <2>4. TypeOK' /\ UNCHANGED <<passVars, call>>
    BY <1>0, <2>1, <2>2, <2>3 DEF WriteCard, TypeOK, passVars, visitVars
  <2>. QED  BY <2>4, OthersGate DEF passVars
<1>4. ASSUME NEW c \in Card, DeleteCard(c) PROVE GateInv'
  <2>1. TypeOK' /\ UNCHANGED <<passVars, call>>
    BY <1>0, <1>4 DEF DeleteCard, TypeOK, CardStatus, Dates, passVars, visitVars
  <2>. QED  BY <2>1, OthersGate DEF passVars
<1>. QED  BY <1>1, <1>2, <1>3, <1>4 DEF Resident

LEMMA ClockGate ==
  ASSUME GateInv, Time \/ \E w \in Worker : Scheduler(w) \/ Crash(w) \/ Restart(w)
  PROVE  GateInv'
<1>0. TypeOK
  BY DEF GateInv
<1>1. CASE Time
  <2>1. TypeOK' /\ UNCHANGED <<pass, passNotices, passLogs, call>>
    BY <1>0, <1>1 DEF Time, PassRunsOut, VisitRunsOut, CardRunsOut, TypeOK,
       CardStatus, Dates, passVars, visitVars, cardVars
  <2>. QED  BY <2>1, OthersGate
<1>2. ASSUME NEW w \in Worker, ExpirePasses(w) PROVE GateInv'
  <2>1. TypeOK'
    BY <1>0, <1>2 DEF ExpirePasses, TypeOK, visitVars, cardVars
  <2>. QED  BY <1>2, <2>1, OthersGate DEF ExpirePasses
<1>3. ASSUME NEW w \in Worker, ExpireVisits(w) \/ ReviewCards(w) \/ Crash(w) \/ Restart(w)
      PROVE  GateInv'
  <2>1. TypeOK' /\ UNCHANGED <<passVars, call>>
    BY <1>0, <1>3 DEF ExpireVisits, ReviewCards, Crash, Restart, SetWorker, TypeOK,
       CardStatus, Dates, passVars, visitVars, cardVars
  <2>. QED  BY <2>1, OthersGate DEF passVars
<1>. QED  BY <1>1, <1>2, <1>3 DEF Scheduler

LEMMA GateStep == GateInv /\ [Next]_vars => GateInv'
<1> SUFFICES ASSUME GateInv, [Next]_vars PROVE GateInv'
  OBVIOUS
<1>1. CASE Next
  BY <1>1, GatehouseGate, ResidentGate, ClockGate DEF Next
<1>2. CASE UNCHANGED vars
  <2>1. TypeOK'
    BY <1>2 DEF vars, passVars, visitVars, cardVars, GateInv, TypeOK
  <2>. QED  BY <1>2, <2>1, OthersGate DEF vars, passVars
<1>. QED  BY <1>1, <1>2

LEMMA GateCorrect == Spec => []GateInv
  BY InitGate, GateStep, PTL DEF Spec

\* The columns of passes, visits and cards hold only values they admit, for any
\* number of officers and workers.
THEOREM TypeCorrect == Spec => []TypeOK
<1>1. GateInv => TypeOK
  BY DEF GateInv
<1>. QED  BY GateCorrect, <1>1, PTL

\* A pass is single-use for any number of officers scanning it at once, of
\* passes and of workers: one flip, one notification and at most one log entry.
THEOREM PassAdmitsOnceCorrect == Spec => []PassAdmitsOnce
<1>1. GateInv => PassAdmitsOnce
  BY DEF GateInv, PassOK, PassAdmitsOnce
<1>. QED  BY GateCorrect, <1>1, PTL

-----------------------------------------------------------------------------
(* The scheduler, and what is final.                                       *)

\* A date that was computed is there.
DatesOK == \A c \in Card : dated[c] \in Cadences => review[c] # "absent"

\* Every write of a card goes through the trigger that sets its review date.
LEMMA WriteCurrent ==
  ASSUME TypeOK, DatesOK, DateIsCurrent, NEW c \in Card, NEW st,
         NEW f \in Cadences \cup {NULL}, NEW date, WriteCard(c, st, f, date)
  PROVE  DatesOK' /\ DateIsCurrent'
<1>1. /\ card' = [card EXCEPT ![c] = st] /\ cadence' = [cadence EXCEPT ![c] = f]
      /\ review' = [review EXCEPT ![c] = NextReview(c, st, f, date)]
      /\ dated' = [dated EXCEPT ![c] = DatedBy(c, st, f, date)]
  BY DEF WriteCard
<1>2. DatedBy(c, st, f, date) \in Cadences => NextReview(c, st, f, date) # "absent"
  BY GateAssumption DEF DatedBy, NextReview, DatesOK
<1>3. st = "active" /\ f # NULL =>
        \/ DatedBy(c, st, f, date) = "hand"
        \/ DatedBy(c, st, f, date) = f /\ NextReview(c, st, f, date) # "absent"
  <2>1. CASE Recomputes(c, st, f)
    BY <2>1 DEF DatedBy, NextReview
  <2>2. CASE ~Recomputes(c, st, f)
    BY <2>2 DEF Recomputes, DatedBy, NextReview, DateIsCurrent
  <2>. QED  BY <2>1, <2>2
<1>4. DatesOK'
  BY <1>1, <1>2 DEF DatesOK, TypeOK
<1>. QED  BY <1>1, <1>3, <1>4 DEF DateIsCurrent, TypeOK

LEMMA CurrentStep ==
  GateInv /\ DatesOK /\ DateIsCurrent /\ [Next]_vars => DatesOK' /\ DateIsCurrent'
<1> SUFFICES ASSUME GateInv, DatesOK, DateIsCurrent, [Next]_vars
             PROVE  DatesOK' /\ DateIsCurrent'
  OBVIOUS
<1> DEFINE Goal == DatesOK' /\ DateIsCurrent'
<1>0. TypeOK
  BY DEF GateInv
<1>1. ASSUME UNCHANGED <<card, cadence, review, dated>> PROVE Goal
  BY <1>1 DEF DatesOK, DateIsCurrent
<1>2. ASSUME NEW o \in Officer, Gatehouse(o) PROVE Goal
  <2>1. CASE ScanCardWrite(o)
    <3>1. call[o].id \in Card
      BY <2>1 DEF ScanCardWrite, At, GateInv, CallOK
    <3>2. CASE card[call[o].id] = "gone"
      BY <1>1, <2>1, <3>2 DEF ScanCardWrite, cardVars
    <3>3. CASE card[call[o].id] # "gone"
      <4> DEFINE c == call[o].id
      <4>1. WriteCard(c, card[c], cadence[c], "kept")
        BY <2>1, <3>3 DEF ScanCardWrite
      <4>2. c \in Card /\ cadence[c] \in Cadences \cup {NULL}
        BY <1>0, <3>1 DEF TypeOK
      <4> HIDE DEF c
      <4>. QED  BY <1>0, <4>1, <4>2, WriteCurrent
    <3>. QED  BY <3>2, <3>3
  <2>2. CASE ~ScanCardWrite(o)
    BY <1>1, <1>2, <2>2
       DEF Gatehouse, ScanPass, CheckInRead, ScanCardRead, FlipPass, LogPass,
           CheckInWrite, Abandon, cardVars
  <2>. QED  BY <2>1, <2>2
<1>3. CASE Resident
  <2>1. ASSUME NEW c \in Card, NEW st, NEW f \in Cadences \cup {NULL}, NEW date,
               IssueCard(c, st, f, date) \/ EditCard(c, st, f, date)
        PROVE  Goal
    BY <1>0, <2>1, WriteCurrent DEF IssueCard, EditCard
  <2>2. ASSUME NEW c \in Card, DeleteCard(c) PROVE Goal
    BY <1>0, <2>2, GateAssumption DEF DeleteCard, DatesOK, DateIsCurrent, TypeOK
  <2>3. ASSUME \/ \E p \in Pass : IssuePass(p) \/ RevokePass(p) \/ DeletePass(p)
               \/ \E v \in Visit : ScheduleVisit(v) \/ CancelVisit(v) \/ DeleteVisit(v)
        PROVE  Goal
    BY <1>1, <2>3
       DEF IssuePass, RevokePass, DeletePass, ScheduleVisit, CancelVisit, DeleteVisit,
           SetVisit, cardVars
  <2>. QED  BY <1>3, <2>1, <2>2, <2>3 DEF Resident
<1>4. CASE Time
  <2>1. ASSUME NEW c \in Card, CardRunsOut(c) PROVE Goal
    BY <1>0, <2>1 DEF CardRunsOut, DatesOK, DateIsCurrent, TypeOK
  <2>. QED  BY <1>1, <1>4, <2>1 DEF Time, PassRunsOut, VisitRunsOut, cardVars
<1>5. ASSUME NEW w \in Worker, ReviewCards(w) PROVE Goal
  BY <1>0, <1>5, GateAssumption DEF ReviewCards, DatesOK, DateIsCurrent, TypeOK
<1>6. ASSUME NEW w \in Worker, ExpirePasses(w) \/ ExpireVisits(w) \/ Crash(w) \/ Restart(w)
      PROVE  Goal
  BY <1>1, <1>6 DEF ExpirePasses, ExpireVisits, Crash, Restart, SetWorker, cardVars
<1>7. CASE UNCHANGED vars
  BY <1>1, <1>7 DEF vars, cardVars
<1>. QED  BY <1>2, <1>3, <1>4, <1>5, <1>6, <1>7 DEF Next, Scheduler

\* The review date of an active card was computed from its present cadence since
\* it last became active, or written by hand, whatever residents, officers and
\* jobs do to it, for any number of cards, cadences and workers.
THEOREM DateIsCurrentCorrect == Spec => []DateIsCurrent
<1>1. Init => DatesOK /\ DateIsCurrent
  BY GateAssumption DEF Init, DatesOK, DateIsCurrent
<1>. QED  BY <1>1, GateCorrect, CurrentStep, PTL DEF Spec

\* A pass that was used, revoked or has expired is never valid again: officers,
\* residents and jobs in any number change only pending ones.
THEOREM PassesEndOnceCorrect == Spec => PassesEndOnce
<1> DEFINE Kept == \A p \in Pass :
               pass[p] \in {"used", "revoked", "expired"} => pass'[p] \in {pass[p], "gone"}
<1>1. GateInv /\ [Next]_vars => [Kept]_vars
  <2> SUFFICES ASSUME GateInv, Next PROVE Kept
    OBVIOUS
  <2>0. TypeOK
    BY DEF GateInv
  <2>1. ASSUME UNCHANGED pass PROVE Kept
    BY <2>1
  <2>2. ASSUME NEW p, NEW st, SetPass(p, st) PROVE Kept
    BY <2>0, <2>2 DEF SetPass, TypeOK
  <2>3. ASSUME NEW o \in Officer, Gatehouse(o) PROVE Kept
    <3>1. CASE FlipPass(o)
      BY <2>2, <3>1 DEF FlipPass
    <3>2. CASE ~FlipPass(o)
      BY <2>1, <2>3, <3>2
         DEF Gatehouse, ScanPass, CheckInRead, ScanCardRead, LogPass, CheckInWrite,
             ScanCardWrite, Abandon, passVars
    <3>. QED  BY <3>1, <3>2
  <2>4. CASE Resident
    <3>1. ASSUME NEW p \in Pass, IssuePass(p) \/ DeletePass(p) PROVE Kept
      BY <2>0, <3>1 DEF IssuePass, DeletePass, TypeOK
    <3>2. ASSUME NEW p \in Pass, RevokePass(p) PROVE Kept
      BY <2>2, <3>2 DEF RevokePass
    <3>3. ASSUME NEW v \in Visit, ScheduleVisit(v) \/ CancelVisit(v) \/ DeleteVisit(v)
          PROVE  Kept
      BY <2>1, <3>3 DEF ScheduleVisit, CancelVisit, DeleteVisit, SetVisit, passVars
    <3>4. ASSUME NEW c \in Card, NEW f, NEW st, NEW date,
                 \/ IssueCard(c, st, f, date) \/ EditCard(c, st, f, date)
                 \/ DeleteCard(c)
          PROVE  Kept
      BY <2>1, <3>4 DEF IssueCard, EditCard, DeleteCard, passVars
    <3>. QED  BY <2>4, <3>1, <3>2, <3>3, <3>4 DEF Resident
  <2>5. CASE Time
    BY <2>1, <2>5 DEF Time, PassRunsOut, VisitRunsOut, CardRunsOut, passVars
  <2>6. ASSUME NEW w \in Worker, ExpirePasses(w) PROVE Kept
    BY <2>0, <2>6 DEF ExpirePasses, TypeOK
  <2>7. ASSUME NEW w \in Worker, ExpireVisits(w) \/ ReviewCards(w) \/ Crash(w) \/ Restart(w)
        PROVE  Kept
    BY <2>1, <2>7 DEF ExpireVisits, ReviewCards, Crash, Restart, SetWorker, passVars
  <2>. QED  BY <2>3, <2>4, <2>5, <2>6, <2>7 DEF Next, Scheduler
<1>. QED  BY <1>1, GateCorrect, PTL DEF Spec, PassesEndOnce

\* A revoked card is brought back by its resident alone, whatever scans and
\* reviews were under way when it was revoked.
THEOREM RevokedUntilResidentCorrect == Spec => RevokedUntilResident
<1> DEFINE Kept == \A c \in Card :
               card[c] = "revoked" /\ card'[c] \notin {"revoked", "gone"} =>
                 \E f \in Cadences \cup {NULL}, date \in HandDates \cup {"kept"} :
                   EditCard(c, card'[c], f, date)
<1>1. GateInv /\ [Next]_vars => [Kept]_vars
  <2> SUFFICES ASSUME GateInv, Next PROVE Kept
    OBVIOUS
  <2>0. TypeOK
    BY DEF GateInv
  <2>1. ASSUME UNCHANGED card PROVE Kept
    BY <2>1
  <2>2. ASSUME NEW o \in Officer, Gatehouse(o) PROVE Kept
    <3>1. CASE ScanCardWrite(o)
      BY <2>0, <2>1, <3>1 DEF ScanCardWrite, WriteCard, cardVars, TypeOK
    <3>2. CASE ~ScanCardWrite(o)
      BY <2>1, <2>2, <3>2
         DEF Gatehouse, ScanPass, CheckInRead, ScanCardRead, FlipPass, LogPass,
             CheckInWrite, Abandon, cardVars
    <3>. QED  BY <3>1, <3>2
  <2>3. CASE Resident
    <3>1. ASSUME NEW c \in Card, NEW f \in Cadences \cup {NULL}, NEW st,
                 NEW date \in HandDates \cup {"kept"}, EditCard(c, st, f, date)
          PROVE  Kept
      <4>1. card' = [card EXCEPT ![c] = st]
        BY <3>1 DEF EditCard, WriteCard
      <4>2. card'[c] = st
        BY <2>0, <4>1 DEF TypeOK
      <4>. QED  BY <2>0, <3>1, <4>1, <4>2 DEF TypeOK
    <3>2. ASSUME NEW c \in Card, NEW f, NEW st, NEW date,
                 IssueCard(c, st, f, date) \/ DeleteCard(c)
          PROVE  Kept
      BY <2>0, <3>2 DEF IssueCard, DeleteCard, WriteCard, TypeOK
    <3>3. ASSUME \/ \E p \in Pass : IssuePass(p) \/ RevokePass(p) \/ DeletePass(p)
                 \/ \E v \in Visit : ScheduleVisit(v) \/ CancelVisit(v) \/ DeleteVisit(v)
          PROVE  Kept
      BY <2>1, <3>3
         DEF IssuePass, RevokePass, DeletePass, ScheduleVisit, CancelVisit, DeleteVisit,
             SetVisit, cardVars
    <3>. QED  BY <2>3, <3>1, <3>2, <3>3 DEF Resident
  <2>4. CASE Time
    BY <2>1, <2>4 DEF Time, PassRunsOut, VisitRunsOut, CardRunsOut, cardVars
  <2>5. ASSUME NEW w \in Worker, ReviewCards(w) PROVE Kept
    BY <2>0, <2>5 DEF ReviewCards, TypeOK
  <2>6. ASSUME NEW w \in Worker, ExpirePasses(w) \/ ExpireVisits(w) \/ Crash(w) \/ Restart(w)
        PROVE  Kept
    BY <2>1, <2>6 DEF ExpirePasses, ExpireVisits, Crash, Restart, SetWorker, cardVars
  <2>. QED  BY <2>2, <2>3, <2>4, <2>5, <2>6 DEF Next, Scheduler
<1>. QED  BY <1>1, GateCorrect, PTL DEF Spec, RevokedUntilResident
=============================================================================
