-------------------------------- MODULE Gate --------------------------------
(***************************************************************************)
(* Who may enter the estate: single-use visitor passes, visits scheduled   *)
(* by name, and the standing cards of household members.  Officers check   *)
(* them at the gate, residents issue and withdraw them, and the scheduler  *)
(* in every API worker retires what has run out of time.                   *)
(*                                                                         *)
(* A row policy is evaluated on the newest version of the row an UPDATE    *)
(* locks, a SELECT before it on an older one; so each request of an        *)
(* officer is a read followed by one or two writes.  Passing time is       *)
(* abstracted to whether a deadline has passed.                            *)
(***************************************************************************)
EXTENDS Naturals

CONSTANTS
  Officer,                \* officers' requests in progress
  Worker,                 \* API worker processes, each with its own scheduler
  Pass, Visit, Card,      \* ids of visitor_passes, scheduled_visits, household_members
  Cadences,               \* review frequencies
  HandDates,              \* bound on the review dates a resident writes by hand
  MaxCheckIns,            \* bound on check-ins of a visit
  NULL

ASSUME GateAssumption ==
  /\ NULL \notin Officer \cup Pass \cup Visit \cup Card \cup Cadences \cup {"hand"}
  /\ "hand" \notin Cadences
  /\ HandDates \subseteq {"absent", "ahead", "passed"}
  /\ MaxCheckIns \in Nat

VARIABLES
  pass,         \* visitor_passes.status; "none" before and "gone" after the row
  passLate,     \* valid_until < now()
  passNotices,  \* visitor_pass_used notifications about a pass
  passLogs,     \* visitor_logs rows with this pass_id
  visit,        \* scheduled_visits.status
  visitLate,    \* scheduled_for < now() - 6 hours
  visitLogs,    \* visitor_logs rows check_in_scheduled_visit wrote for a visit
  card,         \* household_members.status
  cadence,      \* review_frequency
  review,       \* next_review_at: absent, ahead, or passed
  dated,        \* history: the cadence that date was computed from since the card is
                \* active; "hand" if the resident wrote it
  worker,       \* whether a worker process runs
  call          \* what each officer's request is doing

passVars == <<pass, passLate, passNotices, passLogs>>
visitVars == <<visit, visitLate, visitLogs>>
cardVars == <<card, cadence, review, dated>>
vars == <<passVars, visitVars, cardVars, worker, call>>

-----------------------------------------------------------------------------
Ticket == Pass \cup Visit \cup Card
Call == [pc: {"idle", "flip", "log", "checkin", "scan"}, id: Ticket \cup {NULL}]
Idle == [pc |-> "idle", id |-> NULL]

CardStatus == {"active", "pending_review", "revoked"}
Dates == {"absent", "ahead", "passed"}

TypeOK ==
  /\ pass \in [Pass -> {"none", "pending", "used", "expired", "revoked", "gone"}]
  /\ passLate \in [Pass -> BOOLEAN]
  /\ passNotices \in [Pass -> Nat]
  /\ passLogs \in [Pass -> Nat]
  /\ visit \in [Visit -> {"none", "pending", "arrived", "expired", "cancelled", "gone"}]
  /\ visitLate \in [Visit -> BOOLEAN]
  /\ visitLogs \in [Visit -> Nat]
  /\ card \in [Card -> CardStatus \cup {"none", "gone"}]
  /\ cadence \in [Card -> Cadences \cup {NULL}]
  /\ review \in [Card -> Dates]
  /\ dated \in [Card -> Cadences \cup {NULL, "hand"}]
  /\ worker \in [Worker -> {"up", "down"}]
  /\ call \in [Officer -> Call]

Init ==
  /\ pass = [p \in Pass |-> "none"]
  /\ passLate = [p \in Pass |-> FALSE]
  /\ passNotices = [p \in Pass |-> 0]
  /\ passLogs = [p \in Pass |-> 0]
  /\ visit = [v \in Visit |-> "none"]
  /\ visitLate = [v \in Visit |-> FALSE]
  /\ visitLogs = [v \in Visit |-> 0]
  /\ card = [c \in Card |-> "none"]
  /\ cadence = [c \in Card |-> NULL]
  /\ review = [c \in Card |-> "absent"]
  /\ dated = [c \in Card |-> NULL]
  /\ worker = [w \in Worker |-> "up"]
  /\ call = [o \in Officer |-> Idle]

At(o, pc) == call[o].pc = pc
Begin(o, pc, id) ==
  At(o, "idle") /\ call' = [call EXCEPT ![o] = [pc |-> pc, id |-> id]]
End(o) == call' = [call EXCEPT ![o] = Idle]

\* The officer's app or the connection dies between two requests, or a
\* statement fails: nothing more is written.
Abandon(o) == ~At(o, "idle") /\ End(o) /\ UNCHANGED <<passVars, visitVars, cardVars, worker>>

-----------------------------------------------------------------------------
\* Mutant: the policy does not look at the status.
SetAnyPass(p, st) ==
  /\ pass[p] \notin {"none", "gone"}
  /\ pass' = [pass EXCEPT ![p] = st]
  /\ passNotices' = IF st = "used" THEN [passNotices EXCEPT ![p] = @ + 1] ELSE passNotices

\* Visitor passes.  The policy lets an UPDATE touch only a pending row, for the
\* officer who flips it, the resident who revokes it and anybody else.
SetPass(p, st) ==
  /\ pass[p] = "pending"
  /\ pass' = [pass EXCEPT ![p] = st]
  /\ passNotices' = IF st = "used" THEN [passNotices EXCEPT ![p] = @ + 1] ELSE passNotices

IssuePass(p) ==
  /\ pass[p] = "none"
  /\ pass' = [pass EXCEPT ![p] = "pending"]
  /\ UNCHANGED <<passLate, passNotices, passLogs, visitVars, cardVars, worker, call>>

RevokePass(p) ==
  /\ SetPass(p, "revoked")
  /\ UNCHANGED <<passLate, passLogs, visitVars, cardVars, worker, call>>

DeletePass(p) ==
  /\ pass[p] \notin {"none", "gone"}
  /\ pass' = [pass EXCEPT ![p] = "gone"]
  /\ passLate' = [passLate EXCEPT ![p] = FALSE]
  /\ UNCHANGED <<passNotices, passLogs, visitVars, cardVars, worker, call>>

PassRunsOut(p) ==
  /\ pass[p] \notin {"none", "gone"}
  /\ passLate' = [passLate EXCEPT ![p] = TRUE]
  /\ UNCHANGED <<pass, passNotices, passLogs, visitVars, cardVars, worker, call>>

\* The officer's app sees a pending pass, flips it and, if a row was updated,
\* writes the gate log in a request of its own.
ScanPass(o, p) ==
  /\ pass[p] = "pending"
  /\ Begin(o, "flip", p)
  /\ UNCHANGED <<passVars, visitVars, cardVars, worker>>

FlipPass(o) ==
  LET p == call[o].id
  IN
  /\ At(o, "flip")
  /\ SetPass(p, "used")
  /\ call' = [call EXCEPT ![o].pc = "log"]
  /\ UNCHANGED <<passLate, passLogs, visitVars, cardVars, worker>>

LogPass(o) ==
  LET p == call[o].id
  IN
  /\ At(o, "log")
  /\ pass[p] # "gone"
  /\ passLogs' = [passLogs EXCEPT ![p] = @ + 1]
  /\ End(o)
  /\ UNCHANGED <<pass, passLate, passNotices, visitVars, cardVars, worker>>

-----------------------------------------------------------------------------
\* Scheduled visits.  The resident's own statements do not look at the status;
\* check_in_scheduled_visit looks once, then updates whatever row is there and
\* logs the arrival, also when the row is gone.
SetVisit(v, from, st) ==
  /\ visit[v] \in from
  /\ visit' = [visit EXCEPT ![v] = st]
  /\ UNCHANGED <<visitLate, visitLogs, passVars, cardVars, worker, call>>

ScheduleVisit(v) == SetVisit(v, {"none"}, "pending")
CancelVisit(v) == SetVisit(v, {"pending", "arrived", "expired"}, "cancelled")
DeleteVisit(v) ==
  /\ visit[v] \notin {"none", "gone"}
  /\ visit' = [visit EXCEPT ![v] = "gone"]
  /\ visitLate' = [visitLate EXCEPT ![v] = FALSE]
  /\ UNCHANGED <<visitLogs, passVars, cardVars, worker, call>>

VisitRunsOut(v) ==
  /\ visit[v] \notin {"none", "gone"}
  /\ visitLate' = [visitLate EXCEPT ![v] = TRUE]
  /\ UNCHANGED <<visit, visitLogs, passVars, cardVars, worker, call>>

CheckInRead(o, v) ==
  /\ visit[v] = "pending"
  /\ Begin(o, "checkin", v)
  /\ UNCHANGED <<passVars, visitVars, cardVars, worker>>

CheckInWrite(o) ==
  LET v == call[o].id
  IN
  /\ At(o, "checkin") /\ visitLogs[v] < MaxCheckIns
  /\ visit' = IF visit[v] = "gone" THEN visit ELSE [visit EXCEPT ![v] = "arrived"]
  /\ visitLogs' = [visitLogs EXCEPT ![v] = @ + 1]
  /\ End(o)
  /\ UNCHANGED <<visitLate, passVars, cardVars, worker>>

-----------------------------------------------------------------------------
\* Mutant: a changed cadence is not looked at.
RecomputesOnce(c, st, f) ==
  f # NULL /\ (card[c] = "none" \/ (st = "active" /\ card[c] # "active"))

\* Household cards.  set_household_next_review runs before every insert and
\* update and overrides the date of the statement, a date or "kept", in three
\* cases; a card that is not active has no current date.
Recomputes(c, st, f) ==
  f # NULL /\ (card[c] = "none" \/ f # cadence[c] \/ (st = "active" /\ card[c] # "active"))

NextReview(c, st, f, date) ==
  IF Recomputes(c, st, f) THEN "ahead" ELSE IF date = "kept" THEN review[c] ELSE date

DatedBy(c, st, f, date) ==
  IF Recomputes(c, st, f) THEN f
  ELSE IF date # "kept" THEN "hand"
  ELSE IF st = "active" THEN dated[c] ELSE NULL

WriteCard(c, st, f, date) ==
  /\ card' = [card EXCEPT ![c] = st]
  /\ cadence' = [cadence EXCEPT ![c] = f]
  /\ review' = [review EXCEPT ![c] = NextReview(c, st, f, date)]
  /\ dated' = [dated EXCEPT ![c] = DatedBy(c, st, f, date)]

\* The policy of cards is for all commands and looks at no column but the owner:
\* the resident writes any status, cadence and date.
IssueCard(c, st, f, date) ==
  /\ card[c] = "none"
  /\ WriteCard(c, st, f, date)
  /\ UNCHANGED <<passVars, visitVars, worker, call>>

EditCard(c, st, f, date) ==
  /\ card[c] \notin {"none", "gone"}
  /\ WriteCard(c, st, f, date)
  /\ UNCHANGED <<passVars, visitVars, worker, call>>

DeleteCard(c) ==
  /\ card[c] \notin {"none", "gone"}
  /\ card' = [card EXCEPT ![c] = "gone"]
  /\ cadence' = [cadence EXCEPT ![c] = NULL]
  /\ review' = [review EXCEPT ![c] = "absent"]
  /\ dated' = [dated EXCEPT ![c] = NULL]
  /\ UNCHANGED <<passVars, visitVars, worker, call>>

CardRunsOut(c) ==
  /\ review[c] = "ahead"
  /\ review' = [review EXCEPT ![c] = "passed"]
  /\ UNCHANGED <<card, cadence, dated, passVars, visitVars, worker, call>>

\* A scan reads the status, then sets last_scanned_at, which nothing else
\* depends on, of whatever row is there; the trigger sees that update too.
ScanCardRead(o, c) ==
  /\ card[c] = "active"
  /\ Begin(o, "scan", c)
  /\ UNCHANGED <<passVars, visitVars, cardVars, worker>>

\* Mutant: the scan writes back the status it read.
ScanCardStale(o) ==
  LET c == call[o].id
  IN
  /\ At(o, "scan")
  /\ IF card[c] = "gone" THEN UNCHANGED cardVars
     ELSE WriteCard(c, "active", cadence[c], "kept")
  /\ End(o)
  /\ UNCHANGED <<passVars, visitVars, worker>>

ScanCardWrite(o) ==
  LET c == call[o].id
  IN
  /\ At(o, "scan")
  /\ IF card[c] = "gone" THEN UNCHANGED cardVars
     ELSE WriteCard(c, card[c], cadence[c], "kept")
  /\ End(o)
  /\ UNCHANGED <<passVars, visitVars, worker>>

-----------------------------------------------------------------------------
\* Mutant: the job also expires passes that were used or revoked.
ExpireAllPasses(w) ==
  LET stale == {p \in Pass : pass[p] \in {"pending", "used", "revoked"} /\ passLate[p]}
  IN
  /\ worker[w] = "up" /\ stale # {}
  /\ pass' = [p \in Pass |-> IF p \in stale THEN "expired" ELSE pass[p]]
  /\ UNCHANGED <<passLate, passNotices, passLogs, visitVars, cardVars, worker, call>>

\* The jobs of the scheduler, each one guarded UPDATE over all rows.
ExpirePasses(w) ==
  LET stale == {p \in Pass : pass[p] = "pending" /\ passLate[p]}
  IN
  /\ worker[w] = "up" /\ stale # {}
  /\ pass' = [p \in Pass |-> IF p \in stale THEN "expired" ELSE pass[p]]
  /\ UNCHANGED <<passLate, passNotices, passLogs, visitVars, cardVars, worker, call>>

ExpireVisits(w) ==
  LET stale == {v \in Visit : visit[v] = "pending" /\ visitLate[v]}
  IN
  /\ worker[w] = "up" /\ stale # {}
  /\ visit' = [v \in Visit |-> IF v \in stale THEN "expired" ELSE visit[v]]
  /\ UNCHANGED <<visitLate, visitLogs, passVars, cardVars, worker, call>>

\* Mutant: the job compares the dates the wrong way round.
ReviewEarly(w) ==
  LET stale == {c \in Card : card[c] = "active" /\ review[c] = "ahead"}
  IN
  /\ worker[w] = "up" /\ stale # {}
  /\ card' = [c \in Card |-> IF c \in stale THEN "pending_review" ELSE card[c]]
  /\ dated' = [c \in Card |-> IF c \in stale THEN NULL ELSE dated[c]]
  /\ UNCHANGED <<cadence, review, passVars, visitVars, worker, call>>

ReviewCards(w) ==
  LET stale == {c \in Card : card[c] = "active" /\ review[c] = "passed"}
  IN
  /\ worker[w] = "up" /\ stale # {}
  /\ card' = [c \in Card |-> IF c \in stale THEN "pending_review" ELSE card[c]]
  /\ dated' = [c \in Card |-> IF c \in stale THEN NULL ELSE dated[c]]
  /\ UNCHANGED <<cadence, review, passVars, visitVars, worker, call>>

\* A worker process dies, and its container starts it again.
SetWorker(w, from, to) ==
  /\ worker[w] = from
  /\ worker' = [worker EXCEPT ![w] = to]
  /\ UNCHANGED <<passVars, visitVars, cardVars, call>>

Crash(w) == SetWorker(w, "up", "down")
Restart(w) == SetWorker(w, "down", "up")

-----------------------------------------------------------------------------
Gatehouse(o) ==
  \/ \E p \in Pass : ScanPass(o, p)
  \/ \E v \in Visit : CheckInRead(o, v)
  \/ \E c \in Card : ScanCardRead(o, c)
  \/ FlipPass(o) \/ LogPass(o) \/ CheckInWrite(o) \/ ScanCardWrite(o)
  \/ Abandon(o)

Resident ==
  \/ \E p \in Pass : IssuePass(p) \/ RevokePass(p) \/ DeletePass(p)
  \/ \E v \in Visit : ScheduleVisit(v) \/ CancelVisit(v) \/ DeleteVisit(v)
  \/ \E c \in Card, st \in CardStatus, f \in Cadences \cup {NULL}, date \in HandDates \cup {"kept"} :
       IssueCard(c, st, f, date) \/ EditCard(c, st, f, date)
  \/ \E c \in Card : DeleteCard(c)

Time ==
  \/ \E p \in Pass : PassRunsOut(p)
  \/ \E v \in Visit : VisitRunsOut(v)
  \/ \E c \in Card : CardRunsOut(c)

Scheduler(w) == ExpirePasses(w) \/ ExpireVisits(w) \/ ReviewCards(w)

Next ==
  \/ \E o \in Officer : Gatehouse(o)
  \/ Resident
  \/ Time
  \/ \E w \in Worker : Scheduler(w) \/ Crash(w) \/ Restart(w)

Spec == Init /\ [][Next]_vars

\* Every job comes round again on some worker that stays up long enough, and a
\* dead worker is started again; residents and officers owe nothing.
FairSpec ==
  /\ Spec
  /\ SF_vars(\E w \in Worker : ExpirePasses(w))
  /\ SF_vars(\E w \in Worker : ExpireVisits(w))
  /\ SF_vars(\E w \in Worker : ReviewCards(w))
  /\ \A w \in Worker : WF_vars(Restart(w))

-----------------------------------------------------------------------------
\* A pass lets one visitor in: two officers scanning it at once, or one officer
\* retrying, never log two entries for it, and each entry was preceded by
\* telling the resident.
PassAdmitsOnce ==
  \A p \in Pass : passLogs[p] <= passNotices[p] /\ passNotices[p] <= 1

\* A pass that was used, revoked or has expired keeps that status: nobody can
\* make a single-use credential reusable.
PassesEndOnce ==
  [][\A p \in Pass :
       pass[p] \in {"used", "revoked", "expired"} => pass'[p] \in {pass[p], "gone"}]_vars

\* The strengthening of PassAdmitsOnce: one officer at most is between flipping
\* a pass and logging the entry.
Logging(p) == {o \in Officer : At(o, "log") /\ call[o].id = p}

PassOK(p) ==
  /\ pass[p] \in {"none", "pending"} => passNotices[p] = 0
  /\ passNotices[p] <= 1
  /\ \A o, q \in Logging(p) : o = q
  /\ Logging(p) # {} => passLogs[p] < passNotices[p]
  /\ passLogs[p] <= passNotices[p]

CallOK(o) ==
  LET c == call[o]
  IN /\ c.pc \in {"flip", "log"} => c.id \in Pass
     /\ c.pc = "checkin" => c.id \in Visit
     /\ c.pc = "scan" => c.id \in Card

GateInv == TypeOK /\ (\A o \in Officer : CallOK(o)) /\ \A p \in Pass : PassOK(p)

\* The review date of an active card is never stale: it was computed from the
\* cadence the card has now, and since the card last became active, through every
\* order of issuing, scanning, lapsing, reactivating and changing the cadence.
\* Excepted is a date the resident wrote without the app.
DateIsCurrent ==
  \A c \in Card : card[c] = "active" /\ cadence[c] # NULL =>
    dated[c] = "hand" \/ (dated[c] = cadence[c] /\ review[c] # "absent")

\* Only the resident brings a revoked card back: no scan or review in flight
\* while it is revoked does.
RevokedUntilResident ==
  [][\A c \in Card :
       card[c] = "revoked" /\ card'[c] \notin {"revoked", "gone"} =>
         \E f \in Cadences \cup {NULL}, date \in HandDates \cup {"kept"} :
           EditCard(c, card'[c], f, date)]_vars

\* Nothing that has run out of time stays valid for ever.
NothingStaysStale ==
  /\ \A p \in Pass : pass[p] = "pending" /\ passLate[p] ~> pass[p] # "pending"
  /\ \A v \in Visit : visit[v] = "pending" /\ visitLate[v] ~> visit[v] # "pending"
  /\ \A c \in Card : card[c] = "active" /\ review[c] = "passed"
                       ~> card[c] # "active" \/ review[c] # "passed"
=============================================================================
