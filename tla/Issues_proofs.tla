---------------------------- MODULE Issues_proofs ----------------------------
(***************************************************************************)
(* Proofs about Issues: the row lock under which a trigger sees the old    *)
(* and the new status makes the activity log one chain, for any number of  *)
(* overlapping calls and changes.                                          *)
(***************************************************************************)
EXTENDS Issues, TLAPS

-----------------------------------------------------------------------------
(* What the helpers do to call.                                            *)

LEMMA MoveType ==
  ASSUME TypeOK, NEW i \in Issue, NEW s, Move(i, s)
  PROVE  /\ call' \in [Session -> Call \cup {NULL}]
         /\ \A x \in Session : call'[x] # NULL =>
              /\ call[x] # NULL /\ call'[x].op = call[x].op
              /\ call'[x].issue = call[x].issue
              /\ call'[x].moved = (call[x].moved \/ call[x].issue = i)
<1>1. ASSUME NEW x \in Session, call'[x] # NULL
      PROVE  /\ call'[x] \in Call
             /\ call[x] # NULL /\ call'[x].op = call[x].op
             /\ call'[x].issue = call[x].issue
             /\ call'[x].moved = (call[x].moved \/ call[x].issue = i)
  <2>1. call[x] \in Call
    BY <1>1 DEF Move, TypeOK
  <2>2. CASE call[x].issue = i
    <3> DEFINE c == [call[x] EXCEPT !.moved = TRUE]
    <3>1. call'[x] = c
      BY <1>1, <2>1, <2>2 DEF Move
    <3>2. c \in Call /\ c.op = call[x].op /\ c.issue = i /\ c.moved = TRUE
      BY <2>1, <2>2 DEF Call
    <3>. QED  BY <1>1, <2>1, <2>2, <3>1, <3>2 DEF Move
  <2>3. CASE call[x].issue # i
    <3>1. call'[x] = call[x]
      BY <1>1, <2>3 DEF Move
    <3>2. call[x].moved \in BOOLEAN
      BY <2>1 DEF Call
    <3>. QED  BY <1>1, <2>1, <2>3, <3>1, <3>2 DEF Move
  <2>. QED  BY <2>2, <2>3
<1>2. call' = [x \in Session |-> call'[x]]
  BY DEF Move
<1>. QED  BY <1>1, <1>2

\* A session that begins a call, or ends one, disturbs no other.
LEMMA BeginType ==
  ASSUME TypeOK, NEW s \in Session, NEW c \in Call \cup {NULL}, Begin(s, c)
  PROVE  /\ call' \in [Session -> Call \cup {NULL}]
         /\ call'[s] = c
         /\ \A x \in Session \ {s} : call'[x] = call[x]
  BY DEF TypeOK, Begin

\* Steps that change no row, log or notice of status.
LEMMA QuietStep ==
  ASSUME IssuesInv, TypeOK', UNCHANGED <<issue, activity, told>>,
         \A i \in Issue : rung[i] # <<>> => rung'[i] # <<>>,
         \A s \in Session : CommentOK(s)'
  PROVE  IssuesInv'
<1>1. ActivityChains'
  BY DEF IssuesInv, ActivityChains, Exists, StatusAfter
<1>2. ToldOfEveryChange'
  BY DEF IssuesInv, ToldOfEveryChange, Exists
<1>3. \A i \in Issue : UnusedOK(i)'
  BY DEF IssuesInv, UnusedOK, Exists
<1>. QED  BY <1>1, <1>2, <1>3 DEF IssuesInv

\* A session ends its call and nothing else happens.
LEMMA EndStep ==
  ASSUME IssuesInv, NEW s \in Session, Begin(s, NULL), UNCHANGED <<rows, notices>>
  PROVE  IssuesInv'
<1>1. /\ call' \in [Session -> Call \cup {NULL}] /\ call'[s] = NULL
      /\ \A x \in Session \ {s} : call'[x] = call[x]
  BY BeginType DEF IssuesInv
<1>2. TypeOK'
  BY <1>1 DEF IssuesInv, TypeOK, rows, notices
<1>3. \A x \in Session : CommentOK(x)'
  BY <1>1 DEF IssuesInv, CommentOK, At, Exists, rows
<1>. QED  BY <1>2, <1>3, QuietStep DEF rows, notices

\* A session begins a call with a snapshot of an issue that exists.
LEMMA BeginStep ==
  ASSUME IssuesInv, NEW s \in Session, NEW c \in Call, Begin(s, c),
         c.op = "comment" => Exists(c.issue) /\ issue[c.issue].status = "resolved",
         UNCHANGED <<rows, notices>>
  PROVE  IssuesInv'
<1>1. /\ call' \in [Session -> Call \cup {NULL}] /\ call'[s] = c
      /\ \A x \in Session \ {s} : call'[x] = call[x]
  BY BeginType DEF IssuesInv
<1>2. TypeOK'
  BY <1>1 DEF IssuesInv, TypeOK, rows, notices
<1>3. \A x \in Session : CommentOK(x)'
  BY <1>1 DEF IssuesInv, CommentOK, At, Exists, rows
<1>. QED  BY <1>2, <1>3, QuietStep DEF rows, notices

-----------------------------------------------------------------------------
(* The initial state and the steps.                                        *)

LEMMA InitIssues == Init => IssuesInv
<1> SUFFICES ASSUME Init PROVE IssuesInv
  OBVIOUS
<1>1. TypeOK
  BY DEF Init, TypeOK
<1>. QED  BY <1>1 DEF Init, IssuesInv, ActivityChains, ToldOfEveryChange, Exists,
          CommentOK, At, UnusedOK

LEMMA ReportStep ==
  ASSUME IssuesInv, NEW p \in Reporter, NEW i \in Issue, NEW st \in Status,
         Report(p, i, st)
  PROVE  IssuesInv'
<1> DEFINE r == [by |-> p, status |-> st, first |-> st]
<1>1. r \in IssueRow /\ r.status = st /\ r.first = st
  BY DEF IssueRow
<1>2. /\ TypeOK /\ rung[i] = <<>>
      /\ issue' = [issue EXCEPT ![i] = r]
      /\ rung' = [rung EXCEPT ![i] = <<"staff">>]
      /\ UNCHANGED <<activity, thread, told, call>>
  BY DEF Report, IssuesInv
<1> HIDE DEF r
<1>3. ~Exists(i) /\ activity[i] = <<>> /\ told[i] = <<>>
  BY <1>2 DEF IssuesInv, UnusedOK
<1>4. TypeOK'
  BY <1>1, <1>2 DEF TypeOK
<1>5. /\ issue'[i] = r /\ Exists(i)'
      /\ \A k \in Issue \ {i} : issue'[k] = issue[k] /\ rung'[k] = rung[k]
      /\ rung'[i] # <<>>
  BY <1>1, <1>2, IssuesAssumption DEF TypeOK, Exists, IssueRow
<1>6. ActivityChains'
  <2>1. \A k \in Issue \ {i} : \A n : StatusAfter(k, n)' = StatusAfter(k, n)
    BY <1>2, <1>5 DEF StatusAfter
  <2>. QED  BY <1>1, <1>2, <1>3, <1>5, <2>1 DEF IssuesInv, ActivityChains, Exists, StatusAfter
<1>7. ToldOfEveryChange'
  BY <1>2, <1>3, <1>5 DEF IssuesInv, ToldOfEveryChange, Exists
<1>8. \A k \in Issue : UnusedOK(k)'
  BY <1>2, <1>5 DEF IssuesInv, UnusedOK, Exists
<1>9. ASSUME NEW s \in Session PROVE CommentOK(s)'
  <2>1. CommentOK(s)
    BY DEF IssuesInv
  <2>2. CASE At(s, "comment")
    <3>1. call[s].issue \in Issue
      BY <1>2, <2>2 DEF At, TypeOK, Call
    <3>. QED  BY <1>2, <1>3, <1>5, <2>1, <2>2, <3>1 DEF CommentOK, At, Exists
  <2>. QED  BY <1>2, <2>2 DEF CommentOK, At
<1>. QED  BY <1>4, <1>6, <1>7, <1>8, <1>9 DEF IssuesInv

LEMMA DeleteStep ==
  ASSUME IssuesInv, NEW i \in Issue, Delete(i)
  PROVE  IssuesInv'
<1>1. /\ TypeOK /\ Exists(i) /\ Move(i, NULL)
      /\ issue' = [issue EXCEPT ![i] = NULL]
      /\ activity' = [activity EXCEPT ![i] = <<>>]
      /\ thread' = [thread EXCEPT ![i] = <<>>]
      /\ UNCHANGED <<told, rung>>
  BY DEF Delete, IssuesInv, notices
<1>2. /\ call' \in [Session -> Call \cup {NULL}]
      /\ \A x \in Session : call'[x] # NULL =>
           /\ call[x] # NULL /\ call'[x].op = call[x].op
           /\ call'[x].issue = call[x].issue
           /\ call'[x].moved = (call[x].moved \/ call[x].issue = i)
  BY <1>1, MoveType
<1>3. TypeOK'
  BY <1>1, <1>2 DEF TypeOK
<1>4. /\ ~Exists(i)' /\ rung'[i] = rung[i] /\ rung[i] # <<>>
      /\ \A k \in Issue \ {i} : issue'[k] = issue[k] /\ activity'[k] = activity[k]
  BY <1>1 DEF TypeOK, Exists, IssuesInv, UnusedOK
<1>5. ActivityChains'
  BY <1>4 DEF IssuesInv, ActivityChains, Exists, StatusAfter
<1>6. ToldOfEveryChange'
  BY <1>1, <1>4 DEF IssuesInv, ToldOfEveryChange, Exists
<1>7. \A k \in Issue : UnusedOK(k)'
  BY <1>1, <1>4 DEF IssuesInv, UnusedOK, Exists
<1>8. ASSUME NEW s \in Session PROVE CommentOK(s)'
  <2>1. CASE At(s, "comment")'
    <3>1. At(s, "comment") /\ call[s].issue \in Issue
      BY <1>1, <1>2, <2>1 DEF At, TypeOK, Call
    <3>. QED  BY <1>2, <1>4, <2>1, <3>1 DEF IssuesInv, CommentOK, At, Exists
  <2>. QED  BY <2>1 DEF CommentOK
<1>. QED  BY <1>3, <1>5, <1>6, <1>7, <1>8 DEF IssuesInv

LEMMA UpdateStep ==
  ASSUME IssuesInv, NEW s \in Session, UpdateStatus(s)
  PROVE  IssuesInv'
<1>0. PICK i \in Issue : i = call[s].issue
  BY DEF UpdateStatus, At, IssuesInv, TypeOK, Call
<1>1. PICK e : e = [actor |-> call[s].by, from |-> issue[i].status, to |-> call[s].to]
  OBVIOUS
<1>2. /\ TypeOK /\ Exists(i) /\ Move(i, s)
      /\ issue[i].status # call[s].to
      /\ issue' = [issue EXCEPT ![i].status = call[s].to]
      /\ activity' = [activity EXCEPT ![i] = Append(@, e)]
      /\ told' = [told EXCEPT ![i] = Append(@, call[s].to)]
      /\ UNCHANGED <<thread, rung>>
  BY <1>0, <1>1 DEF UpdateStatus, Log, IssuesInv
<1>3. /\ issue[i] \in IssueRow /\ call[s].to \in Status
      /\ e \in Entry /\ e.from = issue[i].status /\ e.to = call[s].to
  <2>1. issue[i] \in IssueRow /\ call[s] \in Call
    BY <1>2 DEF UpdateStatus, At, Exists, TypeOK
  <2>. QED  BY <1>1, <2>1 DEF IssueRow, Call, Entry
<1>4. /\ issue'[i] # NULL /\ issue'[i] \in IssueRow
      /\ issue'[i].status = e.to /\ issue'[i].first = issue[i].first
      /\ \A k \in Issue \ {i} : issue'[k] = issue[k]
  <2>1. PICK r : r = [issue[i] EXCEPT !.status = call[s].to]
    OBVIOUS
  <2>2. issue' = [issue EXCEPT ![i] = r]
    BY <1>2, <2>1
  <2>3. r \in IssueRow /\ r.status = call[s].to /\ r.first = issue[i].first
    BY <1>3, <2>1 DEF IssueRow
  <2>4. r # NULL
    BY <2>3, IssuesAssumption
  <2>. QED  BY <1>1, <1>2, <2>2, <2>3, <2>4 DEF TypeOK
<1>5. /\ call' \in [Session -> Call \cup {NULL}]
      /\ \A x \in Session : call'[x] # NULL =>
           /\ call[x] # NULL /\ call'[x].op = call[x].op
           /\ call'[x].issue = call[x].issue
           /\ call'[x].moved = (call[x].moved \/ call[x].issue = i)
  BY <1>2, MoveType
<1>6. TypeOK'
  BY <1>2, <1>3, <1>4, <1>5 DEF TypeOK
<1>7. /\ activity[i] \in Seq(Entry) /\ activity'[i] = Append(activity[i], e)
      /\ told[i] \in Seq(Status) /\ told'[i] = Append(told[i], e.to)
      /\ \A k \in Issue \ {i} : activity'[k] = activity[k] /\ told'[k] = told[k]
  BY <1>1, <1>2 DEF TypeOK
<1>8. ActivityChains'
  <2>1. ASSUME NEW k \in Issue \ {i}, Exists(k)'
        PROVE  (/\ \A n \in DOMAIN activity[k] : activity[k][n].from = StatusAfter(k, n - 1)
                /\ issue[k].status = StatusAfter(k, Len(activity[k])))'
    BY <1>4, <1>7, <2>1 DEF IssuesInv, ActivityChains, Exists, StatusAfter
  <2>2. PICK m \in Nat : m = Len(activity[i])
    BY <1>7
  <2>3. /\ DOMAIN activity'[i] = 1..(m + 1) /\ DOMAIN activity[i] = 1..m
        /\ Len(activity'[i]) = m + 1
        /\ \A n \in 1..m : activity'[i][n] = activity[i][n]
        /\ activity'[i][m + 1] = e
    BY <1>7, <2>2
  <2>4. \A n \in 0..m : StatusAfter(i, n)' = StatusAfter(i, n)
    BY <1>4, <2>3 DEF StatusAfter
  <2>5. StatusAfter(i, m + 1)' = e.to
    BY <2>3 DEF StatusAfter
  <2>6. /\ \A n \in 1..m : activity[i][n].from = StatusAfter(i, n - 1)
        /\ issue[i].status = StatusAfter(i, m)
    BY <1>2, <2>2, <2>3 DEF IssuesInv, ActivityChains
  <2>7. ASSUME NEW n \in 1..(m + 1)
        PROVE  activity'[i][n].from = StatusAfter(i, n - 1)'
    <3>1. StatusAfter(i, n - 1)' = StatusAfter(i, n - 1)
      BY <2>4
    <3>2. CASE n \in 1..m
      BY <2>3, <2>6, <3>1, <3>2
    <3>3. CASE n = m + 1
      <4>1. n - 1 = m
        BY <3>3
      <4>. QED  BY <1>3, <2>3, <2>6, <3>1, <3>3, <4>1
    <3>. QED  BY <3>2, <3>3
  <2>8. (issue[i].status = StatusAfter(i, Len(activity[i])))'
    BY <1>4, <2>3, <2>5 DEF StatusAfter
  <2>. QED  BY <2>1, <2>3, <2>7, <2>8 DEF ActivityChains
<1>9. ToldOfEveryChange'
  <2>1. ASSUME NEW k \in Issue \ {i}, Exists(k)'
        PROVE  /\ Len(told'[k]) = Len(activity'[k])
               /\ \A n \in DOMAIN told'[k] : activity'[k][n].to = told'[k][n] /\
                                             activity'[k][n].from # told'[k][n]
    BY <1>4, <1>7, <2>1 DEF IssuesInv, ToldOfEveryChange, Exists
  <2>2. /\ Len(told[i]) = Len(activity[i])
        /\ \A n \in 1..Len(told[i]) : activity[i][n].to = told[i][n] /\
                                      activity[i][n].from # told[i][n]
    BY <1>2, <1>7 DEF IssuesInv, ToldOfEveryChange
  <2>3. e.from # e.to
    BY <1>1, <1>2
  <2>4. /\ Len(told'[i]) = Len(activity'[i])
        /\ \A n \in DOMAIN told'[i] : activity'[i][n].to = told'[i][n] /\
                                      activity'[i][n].from # told'[i][n]
    BY <1>7, <2>2, <2>3
  <2>. QED  BY <2>1, <2>4 DEF ToldOfEveryChange
<1>10. \A k \in Issue : UnusedOK(k)'
  BY <1>2, <1>4, <1>7 DEF IssuesInv, UnusedOK, Exists
<1>11. ASSUME NEW x \in Session PROVE CommentOK(x)'
  <2>1. CASE At(x, "comment")'
    <3>1. At(x, "comment") /\ call[x].issue \in Issue
      BY <1>2, <1>5, <2>1 DEF At, TypeOK, Call
    <3>. QED  BY <1>4, <1>5, <2>1, <3>1 DEF IssuesInv, CommentOK, At, Exists
  <2>. QED  BY <2>1 DEF CommentOK
<1>. QED  BY <1>6, <1>8, <1>9, <1>10, <1>11 DEF IssuesInv

LEMMA CommentStep ==
  ASSUME IssuesInv, NEW s \in Session, CommentInsert(s)
  PROVE  IssuesInv'
<1>0. PICK i \in Issue : i = call[s].issue
  BY DEF CommentInsert, At, IssuesInv, TypeOK, Call
<1>1. /\ TypeOK /\ Exists(i) /\ Begin(s, NULL)
      /\ thread' = [thread EXCEPT ![i] = Append(@, call[s].by)]
      /\ rung' = [rung EXCEPT ![i] =
                    Append(@, IF call[s].by = issue[i].by THEN "staff" ELSE "reporter")]
      /\ UNCHANGED <<issue, activity, told>>
  BY <1>0 DEF CommentInsert, IssuesInv
<1>2. /\ call' \in [Session -> Call \cup {NULL}] /\ call'[s] = NULL
      /\ \A x \in Session \ {s} : call'[x] = call[x]
  BY <1>1, BeginType
<1>3. call[s].by \in Profile
  BY DEF CommentInsert, At, IssuesInv, TypeOK, Call
<1>4. PICK to \in {"staff", "reporter"} : rung' = [rung EXCEPT ![i] = Append(@, to)]
  BY <1>1
<1>5. TypeOK'
  BY <1>1, <1>2, <1>3, <1>4 DEF TypeOK
<1>6. ASSUME NEW k \in Issue, rung[k] # <<>> PROVE rung'[k] # <<>>
  <2>1. rung[k] \in Seq({"staff", "reporter"})
    BY <1>1 DEF TypeOK
  <2>2. Append(rung[k], to) # <<>>
    BY <2>1
  <2>. QED  BY <1>1, <1>4, <1>6, <2>2 DEF TypeOK
<1>7. \A x \in Session : CommentOK(x)'
  BY <1>1, <1>2 DEF IssuesInv, CommentOK, At, Exists
<1>. QED  BY <1>1, <1>5, <1>6, <1>7, QuietStep

LEMMA IssuesStep == IssuesInv /\ [Next]_vars => IssuesInv'
<1> SUFFICES ASSUME IssuesInv, [Next]_vars PROVE IssuesInv'
  OBVIOUS
<1>1. ASSUME NEW i \in Issue, NEW p \in Reporter, NEW st \in Status, Report(p, i, st)
      PROVE  IssuesInv'
  BY <1>1, ReportStep
<1>2. ASSUME NEW i \in Issue, Delete(i) PROVE IssuesInv'
  BY <1>2, DeleteStep
<1>3. ASSUME NEW s \in Session, NEW p \in Profile, NEW i \in Issue, NEW st \in Status,
             UpdateBegin(s, p, i, st)
      PROVE  IssuesInv'
  <2>1. issue[i] \in IssueRow
    BY <1>3 DEF UpdateBegin, Exists, IssuesInv, TypeOK
  <2>2. PICK c : c = [op |-> "update", by |-> p, issue |-> i, saw |-> issue[i].status,
                      to |-> st, moved |-> FALSE]
    OBVIOUS
  <2>3. c \in Call /\ c.op # "comment"
    BY <2>1, <2>2 DEF Call, IssueRow
  <2>. QED  BY <1>3, <2>2, <2>3, BeginStep DEF UpdateBegin
<1>4. ASSUME NEW s \in Session, NEW p \in Profile, NEW i \in Issue, CommentBegin(s, p, i)
      PROVE  IssuesInv'
  <2>1. PICK c : c = [op |-> "comment", by |-> p, issue |-> i, saw |-> "resolved",
                      to |-> "resolved", moved |-> FALSE]
    OBVIOUS
  <2>2. c \in Call /\ c.issue = i
    BY <2>1 DEF Call, Status
  <2>. QED  BY <1>4, <2>1, <2>2, BeginStep DEF CommentBegin
<1>5. ASSUME NEW s \in Session,
             \/ UpdateNothing(s) \/ UpdateSame(s) \/ CommentOnNothing(s) \/ Rollback(s)
      PROVE  IssuesInv'
  BY <1>5, EndStep DEF UpdateNothing, UpdateSame, CommentOnNothing, Rollback
<1>6. ASSUME NEW s \in Session, UpdateStatus(s) \/ CommentInsert(s) PROVE IssuesInv'
  BY <1>6, UpdateStep, CommentStep
<1>7. CASE UNCHANGED vars
  <2>1. TypeOK'
    BY <1>7 DEF IssuesInv, TypeOK, vars, rows, notices
  <2>2. \A x \in Session : CommentOK(x)'
    BY <1>7 DEF IssuesInv, CommentOK, At, Exists, vars, rows
  <2>. QED  BY <1>7, <2>1, <2>2, QuietStep DEF vars, rows, notices
<1>. QED  BY <1>1, <1>2, <1>3, <1>4, <1>5, <1>6, <1>7 DEF Next

LEMMA IssuesCorrect == Spec => []IssuesInv
  BY InitIssues, IssuesStep, PTL DEF Spec

-----------------------------------------------------------------------------
\* The columns of issues, logs and comments hold only values they admit.
THEOREM TypeCorrect == Spec => []TypeOK
<1>1. IssuesInv => TypeOK
  BY DEF IssuesInv
<1>. QED  BY IssuesCorrect, <1>1, PTL

\* However many people move an issue at once, its activity log is one chain from
\* the status it was reported with to the one it has.
THEOREM ActivityChainsCorrect == Spec => []ActivityChains
<1>1. IssuesInv => ActivityChains
  BY DEF IssuesInv
<1>. QED  BY IssuesCorrect, <1>1, PTL

\* The reporter hears of each entry of the log once, in order, and of nothing
\* else.
THEOREM ToldOfEveryChangeCorrect == Spec => []ToldOfEveryChange
<1>1. IssuesInv => ToldOfEveryChange
  BY DEF IssuesInv
<1>. QED  BY IssuesCorrect, <1>1, PTL

\* A comment lands outside the resolved window only if the issue was moved while
\* the call was under way.
THEOREM CommentsWhileResolvedCorrect == Spec => CommentsWhileResolved
<1>1. IssuesInv /\ [Next]_vars =>
        [\A s \in Session : CommentInsert(s) =>
           issue[call[s].issue].status = "resolved" \/ call[s].moved]_vars
  BY DEF IssuesInv, CommentOK, CommentInsert
<1>. QED  BY IssuesCorrect, <1>1, PTL DEF Spec, CommentsWhileResolved
=============================================================================
