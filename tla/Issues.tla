------------------------------- MODULE Issues -------------------------------
(***************************************************************************)
(* Issues that residents report.  The reporter and the admins of the       *)
(* estate move one between statuses by updating its row, and comment on it *)
(* while it is resolved.  Triggers keep the activity log and tell people.  *)
(*                                                                         *)
(* A call is one statement in a transaction of its own.  It begins with    *)
(* the snapshot its policies are checked against and writes later: an      *)
(* update works on the row as it then is, a comment needs nothing but that *)
(* the issue still exists.  created_at of the log is the time a call began *)
(* and not modelled: the log is in the order it was written.               *)
(***************************************************************************)
EXTENDS Naturals, Sequences

CONSTANTS
  Session,      \* calls in progress
  Reporter,     \* profiles of the estate that report issues
  Admin,        \* its admins and super_admins
  Issue,        \* ids of issues
  MaxChanges,   \* bound: status changes of an issue
  MaxComments,  \* bound: comments on an issue
  NULL

Profile == Reporter \cup Admin
Status == {"open", "in_progress", "resolved", "closed"}

IssueRow == [by: Reporter, status: Status,
             first: Status]              \* history: the status it came with

Entry == [actor: Profile, from: Status, to: Status]

Call == [op: {"update", "comment"}, by: Profile, issue: Issue,
         saw: Status,                    \* the status in its snapshot
         to: Status,                     \* what an update sets
         moved: BOOLEAN]                 \* history: the issue moved meanwhile

ASSUME IssuesAssumption ==
  /\ MaxChanges \in Nat /\ MaxComments \in Nat
  /\ NULL \notin Session \cup Reporter \cup Admin \cup Issue
  /\ NULL \notin IssueRow \cup Call

VARIABLES
  issue,        \* the rows of issues
  activity,     \* issue_activity, by issue, in the order of writing
  thread,       \* issue_comments, by issue: their authors
  told,         \* issue_status notices, by issue
  rung,         \* issue_reported and issue_feedback notices: whom they went to
  call          \* what each session is doing

rows == <<issue, activity, thread>>
notices == <<told, rung>>
vars == <<rows, notices, call>>

-----------------------------------------------------------------------------
TypeOK ==
  /\ issue \in [Issue -> IssueRow \cup {NULL}]
  /\ activity \in [Issue -> Seq(Entry)]
  /\ thread \in [Issue -> Seq(Profile)]
  /\ told \in [Issue -> Seq(Status)]
  /\ rung \in [Issue -> Seq({"staff", "reporter"})]
  /\ call \in [Session -> Call \cup {NULL}]

Init ==
  /\ issue = [i \in Issue |-> NULL]
  /\ activity = [i \in Issue |-> <<>>]
  /\ thread = [i \in Issue |-> <<>>]
  /\ told = [i \in Issue |-> <<>>]
  /\ rung = [i \in Issue |-> <<>>]
  /\ call = [s \in Session |-> NULL]

-----------------------------------------------------------------------------
Exists(i) == issue[i] # NULL
May(p, i) == p = issue[i].by \/ p \in Admin    \* issues_select, issues_update
At(s, op) == call[s] # NULL /\ call[s].op = op
Begin(s, c) == call' = [call EXCEPT ![s] = c]

\* Every call on issue i but that of s sees it move.
Move(i, s) ==
  call' = [x \in Session |->
             IF x = s THEN NULL
             ELSE IF call[x] # NULL /\ call[x].issue = i THEN [call[x] EXCEPT !.moved = TRUE]
             ELSE call[x]]

\* issues_insert says nothing of the status.  An id is used once.
Report(p, i, st) ==
  /\ rung[i] = <<>>
  /\ issue' = [issue EXCEPT ![i] = [by |-> p, status |-> st, first |-> st]]
  /\ rung' = [rung EXCEPT ![i] = <<"staff">>]
  /\ UNCHANGED <<activity, thread, told, call>>

\* The reporter deletes the issue, with its log and its comments.
Delete(i) ==
  /\ Exists(i)
  /\ issue' = [issue EXCEPT ![i] = NULL]
  /\ activity' = [activity EXCEPT ![i] = <<>>]
  /\ thread' = [thread EXCEPT ![i] = <<>>]
  /\ Move(i, NULL)
  /\ UNCHANGED notices

\* The call fails or is cut off.
Rollback(s) ==
  /\ call[s] # NULL
  /\ Begin(s, NULL)
  /\ UNCHANGED <<rows, notices>>

-----------------------------------------------------------------------------
UpdateBegin(s, p, i, st) ==
  /\ call[s] = NULL
  /\ Exists(i) /\ May(p, i)
  /\ Begin(s, [op |-> "update", by |-> p, issue |-> i, saw |-> issue[i].status,
               to |-> st, moved |-> FALSE])
  /\ UNCHANGED <<rows, notices>>

\* Mutant: the entry is made from what the client had on its screen.
LogSeen(c) ==
  activity' = [activity EXCEPT ![c.issue] =
                 Append(@, [actor |-> c.by, from |-> c.saw, to |-> c.to])]

\* log_issue_status_change: from the row as it was when it was written.
Log(c) ==
  activity' = [activity EXCEPT ![c.issue] =
                 Append(@, [actor |-> c.by, from |-> issue[c.issue].status, to |-> c.to])]

\* The row is gone: nothing is updated.
UpdateNothing(s) ==
  /\ At(s, "update")
  /\ ~Exists(call[s].issue)
  /\ Begin(s, NULL)
  /\ UNCHANGED <<rows, notices>>

\* Mutant: the notice is about the request, not about the change.
UpdateSameTells(s) ==
  LET c == call[s]
  IN
  /\ At(s, "update")
  /\ Exists(c.issue)
  /\ issue[c.issue].status = c.to
  /\ told' = [told EXCEPT ![c.issue] = Append(@, c.to)]
  /\ Begin(s, NULL)
  /\ UNCHANGED <<rows, rung>>

\* Somebody has moved the issue there already: no entry, no notice.
UpdateSame(s) ==
  /\ At(s, "update")
  /\ Exists(call[s].issue)
  /\ issue[call[s].issue].status = call[s].to
  /\ Begin(s, NULL)
  /\ UNCHANGED <<rows, notices>>

UpdateStatus(s) ==
  LET c == call[s]
      i == c.issue
  IN
  /\ At(s, "update")
  /\ Exists(i)
  /\ issue[i].status # c.to
  /\ Len(activity[i]) < MaxChanges
  /\ issue' = [issue EXCEPT ![i].status = c.to]
  /\ Log(c)
  /\ told' = [told EXCEPT ![i] = Append(@, c.to)]
  /\ Move(i, s)
  /\ UNCHANGED <<thread, rung>>

-----------------------------------------------------------------------------
\* Mutant: comments are taken as long as the issue is not closed.
CommentAnyTime(s, p, i) ==
  /\ call[s] = NULL
  /\ Exists(i) /\ May(p, i)
  /\ issue[i].status # "closed"
  /\ Begin(s, [op |-> "comment", by |-> p, issue |-> i, saw |-> issue[i].status,
               to |-> issue[i].status, moved |-> FALSE])
  /\ UNCHANGED <<rows, notices>>

CommentBegin(s, p, i) ==
  /\ call[s] = NULL
  /\ Exists(i) /\ May(p, i)
  /\ issue[i].status = "resolved"
  /\ Begin(s, [op |-> "comment", by |-> p, issue |-> i, saw |-> "resolved",
               to |-> "resolved", moved |-> FALSE])
  /\ UNCHANGED <<rows, notices>>

\* The foreign key refuses a comment on an issue that is gone.
CommentOnNothing(s) ==
  /\ At(s, "comment")
  /\ ~Exists(call[s].issue)
  /\ Begin(s, NULL)
  /\ UNCHANGED <<rows, notices>>

\* notify_issue_feedback tells the admins, or the reporter if it is not his.
CommentInsert(s) ==
  LET c == call[s]
      i == c.issue
  IN
  /\ At(s, "comment")
  /\ Exists(i)
  /\ Len(thread[i]) < MaxComments
  /\ thread' = [thread EXCEPT ![i] = Append(@, c.by)]
  /\ rung' = [rung EXCEPT ![i] =
                Append(@, IF c.by = issue[i].by THEN "staff" ELSE "reporter")]
  /\ Begin(s, NULL)
  /\ UNCHANGED <<issue, activity, told>>

-----------------------------------------------------------------------------
Next ==
  \/ \E i \in Issue : Delete(i) \/ \E p \in Reporter, st \in Status : Report(p, i, st)
  \/ \E s \in Session :
       \/ \E p \in Profile, i \in Issue : \/ \E st \in Status : UpdateBegin(s, p, i, st)
                                          \/ CommentBegin(s, p, i)
       \/ UpdateNothing(s) \/ UpdateSame(s) \/ UpdateStatus(s)
       \/ CommentOnNothing(s) \/ CommentInsert(s)
       \/ Rollback(s)

Spec == Init /\ [][Next]_vars

-----------------------------------------------------------------------------
\* What an issue has been through, by its log: the first status, then one per
\* entry.
StatusAfter(i, n) == IF n = 0 THEN issue[i].first ELSE activity[i][n].to

\* The log of an issue is one chain: every entry starts where the one before it
\* ended, however calls overlapped, and the last ends where the issue is.
ActivityChains ==
  \A i \in Issue :
    Exists(i) =>
      /\ \A n \in DOMAIN activity[i] : activity[i][n].from = StatusAfter(i, n - 1)
      /\ issue[i].status = StatusAfter(i, Len(activity[i]))

\* The reporter is told of every change once and in order, and of nothing that
\* was none, such as the second of two clicks on "resolved".
ToldOfEveryChange ==
  \A i \in Issue :
    Exists(i) =>
      /\ Len(told[i]) = Len(activity[i])
      /\ \A n \in DOMAIN told[i] : activity[i][n].to = told[i][n] /\
                                   activity[i][n].from # told[i][n]

\* What makes the two above and the next one inductive: an id is used once, so
\* that a comment under way is on an issue still resolved, or moved meanwhile.
CommentOK(s) ==
  At(s, "comment") =>
    call[s].moved \/ (Exists(call[s].issue) /\ issue[call[s].issue].status = "resolved")

UnusedOK(i) ==
  rung[i] = <<>> => ~Exists(i) /\ activity[i] = <<>> /\ told[i] = <<>>

IssuesInv ==
  /\ TypeOK
  /\ ActivityChains
  /\ ToldOfEveryChange
  /\ \A i \in Issue : UnusedOK(i)
  /\ \A s \in Session : CommentOK(s)

\* A comment lands in an issue that is resolved, or that was when the call began
\* and has been moved or deleted since.
CommentsWhileResolved ==
  [][\A s \in Session :
       CommentInsert(s) =>
         issue[call[s].issue].status = "resolved" \/ call[s].moved]_vars
=============================================================================
