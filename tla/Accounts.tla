------------------------------ MODULE Accounts ------------------------------
(***************************************************************************)
(* Accounts, their roles, and how a person deletes their own account.      *)
(*                                                                         *)
(* A token outlives its account: what a request may do is decided by the   *)
(* role read from the profile at its beginning.  The deletion itself is a  *)
(* call to Supabase's Admin API, which may fail, or delete and fail, and   *)
(* whose answer, like the answer to the client, may be lost, so that       *)
(* clients try again.                                                      *)
(***************************************************************************)
EXTENDS Naturals, FiniteSets

CONSTANTS
  User,         \* ids of accounts
  Role,         \* the roles that occur
  Session,      \* requests to delete an account in progress
  MaxChanges,   \* bound on what else happens to accounts
  NULL

AppRole == {"resident", "security", "admin", "finance", "super_admin", "dev_admin"}

ASSUME AccountsAssumption ==
  /\ Role \subseteq AppRole
  /\ "resident" \in Role
  /\ NULL \notin User /\ NULL \notin AppRole
  /\ MaxChanges \in Nat

VARIABLES
  account,      \* the rows of auth.users, and of profiles with them
  role,         \* profiles.role
  referenced,   \* accounts some row refers to without a cascade
  changes,      \* how much has happened to accounts so far
  deletion      \* what each request is executing

accounts == <<account, role, referenced, changes, deletion>>

-----------------------------------------------------------------------------
Deletion == [pc: {"idle", "role", "admin_api", "answer"},
             by: User \cup {NULL},
             status: {NULL, "200", "404", "error"},   \* what the Admin API answered
             gone: BOOLEAN,         \* history: the account was gone when it began
             moved: BOOLEAN]        \* history: the role changed since it was read

NoDeletion == [pc |-> "idle", by |-> NULL, status |-> NULL,
               gone |-> FALSE, moved |-> FALSE]

Live(u) == account[u] = "live"

\* A profile comes and goes with its account.
RoleIffLive == \A u \in User : role[u] # NULL <=> Live(u)

AccountsTypeOK ==
  /\ account \in [User -> {"none", "live", "gone"}]
  /\ role \in [User -> Role \cup {NULL}]
  /\ referenced \in SUBSET User
  /\ changes \in 0..MaxChanges
  /\ deletion \in [Session -> Deletion]
  /\ RoleIffLive

AccountsInit ==
  /\ account \in [User -> {"none", "live"}]
  /\ role \in [User -> Role \cup {NULL}]
  /\ RoleIffLive /\ \E u \in User : Live(u)
  /\ referenced = {}
  /\ changes = 0
  /\ deletion = [s \in Session |-> NoDeletion]

-----------------------------------------------------------------------------
StaffRoles == {"admin", "security", "finance"}

Deleting(s, pc) == deletion[s].pc = pc
EndDeletion(s) == deletion' = [deletion EXCEPT ![s] = NoDeletion]
Change == changes < MaxChanges /\ changes' = changes + 1

\* Mutant: the profile stays.
EraseUserOnly(u) ==
  /\ account' = [account EXCEPT ![u] = "gone"]
  /\ UNCHANGED role

\* The account goes, and everything that cascades from it.
Erase(u) ==
  /\ account' = [account EXCEPT ![u] = "gone"]
  /\ role' = [role EXCEPT ![u] = NULL]

\* A request with a token of u, which stays valid when the account is gone.
DeleteBegin(s, u) ==
  /\ Deleting(s, "idle") /\ account[u] # "none"
  /\ deletion' = [deletion EXCEPT ![s] =
                    [NoDeletion EXCEPT !.pc = "role", !.by = u, !.gone = ~Live(u)]]
  /\ UNCHANGED <<account, role, referenced, changes>>

\* Mutant: finance is not counted as staff.
DeleteRoleFinance(s) ==
  LET r == role[deletion[s].by]
  IN
  /\ Deleting(s, "role")
  /\ IF r \in StaffRoles \ {"finance"}
     THEN EndDeletion(s)
     ELSE deletion' = [deletion EXCEPT ![s].pc = "admin_api"]
  /\ UNCHANGED <<account, role, referenced, changes>>

\* get_current_user reads the role; delete_account refuses staff: 403.
DeleteRole(s) ==
  LET r == role[deletion[s].by]
  IN
  /\ Deleting(s, "role")
  /\ IF r \in StaffRoles
     THEN EndDeletion(s)
     ELSE deletion' = [deletion EXCEPT ![s].pc = "admin_api"]
  /\ UNCHANGED <<account, role, referenced, changes>>

Answer(s, status) ==
  deletion' = [deletion EXCEPT ![s].pc = "answer", ![s].status = status]

\* The Admin API deletes the user or finds nobody.
AdminDeletes(s) ==
  LET u == deletion[s].by
  IN
  /\ Deleting(s, "admin_api")
  /\ Live(u) /\ u \notin referenced
  /\ Erase(u)
  /\ Answer(s, "200")
  /\ UNCHANGED <<referenced, changes>>

AdminMissing(s) ==
  /\ Deleting(s, "admin_api")
  /\ ~Live(deletion[s].by)
  /\ Answer(s, "404")
  /\ UNCHANGED <<account, role, referenced, changes>>

\* It answers anything else: always if a reference does not cascade, and else
\* whenever it is overloaded, misconfigured or broken, before or after it has
\* deleted.  A call that times out is the same, except that the exception is
\* not caught and ends the request.
MayErase(u) ==
  \/ UNCHANGED <<account, role>>
  \/ Live(u) /\ u \notin referenced /\ Erase(u)

AdminErrs(s) ==
  /\ Deleting(s, "admin_api")
  /\ MayErase(deletion[s].by)
  /\ Answer(s, "error")
  /\ UNCHANGED <<referenced, changes>>

AdminTimesOut(s) ==
  /\ Deleting(s, "admin_api")
  /\ MayErase(deletion[s].by)
  /\ EndDeletion(s)
  /\ UNCHANGED <<referenced, changes>>

\* Mutant: only an account that was there counts as deleted.
DoneFirst == {"200"}

Done == {"200", "404"}

\* 204, or 502 for any other answer.  Either may fail to reach the client.
Succeed(s) ==
  /\ Deleting(s, "answer") /\ deletion[s].status \in Done
  /\ EndDeletion(s)
  /\ UNCHANGED <<account, role, referenced, changes>>

Fail(s) ==
  /\ Deleting(s, "answer") /\ deletion[s].status \notin Done
  /\ EndDeletion(s)
  /\ UNCHANGED <<account, role, referenced, changes>>

Delete(s) ==
  \/ \E u \in User : DeleteBegin(s, u)
  \/ DeleteRole(s)
  \/ AdminDeletes(s) \/ AdminMissing(s) \/ AdminErrs(s) \/ AdminTimesOut(s)
  \/ Succeed(s) \/ Fail(s)

-----------------------------------------------------------------------------
\* What else happens: people sign up, roles are given and taken, rows come to
\* refer to an account, and a super_admin removes one from the dashboard.
SignUp(u) ==
  /\ account[u] = "none" /\ Change
  /\ account' = [account EXCEPT ![u] = "live"]
  /\ role' = [role EXCEPT ![u] = "resident"]
  /\ UNCHANGED <<referenced, deletion>>

SetRole(u, r) ==
  /\ Live(u) /\ role[u] # r /\ Change
  /\ role' = [role EXCEPT ![u] = r]
  /\ deletion' = [s \in Session |->
        [deletion[s] EXCEPT !.moved = @ \/ (Deleting(s, "admin_api") /\ deletion[s].by = u)]]
  /\ UNCHANGED <<account, referenced>>

Refer(u) ==
  /\ Live(u) /\ u \notin referenced /\ Change
  /\ referenced' = referenced \cup {u}
  /\ UNCHANGED <<account, role, deletion>>

Remove(u) ==
  /\ Live(u) /\ u \notin referenced /\ Change
  /\ Erase(u)
  /\ UNCHANGED <<referenced, deletion>>

-----------------------------------------------------------------------------
\* The strengthening.  A request is of somebody who had an account, and an
\* account that is gone stays gone; it is past the check of the role only as a
\* person who is not staff, unless that changed; and what it will answer is so.
DeletionOK(s) ==
  LET c == deletion[s]
  IN c.pc # "idle" =>
       /\ c.by \in User /\ account[c.by] # "none"
       /\ c.gone => account[c.by] = "gone"
       /\ c.pc = "admin_api" => c.moved \/ role[c.by] \notin StaffRoles
       /\ c.pc = "answer" =>
            c.status = "error" \/ (c.status \in {"200", "404"} /\ ~Live(c.by))

AccountsInv == AccountsTypeOK /\ \A s \in Session : DeletionOK(s)

\* A client that is told its account is deleted is told the truth, also if its
\* role, references or the account itself changed meanwhile; and one that tries
\* again for an account that is gone already is told that the deletion failed
\* only if the Admin API itself fails that time.
DeletionAnswersTrue ==
  [][\A s \in Session :
       /\ Succeed(s) => ~Live(deletion[s].by)
       /\ Fail(s) /\ deletion[s].gone => deletion[s].status = "error"]_accounts

\* Staff do not delete themselves: an account with a role of staff goes by the
\* hand of a super_admin, or was given that role while it was being deleted.
StaffStay ==
  [][\A u \in User :
       role[u] \in StaffRoles /\ account'[u] = "gone" =>
         \/ Remove(u)
         \/ \E s \in Session : deletion[s].by = u /\ deletion[s].moved]_accounts
=============================================================================
