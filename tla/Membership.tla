----------------------------- MODULE Membership -----------------------------
(***************************************************************************)
(* Who belongs to an estate and as what: join requests reviewed by admins, *)
(* staff invites, and household invites by which a resident vouches for    *)
(* people who share their unit.                                            *)
(*                                                                         *)
(* Every RPC is a READ COMMITTED transaction of a session.  The checks it  *)
(* makes on rows it does not lock are actions of their own, its writes     *)
(* come last and take effect together when it commits.  Writes go by id    *)
(* and take row locks, so overlapping ones happen one after the other; if  *)
(* their lock orders cross, the deadlock check cancels a call, which here  *)
(* is Rollback, and so is a write whose row is gone.  Inserts under a      *)
(* policy and a unique index, an admin's update of a profile and the       *)
(* deletion of an account, which cascades, are one statement and one       *)
(* action.  Units, names, codes and the rejection reason are abstracted.   *)
(***************************************************************************)
EXTENDS Naturals

CONSTANTS
  Session,      \* database sessions serving requests, one transaction each
  Profile,      \* people who have signed up
  Estate,
  Founder,      \* Founder[e]: the super_admin of estate e
  Request,      \* ids of rows of estate_join_requests
  Invite,       \* ids of rows of household_invites and staff_invites
  Levels,       \* household access levels that are offered
  Roles,        \* staff roles that are invited for
  Inserted,     \* statuses clients insert rows with
  EditedTo,     \* what admins make of profiles by hand
  NULL

Level == {"full", "visitors_only"}
StaffRole == {"security", "admin"}   \* staff_invites_role_check admits no other

\* Rows that have been deleted stay here as history.
ProfileRow == [role: {"resident", "super_admin", "deleted"} \cup StaffRole, approved: BOOLEAN,
               estate: Estate \cup {NULL}, level: Level \cup {"revoked", NULL}]
RequestRow ==
  [by: Profile, estate: Estate, status: {"pending", "approved", "rejected", "deleted"},
   reviewer: Profile \cup {NULL}]
InviteRow ==
  [by: Profile, to: Profile, estate: Estate, grants: Level \cup StaffRole,
   status: {"pending", "accepted", "revoked", "deleted"},
   taken: BOOLEAN,     \* accepted_profile_id is set
   late: BOOLEAN,      \* expires_at <= now()
   saved: BOOLEAN]     \* profile_saved_at within the last 24 hours
LinkRow == [primary: Profile, access: Level, estate: Estate,
            status: {"active", "revoked"}, gone: BOOLEAN]

ASSUME MembershipAssumption ==
  /\ NULL \notin Session \cup Profile \cup Estate \cup Request \cup Invite \cup Level \cup {"revoked"}
  /\ NULL \notin RequestRow \cup InviteRow \cup LinkRow
  /\ Founder \in [Estate -> Profile]
  /\ Levels \subseteq Level
  /\ Roles \subseteq StaffRole
  /\ Inserted \subseteq {"pending", "approved", "rejected", "accepted", "revoked"}
  /\ EditedTo \subseteq {row \in ProfileRow : row.role # "deleted"}

VARIABLES
  profile,      \* profiles: role, approved, estate_id, household_access_level
  request,      \* estate_join_requests
  reviewNotice, \* type of the latest notification about a request
  invite,       \* household_invites and staff_invites
  link,         \* household_links by member_id, which is unique
  edited,       \* history: profiles an admin has edited by hand
  levelByHand,  \* history: those whose access level still stands as edited
  call          \* what each session is executing

hands == <<edited, levelByHand>>
tables == <<profile, request, reviewNotice, invite, link, hands>>
vars == <<tables, call>>

-----------------------------------------------------------------------------
Call == [pc: {"idle", "approve", "reject", "withdraw", "unlink", "find", "vouch",
              "join", "refuse", "staffFind", "staffJoin"},
         by: Profile \cup {NULL},                           \* auth.uid()
         id: Request \cup Invite \cup Profile \cup {NULL}]  \* the row it is about
Idle == [pc |-> "idle", by |-> NULL, id |-> NULL]

TypeOK ==
  /\ profile \in [Profile -> ProfileRow]
  /\ request \in [Request -> RequestRow \cup {NULL}]
  /\ reviewNotice \in [Request -> {"none", "join_request_approved",
                                   "join_request_rejected"}]
  /\ invite \in [Invite -> InviteRow \cup {NULL}]
  /\ link \in [Profile -> LinkRow \cup {NULL}]
  /\ edited \in SUBSET Profile
  /\ levelByHand \in SUBSET edited
  /\ call \in [Session -> Call]

\* handle_new_user leaves a new profile a resident of no estate.
Founders == {Founder[e] : e \in Estate}

Init ==
  /\ profile = [p \in Profile |->
       IF p \in Founders
       THEN [role |-> "super_admin", approved |-> TRUE,
             estate |-> CHOOSE e \in Estate : Founder[e] = p, level |-> NULL]
       ELSE [role |-> "resident", approved |-> FALSE, estate |-> NULL, level |-> NULL]]
  /\ request = [q \in Request |-> NULL]
  /\ reviewNotice = [q \in Request |-> "none"]
  /\ invite = [i \in Invite |-> NULL]
  /\ link = [p \in Profile |-> NULL]
  /\ edited = {} /\ levelByHand = {}
  /\ call = [s \in Session |-> Idle]

At(s, pc) == call[s].pc = pc
Begin(s, pc, p, id) ==
  /\ At(s, "idle")
  /\ call' = [call EXCEPT ![s] = [pc |-> pc, by |-> p, id |-> id]]
  /\ UNCHANGED tables
Continue(s, pc) == call' = [call EXCEPT ![s].pc = pc] /\ UNCHANGED tables
End(s) == call' = [call EXCEPT ![s] = Idle]

\* The transaction ends without effect: it raised, returned false, found its row
\* deleted, or was cancelled from outside.
Rollback(s) == ~At(s, "idle") /\ End(s) /\ UNCHANGED tables

\* Rows as the statements select them.
Here(p) == profile[p].role # "deleted"
Filed(q) == request[q] # NULL /\ request[q].status # "deleted"
Kept(i) == invite[i] # NULL /\ invite[i].status # "deleted"
Linked(p) == link[p] # NULL /\ ~link[p].gone
Pending(q) == request[q] # NULL /\ request[q].status = "pending"
Open(i) == invite[i] # NULL /\ invite[i].status = "pending"
Household(i) == invite[i].grants \in Level
IsAdmin(p) == profile[p].role \in {"admin", "super_admin"}
AdminOf(p, e) == IsAdmin(p) /\ profile[p].estate = e

-----------------------------------------------------------------------------
\* Join requests.  Anybody may file one, one pending at a time; the policy looks
\* at nothing but whose it is.
RequestJoin(p, e, st) ==
  /\ Here(p) /\ st \in {"pending", "approved", "rejected"}
  /\ st = "pending" => \A q \in Request : Pending(q) => request[q].by # p
  /\ \E q \in Request :
       /\ request[q] = NULL
       /\ request' = [request EXCEPT ![q] =
                        [by |-> p, estate |-> e, status |-> st, reviewer |-> NULL]]
  /\ UNCHANGED <<profile, reviewNotice, invite, link, hands, call>>

\* approve_join_request and reject_join_request look for a pending row of the
\* reviewer's estate, then write by id.
ReviewRead(s, p, q, verdict) ==
  /\ Pending(q) /\ AdminOf(p, request[q].estate)
  /\ Begin(s, verdict, p, q)

\* Mutant: the notice is for pending requests only.
ReviewQuietly(q, p, st, type) ==
  /\ Filed(q) /\ Here(p)
  /\ request' = [request EXCEPT ![q].status = st, ![q].reviewer = p]
  /\ reviewNotice' = IF Pending(q) THEN [reviewNotice EXCEPT ![q] = type]
                     ELSE reviewNotice

\* notify_join_request_reviewed fires when the status becomes another one.
Review(q, p, st, type) ==
  /\ Filed(q) /\ Here(p)
  /\ request' = [request EXCEPT ![q].status = st, ![q].reviewer = p]
  /\ reviewNotice' = IF request[q].status = st THEN reviewNotice
                     ELSE [reviewNotice EXCEPT ![q] = type]

\* Mutant: an approval makes the applicant an ordinary resident.
ApproveAfresh(s) ==
  LET q == call[s].id
  IN
  /\ At(s, "approve")
  /\ Review(q, call[s].by, "approved", "join_request_approved")
  /\ profile' = [profile EXCEPT ![request[q].by] =
                   [role |-> "resident", approved |-> TRUE, estate |-> request[q].estate, level |-> NULL]]
  /\ End(s)
  /\ UNCHANGED <<invite, link, hands>>

\* protect_profile_privileged_columns undoes the approval of somebody who is
\* no longer an admin.
ApproveWrite(s) ==
  LET q == call[s].id
      p == request[q].by
  IN
  /\ At(s, "approve")
  /\ Review(q, call[s].by, "approved", "join_request_approved")
  /\ profile' = IF IsAdmin(call[s].by)
                THEN [profile EXCEPT ![p].estate = request[q].estate, ![p].approved = TRUE]
                ELSE profile
  /\ End(s)
  /\ UNCHANGED <<invite, link, hands>>

RejectWrite(s) ==
  /\ At(s, "reject")
  /\ Review(call[s].id, call[s].by, "rejected", "join_request_rejected")
  /\ End(s)
  /\ UNCHANGED <<profile, invite, link, hands>>

-----------------------------------------------------------------------------
\* Invites.  A phone number has one pending household invite at a time, an
\* email one pending staff invite, expired or not.
Issue(p, m, grants, st) ==
  /\ profile[p].estate # NULL /\ st \in {"pending", "accepted", "revoked"}
  /\ st = "pending" =>
       \A i \in Invite : Open(i) /\ invite[i].to = m => (Household(i) # (grants \in Level))
  /\ \E i \in Invite :
       /\ invite[i] = NULL
       /\ invite' = [invite EXCEPT ![i] =
            [by |-> p, to |-> m, estate |-> profile[p].estate, grants |-> grants,
             status |-> st, taken |-> FALSE, late |-> FALSE, saved |-> FALSE]]
  /\ UNCHANGED <<profile, request, reviewNotice, link, hands, call>>

InviteHousehold(p, m, level, st) ==
  /\ profile[p].role = "resident" /\ profile[p].level = NULL
  /\ Issue(p, m, level, st)

InviteStaff(p, m, role, st) ==
  /\ \/ profile[p].role = "super_admin"
     \/ profile[p].role = "admin" /\ role = "security"
  /\ Issue(p, m, role, st)

\* save_staff_invite_profile, and the passing of its 24 hours and of the invite.
UpdateInvite(i, row) ==
  /\ invite' = [invite EXCEPT ![i] = row]
  /\ UNCHANGED <<profile, request, reviewNotice, link, hands, call>>

SaveStaffProfile(i) ==
  /\ Open(i) /\ ~Household(i) /\ ~invite[i].late
  /\ UpdateInvite(i, [invite[i] EXCEPT !.saved = TRUE])

SavedLapses(i) ==
  /\ Open(i) /\ invite[i].saved
  /\ UpdateInvite(i, [invite[i] EXCEPT !.saved = FALSE])

InviteExpires(i) ==
  /\ Open(i)
  /\ UpdateInvite(i, [invite[i] EXCEPT !.late = TRUE])

\* revoke_household_invite and revoke_staff_invite.
WithdrawRead(s, p, i) ==
  /\ Open(i)
  /\ AdminOf(p, invite[i].estate) \/ (Household(i) /\ invite[i].by = p)
  /\ Begin(s, "withdraw", p, i)

WithdrawWrite(s) ==
  /\ At(s, "withdraw") /\ Kept(call[s].id)
  /\ invite' = [invite EXCEPT ![call[s].id].status = "revoked"]
  /\ End(s)
  /\ UNCHANGED <<profile, request, reviewNotice, link, hands>>

-----------------------------------------------------------------------------
\* Mutant: every resident can be converted.
ConvertibleAny(p) == profile[p].role = "resident"

\* accept_household_invite reads the caller, the invite and the inviter, then
\* writes all it has to.
Convertible(p) ==
  profile[p].role = "resident" /\ (~profile[p].approved \/ Linked(p))

Genuine(p) ==
  profile[p].role = "resident" /\ profile[p].approved /\ profile[p].level = NULL

Acceptable(i, p) == Open(i) /\ ~invite[i].late /\ invite[i].to = p

AcceptCaller(s, p, i) ==
  /\ Convertible(p)
  /\ Begin(s, "find", p, i)

AcceptFind(s) ==
  LET i == call[s].id
  IN
  /\ At(s, "find")
  /\ Acceptable(i, call[s].by) /\ Household(i)
  /\ Continue(s, "vouch")

AcceptVouch(s) ==
  /\ At(s, "vouch")
  /\ Continue(s, IF Genuine(invite[call[s].id].by) THEN "join" ELSE "refuse")

AcceptRefuse(s) ==
  /\ At(s, "refuse") /\ Kept(call[s].id)
  /\ invite' = [invite EXCEPT ![call[s].id].status = "revoked"]
  /\ End(s)
  /\ UNCHANGED <<profile, request, reviewNotice, link, hands>>

\* sync_household_access_level copies the link to the profile.
SyncedLevel(l) == IF l.status = "active" THEN l.access ELSE "revoked"

AcceptJoin(s) ==
  LET p == call[s].by
      i == call[s].id
      l == [primary |-> invite[i].by, access |-> invite[i].grants,
            estate |-> invite[i].estate, status |-> "active", gone |-> FALSE]
  IN
  /\ At(s, "join") /\ Here(p) /\ Kept(i)
  /\ link' = [link EXCEPT ![p] = l]
  /\ profile' = [profile EXCEPT ![p].estate = l.estate, ![p].approved = TRUE,
                                ![p].level = SyncedLevel(l)]
  /\ invite' = [invite EXCEPT ![i].status = "accepted", ![i].taken = TRUE]
  /\ levelByHand' = levelByHand \ {p}
  /\ End(s)
  /\ UNCHANGED <<request, reviewNotice, edited>>

\* Mutant: the profile is synced on insert only.
UnlinkUnsynced(s) ==
  LET m == call[s].id
  IN
  /\ At(s, "unlink")
  /\ link' = [link EXCEPT ![m].status = "revoked"]
  /\ End(s)
  /\ UNCHANGED <<profile, request, reviewNotice, invite, hands>>

\* revoke_household_link, by the primary or an admin.
UnlinkRead(s, p, m) ==
  /\ Linked(m) /\ link[m].status = "active"
  /\ p = link[m].primary \/ AdminOf(p, link[m].estate)
  /\ Begin(s, "unlink", p, m)

UnlinkWrite(s) ==
  LET m == call[s].id
      l == [link[m] EXCEPT !.status = "revoked"]
  IN
  /\ At(s, "unlink")
  /\ link' = [link EXCEPT ![m] = l]
  /\ profile' = [profile EXCEPT ![m].level = SyncedLevel(l)]
  /\ levelByHand' = levelByHand \ {m}
  /\ End(s)
  /\ UNCHANGED <<request, reviewNotice, invite, edited>>

\* accept_staff_invite, by code, and accept_staff_invite_by_email, which takes
\* the one pending invite whose profile was saved and looks at no role.
StaffCaller(s, p, i) ==
  /\ Here(p) /\ profile[p].role # "super_admin"
  /\ Begin(s, "staffFind", p, i)

StaffFind(s) ==
  LET i == call[s].id
  IN
  /\ At(s, "staffFind")
  /\ Acceptable(i, call[s].by) /\ ~Household(i)
  /\ Continue(s, "staffJoin")

StaffByEmail(s, p, i) ==
  /\ Here(p) /\ Acceptable(i, p) /\ ~Household(i) /\ invite[i].saved
  /\ Begin(s, "staffJoin", p, i)

\* Mutant: the invite is left pending.
StaffJoinAgain(s) ==
  LET p == call[s].by
      i == call[s].id
  IN
  /\ At(s, "staffJoin") /\ Here(p)
  /\ profile' = [profile EXCEPT ![p].role = invite[i].grants,
                                ![p].estate = invite[i].estate, ![p].approved = TRUE]
  /\ End(s)
  /\ UNCHANGED <<request, reviewNotice, invite, link, hands>>

StaffJoin(s) ==
  LET p == call[s].by
      i == call[s].id
  IN
  /\ At(s, "staffJoin") /\ Here(p)
  /\ profile' = [profile EXCEPT ![p].role = invite[i].grants,
                                ![p].estate = invite[i].estate, ![p].approved = TRUE]
  /\ invite' = [invite EXCEPT ![i].status = "accepted", ![i].taken = TRUE]
  /\ End(s)
  /\ UNCHANGED <<request, reviewNotice, link, hands>>

-----------------------------------------------------------------------------
\* profiles_update lets admins write every column of their own profile and of
\* the profiles of their estate; for anybody else the trigger puts the columns
\* that are modelled back.
EditProfile(s, p, m, row) ==
  /\ At(s, "idle")
  /\ IsAdmin(p) /\ Here(m)
  /\ \/ m = p
     \/ profile[m].estate # NULL /\ AdminOf(p, profile[m].estate) /\ row.estate = profile[m].estate
  /\ row # profile[m]
  /\ profile' = [profile EXCEPT ![m] = row]
  /\ edited' = edited \cup {m}
  /\ levelByHand' = IF row.level = profile[m].level THEN levelByHand ELSE levelByHand \cup {m}
  /\ UNCHANGED <<request, reviewNotice, invite, link, call>>

\* What keeps an account from being deleted: references that do not cascade, in
\* rows that do not go with the account.
Referenced(p) ==
  \/ \E q \in Request : Filed(q) /\ request[q].reviewer = p /\ request[q].by # p
  \/ \E i \in Invite :
       /\ Kept(i)
       /\ \/ ~Household(i) /\ invite[i].by = p
          \/ invite[i].taken /\ invite[i].to = p /\ invite[i].by # p

\* The deletion of an account takes the profile, its requests, the household
\* invites it issued, its links and the links to it; no trigger looks at
\* deleted links.
DeleteProfile(s, p) ==
  LET ends(m) == m = p \/ (link[m] # NULL /\ link[m].primary = p)
  IN
  /\ At(s, "idle")
  /\ Here(p) /\ ~Referenced(p)
  /\ profile' = [profile EXCEPT ![p] =
                   [role |-> "deleted", approved |-> FALSE, estate |-> NULL, level |-> NULL]]
  /\ request' = [q \in Request |->
                   IF request[q] # NULL /\ request[q].by = p
                   THEN [request[q] EXCEPT !.status = "deleted"] ELSE request[q]]
  /\ reviewNotice' = [q \in Request |->
                        IF request[q] # NULL /\ request[q].by = p THEN "none" ELSE reviewNotice[q]]
  /\ invite' = [i \in Invite |->
                  IF invite[i] # NULL /\ Household(i) /\ invite[i].by = p
                  THEN [invite[i] EXCEPT !.status = "deleted"] ELSE invite[i]]
  /\ link' = [m \in Profile |->
                IF m = p THEN NULL
                ELSE IF ends(m) THEN [link[m] EXCEPT !.gone = TRUE] ELSE link[m]]
  /\ call' = [u \in Session |->
                IF call[u].pc = "unlink" /\ ends(call[u].id) THEN Idle ELSE call[u]]
  /\ UNCHANGED hands

-----------------------------------------------------------------------------
Insert(p) ==
  \E st \in Inserted :
    \/ \E e \in Estate : RequestJoin(p, e, st)
    \/ \E m \in Profile : \/ \E level \in Levels : InviteHousehold(p, m, level, st)
                          \/ \E role \in Roles : InviteStaff(p, m, role, st)

Start(s, p) ==
  \/ \E q \in Request, verdict \in {"approve", "reject"} : ReviewRead(s, p, q, verdict)
  \/ \E i \in Invite : \/ WithdrawRead(s, p, i)
                       \/ AcceptCaller(s, p, i)
                       \/ StaffCaller(s, p, i)
                       \/ StaffByEmail(s, p, i)
  \/ \E m \in Profile : UnlinkRead(s, p, m)

Run(s) ==
  \/ ApproveWrite(s) \/ RejectWrite(s) \/ WithdrawWrite(s) \/ UnlinkWrite(s)
  \/ AcceptFind(s) \/ AcceptVouch(s) \/ AcceptRefuse(s) \/ AcceptJoin(s)
  \/ StaffFind(s) \/ StaffJoin(s)
  \/ Rollback(s)

\* Statements by which profiles change or go without a call.
Direct ==
  \E s \in Session, p \in Profile :
    \/ \E m \in Profile, row \in EditedTo : EditProfile(s, p, m, row)
    \/ DeleteProfile(s, p)

Next ==
  \/ \E p \in Profile : Insert(p) \/ \E s \in Session : Start(s, p)
  \/ Direct
  \/ \E s \in Session : Run(s)
  \/ \E i \in Invite : SaveStaffProfile(i) \/ SavedLapses(i) \/ InviteExpires(i)

Spec == Init /\ [][Next]_vars

-----------------------------------------------------------------------------
\* The strengthening the proofs need, in two parts.  The row a call is about
\* exists and is of the call's kind.
CallOK(s) ==
  LET c == call[s]
  IN /\ c.pc # "idle" => c.by \in Profile
     /\ c.pc \in {"approve", "reject"} => c.id \in Request /\ request[c.id] # NULL
     /\ c.pc \in {"find", "staffFind"} => c.id \in Invite
     /\ c.pc \in {"withdraw", "vouch", "join", "refuse", "staffJoin"} =>
          c.id \in Invite /\ invite[c.id] # NULL
     /\ c.pc \in {"vouch", "join"} => Household(c.id) /\ invite[c.id].to = c.by
     /\ c.pc = "staffJoin" => ~Household(c.id)
     /\ c.pc = "unlink" => c.id \in Profile /\ Linked(c.id)

\* If calls do not overlap, what one has checked still holds when it writes;
\* and whoever heads a household was approved and stays it.
LayerInv ==
  /\ \A p \in Profile :
       Linked(p) /\ link[p].primary \notin edited => profile[link[p].primary].approved
  /\ \A s \in Session :
       /\ call[s].pc \in {"find", "vouch", "join"} => Convertible(call[s].by)
       /\ call[s].pc = "join" => Genuine(invite[call[s].id].by)

\* What a profile says about household access is what its link says, or said
\* last if it went with the account of the head of the household, whoever is
\* invited, revoked, approved or hired meanwhile.  The exception is a level that
\* stands as an admin wrote it.
LinkDecidesAccess ==
  \A p \in Profile \ levelByHand :
    profile[p].level = IF link[p] = NULL THEN NULL ELSE SyncedLevel(link[p])

AccessInv == TypeOK /\ LinkDecidesAccess /\ \A s \in Session : CallOK(s)

\* The last thing an applicant is told about a request is its outcome, also if
\* two reviews of it overlapped; of a request nobody reviewed, nothing is told.
NoticeTellsDecision ==
  \A q \in Request :
    Filed(q) =>
      reviewNotice[q] = IF request[q].reviewer = NULL THEN "none"
                        ELSE IF request[q].status = "approved" THEN "join_request_approved"
                        ELSE "join_request_rejected"

\* Revoked household access comes back only in the step that accepts an invite
\* addressed to the member, unless an admin writes the level or the account
\* goes: no review, staff role or overlapping call restores it.
RevokedUntilInvited ==
  [][\A p \in Profile :
       profile[p].level = "revoked" /\ profile'[p].level # "revoked" =>
         \E s \in Session :
           \/ AcceptJoin(s) /\ call[s].by = p /\ invite[call[s].id].to = p
           \/ \E a \in Profile, row \in EditedTo : EditProfile(s, a, p, row)
           \/ DeleteProfile(s, p)]_vars

\* A decision that stands: a request that was reviewed and approved, an invite
\* that was taken and not revoked, or having founded the estate.
Granted(q) ==
  request[q] # NULL /\ request[q].status = "approved" /\ request[q].reviewer # NULL

Took(i) == invite[i] # NULL /\ invite[i].taken /\ invite[i].status \in {"accepted", "deleted"}

ByRequest(p) == \E q \in Request : Granted(q) /\ request[q].by = p

ByInvite(p) == \E i \in Invite : Took(i) /\ invite[i].to = p

\* Somebody belongs to an estate exactly if a decision that stands says so,
\* whatever statuses clients insert; the exception is whom an admin edited.
AccessMatchesDecisions ==
  \A p \in Profile \ edited :
    Here(p) => (profile[p].approved <=> p \in Founders \/ ByRequest(p) \/ ByInvite(p))

\* The strengthening, if calls do not overlap: what a call has found pending is
\* pending until it writes, and its reviewer is still an admin.
PendingOK(s) ==
  LET c == call[s]
  IN /\ c.pc \in {"approve", "reject"} => Pending(c.id)
     /\ c.pc = "approve" => IsAdmin(c.by)
     /\ c.pc \in {"withdraw", "vouch", "join", "refuse", "staffJoin"} => Open(c.id)
     /\ c.pc = "staffJoin" => invite[c.id].to = c.by

DecisionInv ==
  /\ AccessMatchesDecisions
  /\ \A i \in Invite : invite[i] # NULL /\ invite[i].taken => Took(i)
  /\ \A s \in Session : PendingOK(s)

\* "A household member can never invite a second layer": whoever heads
\* somebody's household has never been a member of one, unless an admin has
\* edited their profile.
NoSecondLayer ==
  \A m \in Profile :
    /\ Linked(m) /\ link[m].status = "active"
    /\ link[m].primary \notin edited \cup {m}
    => link[link[m].primary] = NULL
=============================================================================
