-------------------------- MODULE Membership_proofs --------------------------
(***************************************************************************)
(* Proofs about Membership.  The household access of a profile follows its *)
(* link, notices tell decisions and revocation lasts for any number of     *)
(* sessions; that households have one layer and that access matches the    *)
(* decisions needs that calls do not overlap, and the proofs show where.   *)
(***************************************************************************)
EXTENDS Membership, TLAPS

-----------------------------------------------------------------------------
(* What steps do to the calls.                                             *)

Others(s) == \A u \in Session \ {s} : call'[u] = call[u]

LEMMA BeginCall ==
  ASSUME TypeOK, NEW s \in Session, NEW p \in Profile,
         NEW pc \in {"approve", "reject", "withdraw", "unlink", "find", "staffFind", "staffJoin"},
         NEW id \in Request \cup Invite \cup Profile, Begin(s, pc, p, id)
  PROVE  /\ call' \in [Session -> Call] /\ Others(s)
         /\ call'[s].pc = pc /\ call'[s].by = p /\ call'[s].id = id
         /\ UNCHANGED tables
<1> DEFINE c == [pc |-> pc, by |-> p, id |-> id]
<1>1. c \in Call /\ c.pc = pc /\ c.by = p /\ c.id = id
  BY DEF Call
<1>2. call' = [call EXCEPT ![s] = c] /\ UNCHANGED tables
  BY DEF Begin
<1> HIDE DEF c
<1>. QED  BY <1>1, <1>2 DEF TypeOK, Others

LEMMA ContinueCall ==
  ASSUME TypeOK, NEW s \in Session, NEW pc \in {"vouch", "join", "refuse", "staffJoin"},
         Continue(s, pc)
  PROVE  /\ call' \in [Session -> Call] /\ Others(s)
         /\ call'[s].pc = pc /\ call'[s].by = call[s].by /\ call'[s].id = call[s].id
         /\ UNCHANGED tables
<1> DEFINE c == [call[s] EXCEPT !.pc = pc]
<1>1. call[s] \in Call
  BY DEF TypeOK
<1>2. c \in Call /\ c.pc = pc /\ c.by = call[s].by /\ c.id = call[s].id
  BY <1>1 DEF Call
<1>3. call' = [call EXCEPT ![s] = c] /\ UNCHANGED tables
  BY DEF Continue
<1> HIDE DEF c
<1>. QED  BY <1>2, <1>3 DEF TypeOK, Others

LEMMA EndCall ==
  ASSUME TypeOK, NEW s \in Session, End(s)
  PROVE  call' \in [Session -> Call] /\ Others(s) /\ call'[s].pc = "idle"
<1>1. Idle \in Call /\ Idle.pc = "idle"
  BY DEF Idle, Call
<1>. QED  BY <1>1 DEF TypeOK, End, Others

\* Rows of requests and invites stay, an invite keeps its terms, and so do the
\* links that are there.
Persist ==
  /\ \A q \in Request : request[q] # NULL => request'[q] # NULL
  /\ \A i \in Invite : invite[i] # NULL =>
       /\ invite'[i] # NULL
       /\ invite'[i].grants = invite[i].grants
       /\ invite'[i].by = invite[i].by
       /\ invite'[i].to = invite[i].to
  /\ \A p \in Profile : Linked(p) => Linked(p)'

LEMMA KeptCall ==
  ASSUME Persist, NEW s \in Session, CallOK(s), call'[s] = call[s]
  PROVE  CallOK(s)'
BY DEF Persist, CallOK, Household

\* A step of session s leaves the calls of the others as they should be.
LEMMA SessionStep ==
  ASSUME AccessInv, NEW s \in Session, TypeOK', LinkDecidesAccess', Persist, Others(s),
         CallOK(s)'
  PROVE  AccessInv'
BY KeptCall DEF AccessInv, Others

LEMMA SameTables ==
  ASSUME AccessInv, UNCHANGED tables, call' \in [Session -> Call]
  PROVE  TypeOK' /\ LinkDecidesAccess' /\ Persist
BY DEF AccessInv, TypeOK, LinkDecidesAccess, Persist, Linked, tables, hands

LEMMA IdleOK ==
  ASSUME NEW s \in Session, call'[s].pc = "idle"
  PROVE  CallOK(s)'
BY DEF CallOK

\* A step that changes one invite's status or stamps only.
LEMMA InviteKept ==
  ASSUME AccessInv, NEW i \in Invite, invite[i] # NULL, NEW row \in InviteRow,
         row.grants = invite[i].grants, row.by = invite[i].by, row.to = invite[i].to,
         invite' = [invite EXCEPT ![i] = row]
  PROVE  /\ invite' \in [Invite -> InviteRow \cup {NULL}]
         /\ \A j \in Invite : invite[j] # NULL =>
              /\ invite'[j] # NULL
              /\ invite'[j].grants = invite[j].grants
              /\ invite'[j].by = invite[j].by
              /\ invite'[j].to = invite[j].to
BY MembershipAssumption DEF AccessInv, TypeOK

-----------------------------------------------------------------------------
(* Inserts and the passing of time, which belong to no session.            *)

LEMMA NoSession ==
  ASSUME AccessInv, UNCHANGED <<profile, link, hands, call>>, Persist, TypeOK'
  PROVE  AccessInv'
<1>1. \A s \in Session : CallOK(s)'
  BY KeptCall DEF AccessInv
<1>. QED  BY <1>1 DEF AccessInv, LinkDecidesAccess, hands

LEMMA InsertStep ==
  ASSUME AccessInv, NEW p \in Profile, Insert(p)
  PROVE  AccessInv' /\ Persist /\ UNCHANGED <<profile, link, hands, call>>
<1>1. CASE \E st \in Inserted, e \in Estate : RequestJoin(p, e, st)
  <2>1. PICK st \in {"pending", "approved", "rejected"}, e \in Estate, q \in Request :
          /\ request[q] = NULL
          /\ request' = [request EXCEPT ![q] =
                           [by |-> p, estate |-> e, status |-> st, reviewer |-> NULL]]
          /\ UNCHANGED <<profile, reviewNotice, invite, link, hands, call>>
    BY <1>1 DEF RequestJoin
  <2>2. [by |-> p, estate |-> e, status |-> st, reviewer |-> NULL] \in RequestRow
    BY DEF RequestRow
  <2>3. TypeOK' /\ Persist
    BY <2>1, <2>2, MembershipAssumption DEF AccessInv, TypeOK, Persist, Linked, hands
  <2>. QED  BY <2>1, <2>3, NoSession
<1>2. CASE \E st \in Inserted, m \in Profile :
             \/ \E level \in Levels : InviteHousehold(p, m, level, st)
             \/ \E role \in Roles : InviteStaff(p, m, role, st)
  <2>1. PICK m \in Profile, g \in Level \cup StaffRole, st \in Inserted : Issue(p, m, g, st)
    BY <1>2, MembershipAssumption DEF InviteHousehold, InviteStaff
  <2> DEFINE row == [by |-> p, to |-> m, estate |-> profile[p].estate, grants |-> g,
                     status |-> st, taken |-> FALSE, late |-> FALSE, saved |-> FALSE]
  <2>2. PICK i \in Invite : invite[i] = NULL /\ invite' = [invite EXCEPT ![i] = row]
    BY <2>1 DEF Issue
  <2>3. profile[p].estate \in Estate /\ st \in {"pending", "accepted", "revoked"}
    BY <2>1 DEF Issue, AccessInv, TypeOK, ProfileRow
  <2>4. row \in InviteRow
    BY <2>3 DEF InviteRow
  <2>5. UNCHANGED <<profile, request, reviewNotice, link, hands, call>>
    BY <2>1 DEF Issue
  <2> HIDE DEF row
  <2>6. TypeOK' /\ Persist
    BY <2>2, <2>4, <2>5, MembershipAssumption DEF AccessInv, TypeOK, Persist, Linked, hands
  <2>. QED  BY <2>5, <2>6, NoSession
<1>. QED  BY <1>1, <1>2 DEF Insert

\* An invite row that is stamped or resolved is a row with the same terms.
Alike(row, r) ==
  row \in InviteRow /\ row.grants = r.grants /\ row.by = r.by /\ row.to = r.to

LEMMA StampedRow ==
  ASSUME NEW r \in InviteRow
  PROVE  /\ Alike([r EXCEPT !.saved = TRUE], r)
         /\ Alike([r EXCEPT !.saved = FALSE], r)
         /\ Alike([r EXCEPT !.late = TRUE], r)
         /\ Alike([r EXCEPT !.status = "revoked"], r)
         /\ Alike([r EXCEPT !.status = "accepted", !.taken = TRUE], r)
BY DEF Alike, InviteRow

LEMMA InviteStep ==
  ASSUME AccessInv, NEW i \in Invite,
         SaveStaffProfile(i) \/ SavedLapses(i) \/ InviteExpires(i)
  PROVE  AccessInv' /\ Persist /\ UNCHANGED <<profile, link, hands, call>>
<1>1. invite[i] \in InviteRow /\ invite[i] # NULL
  BY DEF SaveStaffProfile, SavedLapses, InviteExpires, Open, AccessInv, TypeOK
<1>2. PICK row : UpdateInvite(i, row) /\ Alike(row, invite[i])
  BY <1>1, StampedRow DEF SaveStaffProfile, SavedLapses, InviteExpires
<1>3. UNCHANGED <<profile, request, reviewNotice, link, hands, call>>
  BY <1>2 DEF UpdateInvite
<1>4. TypeOK' /\ Persist
  BY <1>1, <1>2, <1>3, InviteKept
     DEF Alike, UpdateInvite, AccessInv, TypeOK, Persist, Linked, hands
<1>. QED  BY <1>3, <1>4, NoSession

-----------------------------------------------------------------------------
(* The steps of a session.                                                 *)

LEMMA StartStep ==
  ASSUME AccessInv, NEW p \in Profile, NEW s \in Session, Start(s, p)
  PROVE  /\ AccessInv' /\ UNCHANGED tables /\ Others(s)
         /\ call'[s].pc \in {"find", "vouch", "join"} =>
              call'[s].pc = "find" /\ Convertible(call'[s].by)
<1>0. TypeOK
  BY DEF AccessInv
<1>1. CASE \E q \in Request, verdict \in {"approve", "reject"} : ReviewRead(s, p, q, verdict)
  <2>1. PICK q \in Request, verdict \in {"approve", "reject"} :
          Pending(q) /\ Begin(s, verdict, p, q)
    BY <1>1 DEF ReviewRead
  <2>2. /\ call' \in [Session -> Call] /\ Others(s) /\ UNCHANGED tables
        /\ call'[s].pc = verdict /\ call'[s].by = p /\ call'[s].id = q
    BY <1>0, <2>1, BeginCall
  <2>3. CallOK(s)'
    BY <2>1, <2>2 DEF CallOK, Pending, tables
  <2>. QED  BY <2>2, <2>3, SameTables, SessionStep
<1>2. CASE \E i \in Invite : WithdrawRead(s, p, i)
  <2>1. PICK i \in Invite : Open(i) /\ Begin(s, "withdraw", p, i)
    BY <1>2 DEF WithdrawRead
  <2>2. /\ call' \in [Session -> Call] /\ Others(s) /\ UNCHANGED tables
        /\ call'[s].pc = "withdraw" /\ call'[s].by = p /\ call'[s].id = i
    BY <1>0, <2>1, BeginCall
  <2>3. CallOK(s)'
    BY <2>1, <2>2 DEF CallOK, Open, tables
  <2>. QED  BY <2>2, <2>3, SameTables, SessionStep
<1>3. CASE \E i \in Invite : AcceptCaller(s, p, i) \/ StaffCaller(s, p, i)
  <2>1. PICK i \in Invite, pc \in {"find", "staffFind"} :
          Begin(s, pc, p, i) /\ (pc = "find" => Convertible(p))
    BY <1>3 DEF AcceptCaller, StaffCaller
  <2>2. /\ call' \in [Session -> Call] /\ Others(s) /\ UNCHANGED tables
        /\ call'[s].pc = pc /\ call'[s].by = p /\ call'[s].id = i
    BY <1>0, <2>1, BeginCall
  <2>3. CallOK(s)'
    BY <2>2 DEF CallOK
  <2>. QED  BY <2>1, <2>2, <2>3, SameTables, SessionStep
<1>4. CASE \E i \in Invite : StaffByEmail(s, p, i)
  <2>1. PICK i \in Invite : Open(i) /\ ~Household(i) /\ Begin(s, "staffJoin", p, i)
    BY <1>4 DEF StaffByEmail, Acceptable
  <2>2. /\ call' \in [Session -> Call] /\ Others(s) /\ UNCHANGED tables
        /\ call'[s].pc = "staffJoin" /\ call'[s].by = p /\ call'[s].id = i
    BY <1>0, <2>1, BeginCall
  <2>3. CallOK(s)'
    BY <2>1, <2>2 DEF CallOK, Open, Household, tables
  <2>. QED  BY <2>2, <2>3, SameTables, SessionStep
<1>5. CASE \E m \in Profile : UnlinkRead(s, p, m)
  <2>1. PICK m \in Profile : Linked(m) /\ Begin(s, "unlink", p, m)
    BY <1>5 DEF UnlinkRead
  <2>2. /\ call' \in [Session -> Call] /\ Others(s) /\ UNCHANGED tables
        /\ call'[s].pc = "unlink" /\ call'[s].by = p /\ call'[s].id = m
    BY <1>0, <2>1, BeginCall
  <2>3. CallOK(s)'
    BY <2>1, <2>2 DEF CallOK, Linked, tables
  <2>. QED  BY <2>2, <2>3, SameTables, SessionStep
<1>. QED  BY <1>1, <1>2, <1>3, <1>4, <1>5 DEF Start

\* Checks that pass, and calls that end without effect.
LEMMA QuietStep ==
  ASSUME AccessInv, NEW s \in Session,
         AcceptFind(s) \/ AcceptVouch(s) \/ StaffFind(s) \/ Rollback(s)
  PROVE  /\ AccessInv' /\ UNCHANGED tables /\ Others(s)
         /\ call'[s].pc \in {"find", "vouch", "join"} =>
              /\ call[s].pc \in {"find", "vouch"} /\ call'[s].by = call[s].by
              /\ call'[s].pc = "join" => Genuine(invite[call'[s].id].by)
<1>0. TypeOK /\ CallOK(s)
  BY DEF AccessInv
<1>1. CASE AcceptFind(s)
  <2>1. /\ call' \in [Session -> Call] /\ Others(s) /\ UNCHANGED tables
        /\ call'[s].pc = "vouch" /\ call'[s].by = call[s].by /\ call'[s].id = call[s].id
    BY <1>0, <1>1, ContinueCall DEF AcceptFind
  <2>2. /\ call[s].pc = "find" /\ invite[call[s].id] # NULL /\ Household(call[s].id)
        /\ invite[call[s].id].to = call[s].by
    BY <1>1 DEF AcceptFind, At, Acceptable, Open
  <2>3. CallOK(s)'
    BY <1>0, <2>1, <2>2 DEF CallOK, Household, tables
  <2>. QED  BY <2>1, <2>2, <2>3, SameTables, SessionStep
<1>2. CASE AcceptVouch(s)
  <2>1. PICK pc \in {"join", "refuse"} :
          Continue(s, pc) /\ (pc = "join" => Genuine(invite[call[s].id].by))
    BY <1>2 DEF AcceptVouch
  <2>2. /\ call' \in [Session -> Call] /\ Others(s) /\ UNCHANGED tables
        /\ call'[s].pc = pc /\ call'[s].by = call[s].by /\ call'[s].id = call[s].id
    BY <1>0, <2>1, ContinueCall
  <2>3. call[s].pc = "vouch"
    BY <1>2 DEF AcceptVouch, At
  <2>4. CallOK(s)'
    BY <1>0, <2>2, <2>3 DEF CallOK, Household, tables
  <2>. QED  BY <2>1, <2>2, <2>3, <2>4, SameTables, SessionStep
<1>3. CASE StaffFind(s)
  <2>1. /\ call' \in [Session -> Call] /\ Others(s) /\ UNCHANGED tables
        /\ call'[s].pc = "staffJoin" /\ call'[s].by = call[s].by /\ call'[s].id = call[s].id
    BY <1>0, <1>3, ContinueCall DEF StaffFind
  <2>2. call[s].pc = "staffFind" /\ invite[call[s].id] # NULL /\ ~Household(call[s].id)
    BY <1>3 DEF StaffFind, At, Acceptable, Open
  <2>3. CallOK(s)'
    BY <1>0, <2>1, <2>2 DEF CallOK, Household, tables
  <2>. QED  BY <2>1, <2>3, SameTables, SessionStep
<1>4. CASE Rollback(s)
  <2>1. call' \in [Session -> Call] /\ Others(s) /\ call'[s].pc = "idle" /\ UNCHANGED tables
    BY <1>0, <1>4, EndCall DEF Rollback
  <2>. QED  BY <2>1, IdleOK, SameTables, SessionStep
<1>. QED  BY <1>1, <1>2, <1>3, <1>4

LEMMA ReviewStep ==
  ASSUME AccessInv, NEW s \in Session, ApproveWrite(s) \/ RejectWrite(s)
  PROVE  /\ AccessInv' /\ Persist /\ Others(s) /\ call'[s].pc = "idle"
         /\ UNCHANGED <<invite, link, hands>>
         /\ \A p \in Profile : /\ profile'[p].role = profile[p].role
                               /\ profile'[p].level = profile[p].level
                               /\ profile[p].approved => profile'[p].approved
<1>1. call[s].pc \in {"approve", "reject"}
  BY DEF ApproveWrite, RejectWrite, At
<1>2. PICK q \in Request, a \in Profile : q = call[s].id /\ a = call[s].by /\ request[q] # NULL
  BY <1>1 DEF AccessInv, CallOK
<1>3. request[q] \in RequestRow
  BY <1>2 DEF AccessInv, TypeOK
<1>4. PICK st \in {"approved", "rejected"}, type \in {"join_request_approved", "join_request_rejected"} :
        Review(q, a, st, type)
  BY <1>2 DEF ApproveWrite, RejectWrite
<1>5. [request[q] EXCEPT !.status = st, !.reviewer = a] \in RequestRow
  <2>1. ASSUME NEW r \in RequestRow PROVE [r EXCEPT !.status = st, !.reviewer = a] \in RequestRow
    BY DEF RequestRow
  <2>. QED  BY <1>3, <2>1
<1>6. /\ request' = [request EXCEPT ![q] = [request[q] EXCEPT !.status = st, !.reviewer = a]]
      /\ reviewNotice' \in [Request -> {"none", "join_request_approved", "join_request_rejected"}]
  BY <1>4 DEF Review, AccessInv, TypeOK
<1>7. /\ profile' \in [Profile -> ProfileRow]
      /\ \A p \in Profile : /\ profile'[p].role = profile[p].role
                            /\ profile'[p].level = profile[p].level
                            /\ profile[p].approved => profile'[p].approved
  <2>1. PICK p \in Profile, e \in Estate : p = request[q].by /\ e = request[q].estate
    BY <1>3 DEF RequestRow
  <2>2. PICK row : row = [profile[p] EXCEPT !.estate = e, !.approved = TRUE]
    OBVIOUS
  <2>3. profile' = profile \/ profile' = [profile EXCEPT ![p] = row]
    <3>1. CASE RejectWrite(s)
      BY <3>1 DEF RejectWrite
    <3>2. CASE ApproveWrite(s)
      BY <1>2, <2>1, <2>2, <3>2 DEF ApproveWrite, AccessInv, TypeOK
    <3>. QED  BY <3>1, <3>2
  <2>4. profile[p] \in ProfileRow
    BY DEF AccessInv, TypeOK
  <2>5. row \in ProfileRow /\ row.role = profile[p].role /\ row.level = profile[p].level /\ row.approved
    <3>1. ASSUME NEW r \in ProfileRow, NEW x, x = [r EXCEPT !.estate = e, !.approved = TRUE]
          PROVE x \in ProfileRow /\ x.role = r.role /\ x.level = r.level /\ x.approved
      BY <3>1 DEF ProfileRow
    <3>. QED  BY <2>2, <2>4, <3>1
  <2>. QED  BY <2>3, <2>5 DEF AccessInv, TypeOK
<1>8. /\ call' \in [Session -> Call] /\ Others(s) /\ call'[s].pc = "idle"
      /\ UNCHANGED <<invite, link, hands>>
  BY EndCall DEF ApproveWrite, RejectWrite, AccessInv
<1>9. TypeOK' /\ Persist
  BY <1>5, <1>6, <1>7, <1>8, MembershipAssumption DEF AccessInv, TypeOK, Persist, Linked, hands
<1>10. LinkDecidesAccess'
  <2>1. link' = link /\ levelByHand' = levelByHand
    BY <1>8 DEF hands
  <2>2. \A p \in Profile : profile'[p].level = profile[p].level
    BY <1>7
  <2>. QED  BY <2>1, <2>2 DEF AccessInv, LinkDecidesAccess, SyncedLevel
<1>. QED  BY <1>7, <1>8, <1>9, <1>10, IdleOK, SessionStep

LEMMA RevokeInviteStep ==
  ASSUME AccessInv, NEW s \in Session, WithdrawWrite(s) \/ AcceptRefuse(s)
  PROVE  /\ AccessInv' /\ Persist /\ Others(s) /\ call'[s].pc = "idle"
         /\ UNCHANGED <<profile, link, hands>>
<1>1. PICK i \in Invite : i = call[s].id /\ invite[i] # NULL
  BY DEF WithdrawWrite, AcceptRefuse, At, AccessInv, CallOK
<1>2. invite[i] \in InviteRow
  BY <1>1 DEF AccessInv, TypeOK
<1>3. PICK row : row = [invite[i] EXCEPT !.status = "revoked"] /\ Alike(row, invite[i])
  BY <1>2, StampedRow
<1>4. /\ invite' = [invite EXCEPT ![i] = row]
      /\ End(s) /\ UNCHANGED <<profile, request, reviewNotice, link, hands>>
  BY <1>1, <1>3 DEF WithdrawWrite, AcceptRefuse
<1>5. TypeOK' /\ Persist
  BY <1>1, <1>3, <1>4, InviteKept, EndCall
     DEF Alike, AccessInv, TypeOK, Persist, Linked, hands
<1>6. LinkDecidesAccess'
  BY <1>4 DEF AccessInv, LinkDecidesAccess, hands
<1>. QED  BY <1>4, <1>5, <1>6, EndCall, IdleOK, SessionStep DEF AccessInv

LEMMA UnlinkStep ==
  ASSUME AccessInv, NEW s \in Session, UnlinkWrite(s)
  PROVE  /\ AccessInv' /\ Persist /\ Others(s) /\ call'[s].pc = "idle"
         /\ UNCHANGED <<invite, edited>>
         /\ \A p \in Profile :
              /\ profile'[p].role = profile[p].role
              /\ profile'[p].approved = profile[p].approved
              /\ profile'[p].level \in {profile[p].level, "revoked"}
              /\ link'[p] = link[p] \/ (Linked(p) /\ link'[p].status = "revoked"
                                        /\ link'[p].primary = link[p].primary)
<1>1. PICK m \in Profile : m = call[s].id /\ Linked(m)
  BY DEF UnlinkWrite, At, AccessInv, CallOK
<1>2. PICK l : l = [link[m] EXCEPT !.status = "revoked"]
  OBVIOUS
<1>3. l \in LinkRow /\ l.status = "revoked" /\ l.primary = link[m].primary /\ l.gone = link[m].gone
  <2>1. ASSUME NEW r \in LinkRow, NEW x, x = [r EXCEPT !.status = "revoked"]
        PROVE x \in LinkRow /\ x.status = "revoked" /\ x.primary = r.primary /\ x.gone = r.gone
    BY <2>1 DEF LinkRow
  <2>2. link[m] \in LinkRow
    BY <1>1 DEF AccessInv, TypeOK, Linked
  <2>. QED  BY <1>2, <2>1, <2>2
<1>4. PICK row : row = [profile[m] EXCEPT !.level = "revoked"]
  OBVIOUS
<1>5. /\ row \in ProfileRow /\ row.level = "revoked"
      /\ row.role = profile[m].role /\ row.approved = profile[m].approved
  <2>1. ASSUME NEW r \in ProfileRow, NEW x, x = [r EXCEPT !.level = "revoked"]
        PROVE /\ x \in ProfileRow /\ x.level = "revoked"
              /\ x.role = r.role /\ x.approved = r.approved
    BY <2>1 DEF ProfileRow
  <2>2. profile[m] \in ProfileRow
    BY DEF AccessInv, TypeOK
  <2>. QED  BY <1>4, <2>1, <2>2
<1>6. /\ link' = [link EXCEPT ![m] = l]
      /\ profile' = [profile EXCEPT ![m] = row]
      /\ levelByHand' = levelByHand \ {m}
      /\ End(s) /\ UNCHANGED <<request, reviewNotice, invite, edited>>
  <2>1. SyncedLevel(l) = "revoked"
    BY <1>3 DEF SyncedLevel
  <2>. QED  BY <1>1, <1>2, <1>4, <2>1 DEF UnlinkWrite
<1>7. TypeOK' /\ Persist
  BY <1>1, <1>3, <1>5, <1>6, EndCall, MembershipAssumption
     DEF AccessInv, TypeOK, Persist, Linked
<1>8. LinkDecidesAccess'
  <2>1. link'[m] = l /\ profile'[m].level = "revoked" /\ l # NULL
    BY <1>3, <1>5, <1>6, MembershipAssumption DEF AccessInv, TypeOK
  <2>2. \A p \in Profile \ {m} : link'[p] = link[p] /\ profile'[p] = profile[p]
    BY <1>6 DEF AccessInv, TypeOK
  <2>. QED  BY <1>3, <1>6, <2>1, <2>2 DEF AccessInv, LinkDecidesAccess, SyncedLevel
<1>9. \A p \in Profile :
        /\ profile'[p].role = profile[p].role
        /\ profile'[p].approved = profile[p].approved
        /\ profile'[p].level \in {profile[p].level, "revoked"}
        /\ link'[p] = link[p] \/ (Linked(p) /\ link'[p].status = "revoked"
                                  /\ link'[p].primary = link[p].primary)
  BY <1>1, <1>3, <1>5, <1>6 DEF AccessInv, TypeOK
<1>. QED  BY <1>6, <1>7, <1>8, <1>9, EndCall, IdleOK, SessionStep DEF AccessInv

LEMMA JoinStep ==
  ASSUME AccessInv, NEW s \in Session, AcceptJoin(s)
  PROVE  /\ AccessInv' /\ Persist /\ Others(s) /\ call'[s].pc = "idle"
         /\ \E p \in Profile, i \in Invite :
              /\ p = call[s].by /\ i = call[s].id /\ call[s].pc = "join"
              /\ Linked(p)' /\ link'[p].primary = invite[i].by
              /\ profile'[p].approved /\ profile'[p].role = profile[p].role
              /\ \A q \in Profile \ {p} : link'[q] = link[q] /\ profile'[q] = profile[q]
         /\ UNCHANGED edited
<1>1. PICK p \in Profile, i \in Invite :
        /\ p = call[s].by /\ i = call[s].id /\ invite[i] # NULL
        /\ Household(i) /\ call[s].pc = "join"
  BY DEF AcceptJoin, At, AccessInv, CallOK
<1>2. invite[i] \in InviteRow /\ profile[p] \in ProfileRow /\ invite[i].grants \in Level
  BY <1>1 DEF AccessInv, TypeOK, Household
<1>3. PICK l : l = [primary |-> invite[i].by, access |-> invite[i].grants,
                    estate |-> invite[i].estate, status |-> "active", gone |-> FALSE]
  OBVIOUS
<1>4. /\ l \in LinkRow /\ l.estate \in Estate /\ l.primary = invite[i].by
      /\ l.status = "active" /\ l.access \in Level /\ ~l.gone
  BY <1>2, <1>3 DEF LinkRow, InviteRow
<1>5. PICK row : row = [profile[p] EXCEPT !.estate = l.estate, !.approved = TRUE,
                                          !.level = l.access]
  OBVIOUS
<1>6. row \in ProfileRow /\ row.level = l.access /\ row.approved /\ row.role = profile[p].role
  <2>1. ASSUME NEW r \in ProfileRow, NEW x, NEW e \in Estate, NEW a \in Level,
               x = [r EXCEPT !.estate = e, !.approved = TRUE, !.level = a]
        PROVE x \in ProfileRow /\ x.level = a /\ x.approved /\ x.role = r.role
    BY <2>1 DEF ProfileRow
  <2>. QED  BY <1>2, <1>4, <1>5, <2>1
<1>7. PICK inv : /\ inv = [invite[i] EXCEPT !.status = "accepted", !.taken = TRUE]
                 /\ Alike(inv, invite[i])
  BY <1>2, StampedRow
<1>8. /\ link' = [link EXCEPT ![p] = l]
      /\ profile' = [profile EXCEPT ![p] = row]
      /\ invite' = [invite EXCEPT ![i] = inv]
      /\ levelByHand' = levelByHand \ {p}
      /\ End(s) /\ UNCHANGED <<request, reviewNotice, edited>>
  <2>1. SyncedLevel(l) = l.access
    BY <1>4 DEF SyncedLevel
  <2>. QED  BY <1>1, <1>3, <1>5, <1>7, <2>1 DEF AcceptJoin
<1>9. TypeOK' /\ Persist
  <2>1. /\ link' \in [Profile -> LinkRow \cup {NULL}]
        /\ \A q \in Profile : Linked(q) => Linked(q)'
    BY <1>4, <1>8, MembershipAssumption DEF AccessInv, TypeOK, Linked
  <2>2. profile' \in [Profile -> ProfileRow]
    BY <1>6, <1>8 DEF AccessInv, TypeOK
  <2>. QED  BY <1>1, <1>7, <1>8, <2>1, <2>2, InviteKept, EndCall
            DEF Alike, AccessInv, TypeOK, Persist
<1>10. /\ link'[p] = l /\ l # NULL /\ profile'[p] = row
       /\ \A q \in Profile \ {p} : link'[q] = link[q] /\ profile'[q] = profile[q]
  BY <1>4, <1>8, MembershipAssumption DEF AccessInv, TypeOK
<1>11. LinkDecidesAccess'
  BY <1>4, <1>6, <1>8, <1>10 DEF AccessInv, LinkDecidesAccess, SyncedLevel
<1>12. Linked(p)'
  BY <1>4, <1>10 DEF Linked
<1>. QED  BY <1>1, <1>4, <1>6, <1>8, <1>9, <1>10, <1>11, <1>12, EndCall, IdleOK, SessionStep
          DEF AccessInv

LEMMA StaffStep ==
  ASSUME AccessInv, NEW s \in Session, StaffJoin(s)
  PROVE  /\ AccessInv' /\ Persist /\ Others(s) /\ call'[s].pc = "idle"
         /\ UNCHANGED <<link, hands>>
         /\ \A p \in Profile : /\ profile'[p].level = profile[p].level
                               /\ profile[p].approved => profile'[p].approved
<1>1. PICK p \in Profile, i \in Invite :
        p = call[s].by /\ i = call[s].id /\ invite[i] # NULL /\ ~Household(i)
  BY DEF StaffJoin, At, AccessInv, CallOK
<1>2. invite[i] \in InviteRow /\ profile[p] \in ProfileRow
  BY <1>1 DEF AccessInv, TypeOK
<1>3. invite[i].grants \in StaffRole /\ invite[i].estate \in Estate
  BY <1>1, <1>2 DEF InviteRow, Household
<1>4. PICK row : row = [profile[p] EXCEPT !.role = invite[i].grants,
                          !.estate = invite[i].estate, !.approved = TRUE]
  OBVIOUS
<1>5. row \in ProfileRow /\ row.level = profile[p].level /\ row.approved
  <2>1. ASSUME NEW r \in ProfileRow, NEW x, NEW e \in Estate, NEW g \in StaffRole,
               x = [r EXCEPT !.role = g, !.estate = e, !.approved = TRUE]
        PROVE x \in ProfileRow /\ x.level = r.level /\ x.approved
    BY <2>1 DEF ProfileRow
  <2>. QED  BY <1>2, <1>3, <1>4, <2>1
<1>6. PICK inv : /\ inv = [invite[i] EXCEPT !.status = "accepted", !.taken = TRUE]
                 /\ Alike(inv, invite[i])
  BY <1>2, StampedRow
<1>7. /\ profile' = [profile EXCEPT ![p] = row]
      /\ invite' = [invite EXCEPT ![i] = inv]
      /\ End(s) /\ UNCHANGED <<request, reviewNotice, link, hands>>
  BY <1>1, <1>4, <1>6 DEF StaffJoin
<1>8. TypeOK' /\ Persist
  BY <1>1, <1>5, <1>6, <1>7, InviteKept, EndCall
     DEF Alike, AccessInv, TypeOK, Persist, Linked, hands
<1>9. \A q \in Profile : /\ profile'[q].level = profile[q].level
                         /\ profile[q].approved => profile'[q].approved
  BY <1>5, <1>7 DEF AccessInv, TypeOK
<1>10. LinkDecidesAccess'
  BY <1>7, <1>9 DEF AccessInv, LinkDecidesAccess, SyncedLevel, hands
<1>. QED  BY <1>7, <1>8, <1>9, <1>10, EndCall, IdleOK, SessionStep DEF AccessInv

-----------------------------------------------------------------------------
(* Edits by hand and deletions.                                            *)

LEMMA EditStep ==
  ASSUME AccessInv, NEW s \in Session, NEW a \in Profile, NEW m \in Profile, NEW row \in EditedTo,
         EditProfile(s, a, m, row)
  PROVE  /\ AccessInv' /\ Persist
         /\ UNCHANGED <<request, reviewNotice, invite, link, call>>
         /\ edited' = edited \cup {m}
         /\ \A p \in Profile \ {m} : profile'[p] = profile[p]
         /\ profile'[m].role # "deleted"
<1>1. row \in ProfileRow /\ row.role # "deleted"
  BY MembershipAssumption
<1>2. /\ profile' = [profile EXCEPT ![m] = row]
      /\ edited' = edited \cup {m}
      /\ levelByHand' \in {levelByHand, levelByHand \cup {m}}
      /\ m \notin levelByHand' => row.level = profile[m].level
      /\ UNCHANGED <<request, reviewNotice, invite, link, call>>
  BY DEF EditProfile
<1>3. profile'[m] = row /\ \A p \in Profile \ {m} : profile'[p] = profile[p]
  BY <1>2 DEF AccessInv, TypeOK
<1>4. TypeOK' /\ Persist
  BY <1>1, <1>2 DEF AccessInv, TypeOK, Persist, Linked
<1>5. LinkDecidesAccess'
  <2>1. ASSUME NEW p \in Profile, p \notin levelByHand'
        PROVE  p \notin levelByHand /\ profile'[p].level = profile[p].level
    BY <1>2, <1>3, <2>1
  <2>. QED  BY <1>2, <2>1 DEF AccessInv, LinkDecidesAccess, SyncedLevel
<1>6. \A u \in Session : CallOK(u)'
  BY <1>2, <1>4, KeptCall DEF AccessInv
<1>. QED  BY <1>1, <1>2, <1>3, <1>4, <1>5, <1>6 DEF AccessInv

\* A deleted row is a row with the same terms.
LEMMA DeletedRow ==
  /\ \A r \in RequestRow : [r EXCEPT !.status = "deleted"] \in RequestRow
  /\ \A r \in InviteRow : /\ Alike([r EXCEPT !.status = "deleted"], r)
                          /\ [r EXCEPT !.status = "deleted"].status = "deleted"
                          /\ [r EXCEPT !.status = "deleted"].taken = r.taken
  /\ \A r \in LinkRow : /\ [r EXCEPT !.gone = TRUE] \in LinkRow
                        /\ [r EXCEPT !.gone = TRUE].gone
                        /\ [r EXCEPT !.gone = TRUE].status = r.status
                        /\ [r EXCEPT !.gone = TRUE].access = r.access
BY DEF RequestRow, InviteRow, LinkRow, Alike

\* What the deletion of a profile does to each row.
Deleted(p) ==
  /\ profile'[p].role = "deleted" /\ link'[p] = NULL /\ UNCHANGED hands
  /\ \A q \in Request :
       IF request[q] # NULL /\ request[q].by = p
       THEN request'[q] # NULL /\ request'[q].status = "deleted" /\ request'[q].by = p
       ELSE request'[q] = request[q] /\ reviewNotice'[q] = reviewNotice[q]
  /\ \A i \in Invite :
       \/ invite'[i] = invite[i]
       \/ /\ invite[i] # NULL /\ invite'[i] # NULL
          /\ invite'[i].status = "deleted" /\ invite'[i].taken = invite[i].taken
          /\ invite'[i].to = invite[i].to
  /\ \A x \in Profile \ {p} :
       /\ profile'[x] = profile[x]
       /\ Linked(x)' => link'[x] = link[x] /\ link[x].primary # p
       /\ link[x] = NULL => link'[x] = NULL
  /\ \A u \in Session : call'[u] = call[u] \/ call'[u].pc = "idle"

LEMMA DeleteStep ==
  ASSUME AccessInv, NEW s \in Session, NEW p \in Profile, DeleteProfile(s, p)
  PROVE  AccessInv' /\ Deleted(p)
<1> DEFINE gone == [role |-> "deleted", approved |-> FALSE, estate |-> NULL, level |-> NULL]
           ends(m) == m = p \/ (link[m] # NULL /\ link[m].primary = p)
<1>0. /\ TypeOK /\ Idle \in Call /\ Idle.pc = "idle"
      /\ gone \in ProfileRow /\ gone.role = "deleted" /\ gone.level = NULL
  BY DEF AccessInv, Idle, Call, ProfileRow
<1>1. /\ profile' = [profile EXCEPT ![p] = gone]
      /\ request' = [q \in Request |->
                       IF request[q] # NULL /\ request[q].by = p
                       THEN [request[q] EXCEPT !.status = "deleted"] ELSE request[q]]
      /\ reviewNotice' = [q \in Request |->
                       IF request[q] # NULL /\ request[q].by = p THEN "none" ELSE reviewNotice[q]]
      /\ invite' = [i \in Invite |->
                       IF invite[i] # NULL /\ Household(i) /\ invite[i].by = p
                       THEN [invite[i] EXCEPT !.status = "deleted"] ELSE invite[i]]
      /\ link' = [m \in Profile |->
                       IF m = p THEN NULL
                       ELSE IF ends(m) THEN [link[m] EXCEPT !.gone = TRUE] ELSE link[m]]
      /\ call' = [u \in Session |->
                       IF call[u].pc = "unlink" /\ ends(call[u].id) THEN Idle ELSE call[u]]
      /\ UNCHANGED hands
  BY DEF DeleteProfile
<1> HIDE DEF gone, ends
<1>2. /\ profile' \in [Profile -> ProfileRow] /\ profile'[p] = gone
      /\ \A x \in Profile \ {p} : profile'[x] = profile[x]
  BY <1>0, <1>1 DEF TypeOK
<1>3. ASSUME NEW q \in Request
      PROVE  /\ request'[q] \in RequestRow \cup {NULL}
             /\ request[q] # NULL => request'[q] # NULL
             /\ IF request[q] # NULL /\ request[q].by = p
                THEN request'[q] # NULL /\ request'[q].status = "deleted" /\ request'[q].by = p
                ELSE request'[q] = request[q] /\ reviewNotice'[q] = reviewNotice[q]
  <2>1. CASE request[q] # NULL /\ request[q].by = p
    <3>1. request[q] \in RequestRow /\ request'[q] = [request[q] EXCEPT !.status = "deleted"]
      BY <1>0, <1>1, <2>1 DEF TypeOK
    <3>2. request'[q] \in RequestRow /\ request'[q].status = "deleted" /\ request'[q].by = p
      <4>1. ASSUME NEW r \in RequestRow, NEW x, x = [r EXCEPT !.status = "deleted"]
            PROVE  x \in RequestRow /\ x.status = "deleted" /\ x.by = r.by
        BY <4>1 DEF RequestRow
      <4>. QED  BY <2>1, <3>1, <4>1
    <3>. QED  BY <2>1, <3>2, MembershipAssumption
  <2>2. CASE ~(request[q] # NULL /\ request[q].by = p)
    BY <1>0, <1>1, <2>2 DEF TypeOK
  <2>. QED  BY <2>1, <2>2
<1>4. ASSUME NEW i \in Invite
      PROVE  /\ invite'[i] \in InviteRow \cup {NULL}
             /\ \/ invite'[i] = invite[i]
                \/ /\ invite[i] # NULL /\ invite'[i] # NULL /\ Alike(invite'[i], invite[i])
                   /\ invite'[i].status = "deleted" /\ invite'[i].taken = invite[i].taken
  <2>1. CASE invite'[i] = invite[i]
    BY <1>0, <2>1 DEF TypeOK
  <2>2. CASE invite'[i] # invite[i]
    <3>1. invite[i] # NULL /\ invite'[i] = [invite[i] EXCEPT !.status = "deleted"]
      BY <1>1, <2>2
    <3>2. invite[i] \in InviteRow
      BY <1>0, <3>1 DEF TypeOK
    <3>3. invite'[i] \in InviteRow
      BY <3>1, <3>2, DeletedRow DEF Alike
    <3>. QED  BY <3>1, <3>2, <3>3, DeletedRow, MembershipAssumption
  <2>. QED  BY <2>1, <2>2
<1>5. ASSUME NEW m \in Profile
      PROVE  /\ link'[m] \in LinkRow \cup {NULL}
             /\ link[m] = NULL => link'[m] = NULL
             /\ m = p => link'[m] = NULL
             /\ m # p /\ link[m] # NULL =>
                  /\ link'[m] # NULL /\ SyncedLevel(link'[m]) = SyncedLevel(link[m])
                  /\ IF link[m].primary = p THEN link'[m].gone ELSE link'[m] = link[m]
  <2>1. CASE m # p /\ link[m] # NULL /\ link[m].primary = p
    <3>1. link[m] \in LinkRow /\ link'[m] = [link[m] EXCEPT !.gone = TRUE]
      BY <1>0, <1>1, <2>1 DEF TypeOK, ends
    <3>. QED  BY <2>1, <3>1, DeletedRow, MembershipAssumption DEF SyncedLevel
  <2>2. CASE m # p /\ ~(link[m] # NULL /\ link[m].primary = p)
    <3>1. link'[m] = link[m]
      BY <1>1, <2>2 DEF ends
    <3>. QED  BY <1>0, <2>2, <3>1 DEF TypeOK, SyncedLevel
  <2>3. CASE m = p
    BY <1>1, <2>3
  <2>. QED  BY <2>1, <2>2, <2>3
<1>6. /\ call' \in [Session -> Call]
      /\ \A u \in Session : call'[u] = call[u] \/ call'[u].pc = "idle"
  BY <1>0, <1>1 DEF TypeOK
<1>7. TypeOK'
  <2>1. request' \in [Request -> RequestRow \cup {NULL}]
    BY <1>1, <1>3
  <2>2. invite' \in [Invite -> InviteRow \cup {NULL}]
    BY <1>1, <1>4
  <2>3. link' \in [Profile -> LinkRow \cup {NULL}]
    BY <1>1, <1>5
  <2>4. reviewNotice' \in [Request -> {"none", "join_request_approved", "join_request_rejected"}]
    BY <1>0, <1>1 DEF TypeOK
  <2>. QED  BY <1>0, <1>1, <1>2, <1>6, <2>1, <2>2, <2>3, <2>4 DEF TypeOK, hands
<1>8. LinkDecidesAccess'
  <2>1. ASSUME NEW m \in Profile, m \notin levelByHand
        PROVE  profile'[m].level = IF link'[m] = NULL THEN NULL ELSE SyncedLevel(link'[m])
    <3>1. CASE m = p
      BY <1>0, <1>2, <1>5, <3>1
    <3>2. CASE m # p
      BY <1>2, <1>5, <2>1, <3>2 DEF AccessInv, LinkDecidesAccess
    <3>. QED  BY <3>1, <3>2
  <2>. QED  BY <1>1, <2>1 DEF LinkDecidesAccess, SyncedLevel, hands
<1>9. ASSUME NEW u \in Session PROVE CallOK(u)'
  <2>1. CASE call'[u].pc = "idle"
    BY <2>1, IdleOK
  <2>2. CASE call'[u].pc # "idle" /\ call'[u].pc # "unlink"
    <3>1. call'[u] = call[u] /\ CallOK(u)
      BY <1>6, <2>2 DEF AccessInv
    <3>2. \A i \in Invite : invite[i] # NULL =>
            /\ invite'[i] # NULL /\ invite'[i].grants = invite[i].grants
            /\ invite'[i].to = invite[i].to
      BY <1>4 DEF Alike
    <3>. QED  BY <1>3, <2>2, <3>1, <3>2 DEF CallOK, Household
  <2>3. CASE call'[u].pc = "unlink"
    <3>1. call'[u] = call[u] /\ CallOK(u) /\ ~ends(call[u].id)
      BY <1>0, <1>1, <2>3 DEF AccessInv
    <3>2. Linked(call[u].id)'
      BY <1>5, <2>3, <3>1 DEF CallOK, Linked, ends
    <3>. QED  BY <2>3, <3>1, <3>2 DEF CallOK, Linked
  <2>. QED  BY <2>1, <2>2, <2>3
<1>10. AccessInv'
  BY <1>7, <1>8, <1>9 DEF AccessInv
<1>11. \A x \in Profile \ {p} :
         /\ Linked(x)' => link'[x] = link[x] /\ link[x].primary # p
         /\ link[x] = NULL => link'[x] = NULL
  BY <1>5 DEF Linked
<1>12. \A i \in Invite :
         \/ invite'[i] = invite[i]
         \/ /\ invite[i] # NULL /\ invite'[i] # NULL
            /\ invite'[i].status = "deleted" /\ invite'[i].taken = invite[i].taken
            /\ invite'[i].to = invite[i].to
  BY <1>4 DEF Alike
<1>. QED  BY <1>0, <1>1, <1>2, <1>3, <1>5, <1>6, <1>10, <1>11, <1>12 DEF Deleted

-----------------------------------------------------------------------------
(* The theorems that hold for any number of sessions.                      *)

LEMMA InitAccess == Init => AccessInv
<1> SUFFICES ASSUME Init PROVE AccessInv
  OBVIOUS
<1>1. Idle \in Call /\ Idle.pc = "idle"
  BY DEF Idle, Call
<1>2. ASSUME NEW p \in Profile PROVE profile[p] \in ProfileRow /\ profile[p].level = NULL
  <2>1. CASE p \in Founders
    <3> DEFINE e == CHOOSE e \in Estate : Founder[e] = p
    <3>1. e \in Estate
      BY <2>1 DEF Founders
    <3>2. profile[p] = [role |-> "super_admin", approved |-> TRUE, estate |-> e, level |-> NULL]
      BY <2>1 DEF Init
    <3> HIDE DEF e
    <3>. QED  BY <3>1, <3>2 DEF ProfileRow
  <2>2. CASE p \notin Founders
    BY <2>2 DEF Init, ProfileRow
  <2>. QED  BY <2>1, <2>2
<1>3. profile \in [Profile -> ProfileRow]
  BY <1>2 DEF Init
<1>4. TypeOK
  BY <1>1, <1>3 DEF Init, TypeOK
<1>5. LinkDecidesAccess
  BY <1>2 DEF Init, LinkDecidesAccess, SyncedLevel
<1>6. \A s \in Session : CallOK(s)
  BY <1>1 DEF Init, CallOK
<1>. QED  BY <1>4, <1>5, <1>6 DEF AccessInv

LEMMA NextAccess == AccessInv /\ [Next]_vars => AccessInv'
<1> SUFFICES ASSUME AccessInv, [Next]_vars PROVE AccessInv'
  OBVIOUS
<1>1. ASSUME NEW p \in Profile, Insert(p) PROVE AccessInv'
  BY <1>1, InsertStep
<1>2. ASSUME NEW p \in Profile, NEW s \in Session, Start(s, p) PROVE AccessInv'
  BY <1>2, StartStep
<1>3. ASSUME NEW s \in Session, Run(s) PROVE AccessInv'
  BY <1>3, ReviewStep, RevokeInviteStep, UnlinkStep, QuietStep, JoinStep, StaffStep DEF Run
<1>4. ASSUME NEW i \in Invite, SaveStaffProfile(i) \/ SavedLapses(i) \/ InviteExpires(i)
      PROVE AccessInv'
  BY <1>4, InviteStep
<1>5. CASE Direct
  BY <1>5, EditStep, DeleteStep DEF Direct
<1>6. CASE UNCHANGED vars
  <2>1. UNCHANGED tables /\ call' = call
    BY <1>6 DEF vars
  <2>2. TypeOK' /\ LinkDecidesAccess' /\ Persist
    BY <2>1, SameTables DEF AccessInv, TypeOK
  <2>. QED  BY <2>1, <2>2, KeptCall DEF AccessInv
<1>. QED  BY <1>1, <1>2, <1>3, <1>4, <1>5, <1>6 DEF Next

\* All variables keep their types.
THEOREM TypeCorrect == Spec => []TypeOK
<1>1. AccessInv => TypeOK
  BY DEF AccessInv
<1>. QED  BY InitAccess, NextAccess, <1>1, PTL DEF Spec

\* The household access of a profile is always what its link says, or said last,
\* however invitations, revocations, reviews, hirings and deletions of any number
\* of sessions overlap, unless the level stands as an admin wrote it.
THEOREM LinkDecidesAccessCorrect == Spec => []LinkDecidesAccess
<1>1. AccessInv => LinkDecidesAccess
  BY DEF AccessInv
<1>. QED  BY InitAccess, NextAccess, <1>1, PTL DEF Spec

-----------------------------------------------------------------------------
(* Reviews and their notices.                                              *)

\* A request under review was filed as pending or has been reviewed: what a
\* client inserts as approved is never reviewed.
Reviewable(q) ==
  request[q].status \in {"pending", "deleted"} \/ request[q].reviewer # NULL

NoticeInv ==
  /\ NoticeTellsDecision
  /\ \A q \in Request : request[q] = NULL => reviewNotice[q] = "none"
  /\ \A s \in Session : call[s].pc \in {"approve", "reject"} => Reviewable(call[s].id)

\* Reviews that begin are of pending requests.
BeginPending ==
  \A u \in Session :
    call'[u] = call[u] \/ call'[u].pc \notin {"approve", "reject"} \/ Pending(call'[u].id)

LEMMA NoticeAside ==
  ASSUME NoticeInv, UNCHANGED <<request, reviewNotice>>, BeginPending
  PROVE  NoticeInv'
BY DEF NoticeInv, NoticeTellsDecision, Filed, Reviewable, Pending, BeginPending

\* Steps of a session other than the beginnings and the writes of reviews.
LEMMA NoticeSession ==
  ASSUME AccessInv, NoticeInv, UNCHANGED <<request, reviewNotice>>, NEW s \in Session, Run(s)
  PROVE  NoticeInv'
<1>1. call \in [Session -> Call]
  BY DEF AccessInv, TypeOK
<1>2. \A u \in Session : call'[u] = call[u] \/ call'[u].pc \notin {"approve", "reject"}
  <2>1. ASSUME NEW pc \in {"vouch", "join", "refuse", "staffJoin"}, Continue(s, pc)
        PROVE  \A u \in Session : call'[u] = call[u] \/ call'[u].pc \notin {"approve", "reject"}
    BY <2>1, ContinueCall DEF AccessInv, Others
  <2>2. ASSUME End(s)
        PROVE  \A u \in Session : call'[u] = call[u] \/ call'[u].pc \notin {"approve", "reject"}
    BY <2>2, EndCall DEF AccessInv, Others
  <2>3. End(s) \/ \E pc \in {"vouch", "join", "refuse", "staffJoin"} : Continue(s, pc)
    BY DEF Run, ApproveWrite, RejectWrite, WithdrawWrite, UnlinkWrite, AcceptFind, AcceptVouch,
           AcceptRefuse, AcceptJoin, StaffFind, StaffJoin, Rollback
  <2>. QED  BY <2>1, <2>2, <2>3
<1>3. BeginPending
  BY <1>2 DEF BeginPending
<1>. QED  BY <1>3, NoticeAside

LEMMA NoticeStart ==
  ASSUME AccessInv, NoticeInv, NEW s \in Session, NEW p \in Profile, Start(s, p)
  PROVE  NoticeInv'
<1>0. UNCHANGED <<request, reviewNotice>> /\ Others(s)
  BY StartStep DEF tables
<1>1. call'[s].pc \in {"approve", "reject"} => Pending(call'[s].id)
  <2>1. ASSUME NEW pc \in {"withdraw", "unlink", "find", "staffFind", "staffJoin"},
               NEW id \in Request \cup Invite \cup Profile, Begin(s, pc, p, id)
        PROVE  call'[s].pc \notin {"approve", "reject"}
    BY <2>1, BeginCall DEF AccessInv
  <2>2. ASSUME NEW q \in Request, NEW v \in {"approve", "reject"}, ReviewRead(s, p, q, v)
        PROVE  Pending(call'[s].id)
    <3>1. call'[s].id = q /\ Pending(q)
      BY <2>2, BeginCall DEF ReviewRead, AccessInv
    <3>. QED  BY <3>1
  <2>. QED  BY <2>1, <2>2
            DEF Start, WithdrawRead, AcceptCaller, StaffCaller, StaffByEmail, UnlinkRead
<1>2. BeginPending
  BY <1>0, <1>1 DEF Others, BeginPending
<1>. QED  BY <1>0, <1>2, NoticeAside

LEMMA NoticeInsert ==
  ASSUME AccessInv, NoticeInv, NEW p \in Profile, NEW e \in Estate, NEW st \in Inserted,
         RequestJoin(p, e, st)
  PROVE  NoticeInv'
<1> DEFINE row == [by |-> p, estate |-> e, status |-> st, reviewer |-> NULL]
<1>1. PICK q \in Request :
        request[q] = NULL /\ request' = [request EXCEPT ![q] = row]
  BY DEF RequestJoin
<1>2. reviewNotice' = reviewNotice
  BY DEF RequestJoin
<1>3. row \in RequestRow /\ row.reviewer = NULL
  BY DEF RequestJoin, RequestRow
<1> HIDE DEF row
<1>4. row # NULL
  BY <1>3, MembershipAssumption
<1>5. \A u \in Session : /\ call'[u] = call[u]
                         /\ call[u].pc \in {"approve", "reject"} =>
                              call[u].id \in Request /\ request[call[u].id] # NULL
  BY DEF RequestJoin, AccessInv, CallOK
<1>. QED  BY <1>1, <1>2, <1>3, <1>4, <1>5
          DEF AccessInv, TypeOK, NoticeInv, NoticeTellsDecision, Filed, Reviewable

\* A review that finds the request decided the same way tells nobody again; one
\* that decides otherwise tells the new outcome.
LEMMA NoticeReview ==
  ASSUME AccessInv, NoticeInv, NEW s \in Session, ApproveWrite(s) \/ RejectWrite(s)
  PROVE  NoticeInv'
<1>1. PICK q \in Request, a \in Profile :
        q = call[s].id /\ a = call[s].by /\ request[q] # NULL /\ Filed(q) /\ Reviewable(q)
  BY DEF ApproveWrite, RejectWrite, Review, At, AccessInv, CallOK, NoticeInv
<1>2. request[q] \in RequestRow /\ TypeOK
  BY <1>1 DEF AccessInv, TypeOK
<1>3. PICK st, type :
        /\ Review(q, a, st, type)
        /\ \/ st = "approved" /\ type = "join_request_approved"
           \/ st = "rejected" /\ type = "join_request_rejected"
  BY <1>1 DEF ApproveWrite, RejectWrite
<1>4. PICK row : row = [request[q] EXCEPT !.status = st, !.reviewer = a]
  OBVIOUS
<1>5. row.status = st /\ row.reviewer = a /\ row \in RequestRow
  <2>1. ASSUME NEW r \in RequestRow, NEW x, x = [r EXCEPT !.status = st, !.reviewer = a]
        PROVE  x.status = st /\ x.reviewer = a /\ x \in RequestRow
    BY <1>3, <2>1 DEF RequestRow
  <2>. QED  BY <1>2, <1>4, <2>1
<1>6. request' = [request EXCEPT ![q] = row]
  BY <1>3, <1>4 DEF Review
<1>7. /\ request'[q] = row /\ row # NULL /\ a # NULL
      /\ \A x \in Request \ {q} : request'[x] = request[x] /\ reviewNotice'[x] = reviewNotice[x]
  BY <1>2, <1>3, <1>5, <1>6, MembershipAssumption DEF Review, TypeOK
<1>8. reviewNotice'[q] = type
  <2>1. CASE request[q].status = st
    <3>1. reviewNotice[q] = type
      BY <1>1, <1>2, <1>3, <2>1 DEF NoticeInv, NoticeTellsDecision, Filed, Reviewable
    <3>. QED  BY <1>3, <2>1, <3>1 DEF Review
  <2>2. CASE request[q].status # st
    BY <1>2, <1>3, <2>2 DEF Review, TypeOK
  <2>. QED  BY <2>1, <2>2
<1>9. \A u \in Session : call'[u] = call[u] \/ call'[u].pc = "idle"
  BY ReviewStep DEF Others
<1>10. NoticeTellsDecision' /\ \A x \in Request : request'[x] = NULL => reviewNotice'[x] = "none"
  BY <1>3, <1>5, <1>7, <1>8 DEF NoticeInv, NoticeTellsDecision, Filed
<1>11. ASSUME NEW u \in Session, call'[u].pc \in {"approve", "reject"}
       PROVE  Reviewable(call[u].id)'
  <2>1. call'[u] = call[u] /\ call[u].id \in Request /\ Reviewable(call[u].id)
    BY <1>9, <1>11 DEF NoticeInv, AccessInv, CallOK
  <2>2. CASE call[u].id = q
    BY <1>5, <1>7, <2>1, <2>2 DEF Reviewable
  <2>3. CASE call[u].id # q
    BY <1>7, <2>1, <2>3 DEF Reviewable
  <2>. QED  BY <2>2, <2>3
<1>. QED  BY <1>10, <1>11 DEF NoticeInv

LEMMA NoticeDelete ==
  ASSUME AccessInv, NoticeInv, NEW s \in Session, NEW p \in Profile, DeleteProfile(s, p)
  PROVE  NoticeInv'
<1>1. \A q \in Request :
        IF request[q] # NULL /\ request[q].by = p
        THEN request'[q] # NULL /\ request'[q].status = "deleted"
        ELSE request'[q] = request[q] /\ reviewNotice'[q] = reviewNotice[q]
  BY DeleteStep DEF Deleted
<1>2. \A u \in Session : /\ call'[u] = call[u] \/ call'[u].pc = "idle"
                         /\ call[u].pc \in {"approve", "reject"} => call[u].id \in Request
  BY DeleteStep DEF Deleted, AccessInv, CallOK
<1>3. NoticeTellsDecision' /\ \A q \in Request : request'[q] = NULL => reviewNotice'[q] = "none"
  BY <1>1 DEF NoticeInv, NoticeTellsDecision, Filed
<1>4. ASSUME NEW u \in Session, call'[u].pc \in {"approve", "reject"}
      PROVE  Reviewable(call[u].id)'
  <2>1. call'[u] = call[u] /\ call[u].id \in Request /\ Reviewable(call[u].id)
    BY <1>2, <1>4 DEF NoticeInv
  <2>. QED  BY <1>1, <2>1 DEF Reviewable
<1>. QED  BY <1>3, <1>4 DEF NoticeInv

LEMMA NoticeStep == AccessInv /\ NoticeInv /\ [Next]_vars => NoticeInv'
<1> SUFFICES ASSUME AccessInv, NoticeInv, [Next]_vars PROVE NoticeInv'
  OBVIOUS
<1>0. UNCHANGED call => BeginPending
  BY DEF BeginPending
<1>1. ASSUME NEW p \in Profile, Insert(p) PROVE NoticeInv'
  <2>1. BeginPending
    BY <1>0, <1>1, InsertStep
  <2>2. \/ UNCHANGED <<request, reviewNotice>>
        \/ \E st \in Inserted, e \in Estate : RequestJoin(p, e, st)
    BY <1>1 DEF Insert, InviteHousehold, InviteStaff, Issue
  <2>. QED  BY <2>1, <2>2, NoticeInsert, NoticeAside
<1>2. ASSUME NEW p \in Profile, NEW s \in Session, Start(s, p) PROVE NoticeInv'
  BY <1>2, NoticeStart
<1>3. ASSUME NEW s \in Session, Run(s) PROVE NoticeInv'
  <2>1. ApproveWrite(s) \/ RejectWrite(s) \/ UNCHANGED <<request, reviewNotice>>
    BY <1>3 DEF Run, WithdrawWrite, UnlinkWrite, AcceptFind, AcceptVouch, AcceptRefuse,
                AcceptJoin, StaffFind, StaffJoin, Rollback, Continue, tables
  <2>. QED  BY <1>3, <2>1, NoticeReview, NoticeSession
<1>4. ASSUME NEW i \in Invite, SaveStaffProfile(i) \/ SavedLapses(i) \/ InviteExpires(i)
      PROVE  NoticeInv'
  BY <1>0, <1>4, NoticeAside DEF SaveStaffProfile, SavedLapses, InviteExpires, UpdateInvite
<1>5. CASE Direct
  BY <1>0, <1>5, EditStep, NoticeAside, NoticeDelete DEF Direct
<1>6. CASE UNCHANGED vars
  BY <1>0, <1>6, NoticeAside DEF vars, tables
<1>. QED  BY <1>1, <1>2, <1>3, <1>4, <1>5, <1>6 DEF Next

\* The last notice about a request is its outcome for any number of reviews of
\* it at once, and there is none of a request nobody reviewed.
THEOREM NoticeTellsDecisionCorrect == Spec => []NoticeTellsDecision
<1>1. Init => NoticeInv
  BY DEF Init, Idle, NoticeInv, NoticeTellsDecision, Filed
<1>2. NoticeInv => NoticeTellsDecision
  BY DEF NoticeInv
<1>. QED  BY <1>1, <1>2, InitAccess, NextAccess, NoticeStep, PTL DEF Spec

-----------------------------------------------------------------------------
(* Revocation.                                                             *)

\* Revoked access comes back only in a step that accepts an invite addressed to
\* the person, or by an admin's hand, or goes with the account, for any number of
\* overlapping calls.
THEOREM RevokedUntilInvitedCorrect == Spec => RevokedUntilInvited
<1> DEFINE Restores(p) ==
             \E s \in Session :
               \/ AcceptJoin(s) /\ call[s].by = p /\ invite[call[s].id].to = p
               \/ \E a \in Profile, row \in EditedTo : EditProfile(s, a, p, row)
               \/ DeleteProfile(s, p)
           Step == \A p \in Profile :
             profile[p].level = "revoked" /\ profile'[p].level # "revoked" => Restores(p)
<1>1. ASSUME AccessInv, [Next]_vars, NEW p \in Profile,
             profile[p].level = "revoked", profile'[p].level # "revoked"
      PROVE  Restores(p)
  <2>1. profile' # profile
    BY <1>1
  <2>2. Direct \/ \E s \in Session : Run(s)
    <3>1. ~\E q \in Profile : Insert(q)
      BY <2>1 DEF Insert, RequestJoin, InviteHousehold, InviteStaff, Issue
    <3>2. ~\E q \in Profile, s \in Session : Start(s, q)
      BY <1>1, <2>1, StartStep DEF tables
    <3>3. ~\E i \in Invite : SaveStaffProfile(i) \/ SavedLapses(i) \/ InviteExpires(i)
      BY <2>1 DEF SaveStaffProfile, SavedLapses, InviteExpires, UpdateInvite
    <3>. QED  BY <1>1, <2>1, <3>1, <3>2, <3>3 DEF Next, vars, tables
  <2>3. CASE Direct
    <3>1. PICK s \in Session, a \in Profile :
            \/ \E m \in Profile, row \in EditedTo : EditProfile(s, a, m, row)
            \/ DeleteProfile(s, a)
      BY <2>3 DEF Direct
    <3>2. ASSUME NEW m \in Profile, NEW row \in EditedTo, EditProfile(s, a, m, row)
          PROVE  m = p
      BY <1>1, <3>2, EditStep
    <3>3. ASSUME DeleteProfile(s, a) PROVE a = p
      BY <1>1, <3>3, DeleteStep DEF Deleted
    <3>. QED  BY <3>1, <3>2, <3>3
  <2>4. CASE \E s \in Session : Run(s)
    <3>1. PICK s \in Session : Run(s)
      BY <2>4
    <3>2. ~ApproveWrite(s) /\ ~RejectWrite(s)
      BY <1>1, ReviewStep
    <3>3. ~UnlinkWrite(s)
      BY <1>1, UnlinkStep
    <3>4. ~StaffJoin(s)
      BY <1>1, StaffStep
    <3>5. AcceptJoin(s)
      BY <2>1, <3>1, <3>2, <3>3, <3>4
         DEF Run, WithdrawWrite, AcceptFind, AcceptVouch, AcceptRefuse, StaffFind, Rollback,
             Continue, tables
    <3>6. invite[call[s].id].to = call[s].by
      BY <1>1, <3>5 DEF AcceptJoin, At, AccessInv, CallOK
    <3>7. call[s].by = p
      BY <1>1, <3>5, JoinStep
    <3>. QED  BY <3>5, <3>6, <3>7
  <2>. QED  BY <2>2, <2>3, <2>4
<1>2. AccessInv /\ [Next]_vars => [Step]_vars
  <2> HIDE DEF Restores
  <2>. QED  BY <1>1
<1>. QED  BY <1>2, InitAccess, NextAccess, PTL DEF Spec, RevokedUntilInvited

-----------------------------------------------------------------------------
(* Households of one layer, when calls do not overlap.                     *)

\* Overlap is excluded as a hypothesis on behaviours, for any number of sessions:
\* some other session may begin a call when one has ended.
OneAtATime ==
  \A s, u \in Session : call[s].pc # "idle" /\ call[u].pc # "idle" => s = u

\* The same for statements that are a transaction of their own.
AllIdle == \A s \in Session : call[s].pc = "idle"

DirectAlone == Direct => AllIdle

\* After a step of session s no other session has a call.
NoOther(s) == \A u \in Session \ {s} : call'[u].pc = "idle"

LEMMA RunAlone ==
  ASSUME AccessInv, OneAtATime, NEW s \in Session, Run(s)
  PROVE  NoOther(s)
<1>1. call \in [Session -> Call]
  BY DEF AccessInv, TypeOK
<1>2. call[s].pc # "idle"
  BY DEF Run, ApproveWrite, RejectWrite, WithdrawWrite, UnlinkWrite, AcceptFind, AcceptVouch,
         AcceptRefuse, AcceptJoin, StaffFind, StaffJoin, Rollback, At
<1>3. \A u \in Session \ {s} : call'[u] = call[u]
  BY <1>1 DEF Run, ApproveWrite, RejectWrite, WithdrawWrite, UnlinkWrite, AcceptFind,
         AcceptVouch, AcceptRefuse, AcceptJoin, StaffFind, StaffJoin, Rollback, Continue, End
<1>. QED  BY <1>2, <1>3 DEF OneAtATime, NoOther

LEMMA StartAlone ==
  ASSUME AccessInv, OneAtATime', NEW s \in Session, NEW p \in Profile, Start(s, p)
  PROVE  NoOther(s)
<1>1. ASSUME NEW pc \in {"approve", "reject", "withdraw", "unlink", "find", "staffFind", "staffJoin"},
             NEW id, Begin(s, pc, p, id)
      PROVE  NoOther(s)
  <2>1. call'[s].pc # "idle"
    BY <1>1 DEF Begin, AccessInv, TypeOK
  <2>. QED  BY <2>1 DEF OneAtATime, NoOther
<1>. QED  BY <1>1 DEF Start, ReviewRead, WithdrawRead, AcceptCaller, StaffCaller, StaffByEmail, UnlinkRead

OneLayer == AccessInv /\ LayerInv /\ NoSecondLayer

LEMMA NoLevelNoLink ==
  ASSUME AccessInv, NEW p \in Profile, p \notin edited, profile[p].level = NULL
  PROVE  link[p] = NULL
<1>1. CASE link[p] # NULL
  <2>1. link[p] \in LinkRow /\ p \notin levelByHand
    BY <1>1 DEF AccessInv, TypeOK
  <2>2. SyncedLevel(link[p]) \in Level \cup {"revoked"}
    BY <2>1 DEF LinkRow, SyncedLevel
  <2>. QED  BY <1>1, <2>1, <2>2, MembershipAssumption DEF AccessInv, LinkDecidesAccess
<1>. QED  BY <1>1

\* Heads of households are profiles, and stay approved while links stay.
LEMMA Primary ==
  ASSUME AccessInv, NEW m \in Profile, link[m] # NULL
  PROVE  link[m].primary \in Profile
BY DEF AccessInv, TypeOK, LinkRow

\* After a write there is no call, so nothing that a call has checked.
LEMMA AfterWrite ==
  ASSUME AccessInv', NEW s \in Session, NoOther(s), call'[s].pc = "idle",
         \A p \in Profile : Linked(p)' /\ link'[p].primary \notin edited' =>
                            profile'[link'[p].primary].approved
  PROVE  LayerInv'
BY DEF NoOther, LayerInv

\* A step of no session changes nothing a call has checked.
LEMMA LayerAside ==
  ASSUME OneLayer, AccessInv', Persist, UNCHANGED <<profile, link, hands, call>>
  PROVE  OneLayer'
<1>1. ASSUME NEW s \in Session, call'[s].pc = "join"
      PROVE  Genuine(invite[call[s].id].by)' 
  <2>1. call[s].pc = "join" /\ call[s].id \in Invite /\ invite[call[s].id] # NULL
    BY <1>1 DEF OneLayer, AccessInv, CallOK
  <2>2. Genuine(invite[call[s].id].by) /\ invite'[call[s].id].by = invite[call[s].id].by
    BY <2>1 DEF OneLayer, LayerInv, Persist
  <2>. QED  BY <2>2 DEF Genuine
<1>2. \A s \in Session : call'[s].pc \in {"find", "vouch", "join"} => Convertible(call[s].by)'
  BY DEF OneLayer, LayerInv, Convertible, Linked
<1>3. \A p \in Profile : Linked(p)' /\ link'[p].primary \notin edited' =>
                         profile'[link'[p].primary].approved
  BY DEF OneLayer, LayerInv, Linked, hands
<1>4. NoSecondLayer'
  BY DEF OneLayer, NoSecondLayer, Linked, hands
<1>. QED  BY <1>1, <1>2, <1>3, <1>4 DEF OneLayer, LayerInv

LEMMA LayerCheck ==
  ASSUME OneLayer, AccessInv', UNCHANGED tables, NEW s \in Session, NoOther(s),
         call'[s].pc \in {"find", "vouch", "join"} => Convertible(call'[s].by),
         call'[s].pc = "join" => Genuine(invite[call'[s].id].by)
  PROVE  OneLayer'
<1>0. UNCHANGED <<profile, invite, link, edited>>
  BY DEF tables, hands
<1>1. \A u \in Session : u = s \/ call'[u].pc = "idle"
  BY DEF NoOther
<1>2. \A u \in Session : call'[u].pc \in {"find", "vouch", "join"} => Convertible(call[u].by)'
  BY <1>0, <1>1 DEF Convertible, Linked
<1>3. \A u \in Session : call'[u].pc = "join" => Genuine(invite[call[u].id].by)'
  BY <1>0, <1>1 DEF Genuine
<1>4. \A p \in Profile : Linked(p)' /\ link'[p].primary \notin edited' =>
                         profile'[link'[p].primary].approved
  BY <1>0 DEF OneLayer, LayerInv, Linked
<1>5. NoSecondLayer'
  BY <1>0 DEF OneLayer, NoSecondLayer, Linked
<1>. QED  BY <1>2, <1>3, <1>4, <1>5 DEF OneLayer, LayerInv

LEMMA LayerJoin ==
  ASSUME OneLayer, NEW s \in Session, NoOther(s), AcceptJoin(s)
  PROVE  OneLayer'
<1>0. AccessInv /\ AccessInv' /\ call'[s].pc = "idle" /\ edited' = edited
  BY JoinStep DEF OneLayer
<1>1. PICK p \in Profile, i \in Invite :
        /\ p = call[s].by /\ i = call[s].id /\ call[s].pc = "join"
        /\ link'[p].primary = invite[i].by
        /\ profile'[p].approved
        /\ \A q \in Profile \ {p} : link'[q] = link[q] /\ profile'[q] = profile[q]
  BY JoinStep DEF OneLayer
<1>2. Convertible(p) /\ Genuine(invite[i].by)
  BY <1>1 DEF OneLayer, LayerInv
<1>3. PICK r \in Profile : r = invite[i].by
  <2>1. invite[i] \in InviteRow
    BY <1>0, <1>1 DEF AccessInv, CallOK, TypeOK
  <2>. QED  BY <2>1 DEF InviteRow
<1>4. profile[r].approved /\ (r \notin edited => link[r] = NULL)
  BY <1>0, <1>2, <1>3, NoLevelNoLink DEF Genuine
<1>5. r \notin edited => r # p /\ link'[r] = NULL /\ profile'[r].approved
  BY <1>1, <1>2, <1>4 DEF Convertible, Linked
<1>6. ASSUME NEW m \in Profile, Linked(m)', link'[m].primary \notin edited
      PROVE  profile'[link'[m].primary].approved
  <2>1. CASE m = p
    BY <1>1, <1>3, <1>5, <1>6, <2>1
  <2>2. CASE m # p
    <3>1. link'[m] = link[m] /\ Linked(m) /\ link[m] # NULL
      BY <1>1, <1>6, <2>2 DEF Linked
    <3>2. link[m].primary \in Profile /\ profile[link[m].primary].approved
      BY <1>0, <1>6, <3>1, Primary DEF OneLayer, LayerInv
    <3>. QED  BY <1>1, <3>1, <3>2
  <2>. QED  BY <2>1, <2>2
<1>7. ASSUME NEW m \in Profile, Linked(m)', link'[m].status = "active",
             link'[m].primary \notin edited \cup {m}
      PROVE  link'[link'[m].primary] = NULL
  <2>1. CASE m = p
    BY <1>1, <1>3, <1>5, <1>7, <2>1
  <2>2. CASE m # p
    <3>1. link'[m] = link[m] /\ Linked(m) /\ link[m] # NULL
      BY <1>1, <1>7, <2>2 DEF Linked
    <3>2. /\ link[m].primary \in Profile
          /\ profile[link[m].primary].approved
          /\ link[link[m].primary] = NULL
      BY <1>0, <1>7, <3>1, Primary DEF OneLayer, LayerInv, NoSecondLayer
    <3>3. link[m].primary # p
      BY <1>2, <3>2 DEF Convertible, Linked
    <3>. QED  BY <1>1, <3>1, <3>2, <3>3
  <2>. QED  BY <2>1, <2>2
<1>8. LayerInv'
  BY <1>0, <1>6, AfterWrite
<1>9. NoSecondLayer'
  BY <1>0, <1>7 DEF NoSecondLayer
<1>. QED  BY <1>0, <1>8, <1>9 DEF OneLayer

\* The other writes of calls form no link and take no approval away.
LEMMA LayerWrite ==
  ASSUME OneLayer, AccessInv', NEW s \in Session, NoOther(s), call'[s].pc = "idle",
         edited' = edited,
         \A p \in Profile :
           /\ profile[p].approved => profile'[p].approved
           /\ \/ link'[p] = link[p]
              \/ /\ Linked(p) /\ link'[p].status = "revoked"
                 /\ link'[p].primary = link[p].primary
  PROVE  OneLayer'
<1>1. ASSUME NEW m \in Profile, Linked(m)', link'[m].primary \notin edited
      PROVE  profile'[link'[m].primary].approved
  <2>1. Linked(m) /\ link[m] # NULL /\ link'[m].primary = link[m].primary
    BY <1>1 DEF Linked
  <2>2. link[m].primary \in Profile /\ profile[link[m].primary].approved
    BY <1>1, <2>1, Primary DEF OneLayer, LayerInv
  <2>. QED  BY <2>1, <2>2
<1>2. ASSUME NEW m \in Profile, Linked(m)', link'[m].status = "active",
             link'[m].primary \notin edited \cup {m}
      PROVE  link'[link'[m].primary] = NULL
  <2>1. link'[m] = link[m] /\ Linked(m) /\ link[m] # NULL
    BY <1>2 DEF Linked
  <2>2. link[m].primary \in Profile /\ link[link[m].primary] = NULL
    BY <1>2, <2>1, Primary DEF OneLayer, NoSecondLayer
  <2>. QED  BY <2>1, <2>2 DEF Linked
<1>3. LayerInv'
  BY <1>1, AfterWrite
<1>4. NoSecondLayer'
  BY <1>2 DEF NoSecondLayer
<1>. QED  BY <1>3, <1>4 DEF OneLayer

\* Edits by hand concern whom the property excepts; deletions take links.
LEMMA LayerEdit ==
  ASSUME OneLayer, AllIdle, NEW s \in Session, NEW a \in Profile, NEW m \in Profile,
         NEW row \in EditedTo, EditProfile(s, a, m, row)
  PROVE  OneLayer'
<1>1. /\ AccessInv' /\ link' = link /\ call' = call /\ edited' = edited \cup {m}
      /\ \A p \in Profile \ {m} : profile'[p] = profile[p]
  BY EditStep DEF OneLayer
<1>2. ASSUME NEW p \in Profile, Linked(p)', link'[p].primary \notin edited'
      PROVE  profile'[link'[p].primary].approved
  <2>1. /\ Linked(p) /\ link[p] # NULL
        /\ link[p].primary \notin edited /\ link[p].primary # m
    BY <1>1, <1>2 DEF Linked
  <2>2. link[p].primary \in Profile /\ profile[link[p].primary].approved
    BY <2>1, Primary DEF OneLayer, LayerInv
  <2>. QED  BY <1>1, <2>1, <2>2
<1>3. LayerInv'
  BY <1>1, <1>2 DEF LayerInv, AllIdle
<1>4. NoSecondLayer'
  BY <1>1 DEF OneLayer, NoSecondLayer, Linked
<1>. QED  BY <1>1, <1>3, <1>4 DEF OneLayer

LEMMA LayerDelete ==
  ASSUME OneLayer, AllIdle, NEW s \in Session, NEW p \in Profile, DeleteProfile(s, p)
  PROVE  OneLayer'
<1>1. /\ AccessInv' /\ link'[p] = NULL /\ edited' = edited
      /\ \A x \in Profile \ {p} :
           /\ profile'[x] = profile[x]
           /\ Linked(x)' => link'[x] = link[x] /\ link[x].primary # p
           /\ link[x] = NULL => link'[x] = NULL
      /\ \A u \in Session : call'[u].pc = "idle"
  BY DeleteStep DEF OneLayer, Deleted, AllIdle, hands
<1>2. ASSUME NEW m \in Profile, Linked(m)'
      PROVE  /\ Linked(m) /\ link'[m] = link[m] /\ link[m] # NULL
             /\ link[m].primary \in Profile \ {p}
  <2>1. m # p
    BY <1>1, <1>2 DEF Linked
  <2>2. link'[m] = link[m] /\ link[m].primary # p
    BY <1>1, <1>2, <2>1
  <2>3. Linked(m) /\ link[m] # NULL
    BY <1>2, <2>2 DEF Linked
  <2>. QED  BY <2>2, <2>3, Primary DEF OneLayer
<1>3. LayerInv'
  <2>1. ASSUME NEW m \in Profile, Linked(m)', link'[m].primary \notin edited'
        PROVE  profile'[link'[m].primary].approved
    BY <1>1, <1>2, <2>1 DEF OneLayer, LayerInv
  <2>. QED  BY <1>1, <2>1 DEF LayerInv
<1>4. NoSecondLayer'
  <2>1. ASSUME NEW m \in Profile, Linked(m)', link'[m].status = "active",
               link'[m].primary \notin edited' \cup {m}
        PROVE  link'[link'[m].primary] = NULL
    BY <1>1, <1>2, <2>1 DEF OneLayer, NoSecondLayer
  <2>. QED  BY <2>1 DEF NoSecondLayer
<1>. QED  BY <1>1, <1>3, <1>4 DEF OneLayer

LEMMA NextLayer ==
  ASSUME OneLayer, OneAtATime, OneAtATime', [DirectAlone]_vars, [Next]_vars
  PROVE  OneLayer'
<1>0. /\ AccessInv /\ AccessInv'
      /\ \A s \in Session : Run(s) => NoOther(s)
      /\ \A s \in Session, p \in Profile : Start(s, p) => NoOther(s)
  BY NextAccess, RunAlone, StartAlone DEF OneLayer
<1>1. ASSUME NEW p \in Profile, Insert(p) PROVE OneLayer'
  BY <1>0, <1>1, InsertStep, LayerAside
<1>2. ASSUME NEW i \in Invite, SaveStaffProfile(i) \/ SavedLapses(i) \/ InviteExpires(i)
      PROVE OneLayer'
  BY <1>0, <1>2, InviteStep, LayerAside
<1>3. ASSUME NEW p \in Profile, NEW s \in Session, Start(s, p) PROVE OneLayer'
  BY <1>0, <1>3, StartStep, LayerCheck
<1>4. ASSUME NEW s \in Session, AcceptFind(s) \/ AcceptVouch(s) \/ StaffFind(s) \/ Rollback(s)
      PROVE OneLayer'
  <2>1. /\ UNCHANGED tables
        /\ call'[s].pc \in {"find", "vouch", "join"} =>
             /\ call[s].pc \in {"find", "vouch"} /\ call'[s].by = call[s].by
             /\ call'[s].pc = "join" => Genuine(invite[call'[s].id].by)
    BY <1>0, <1>4, QuietStep
  <2>2. call[s].pc \in {"find", "vouch"} => Convertible(call[s].by)
    BY DEF OneLayer, LayerInv
  <2>3. call'[s].pc \in {"find", "vouch", "join"} => Convertible(call'[s].by)
    BY <2>1, <2>2
  <2>4. call'[s].pc = "join" => Genuine(invite[call'[s].id].by)
    BY <2>1
  <2>. QED  BY <1>0, <2>1, <2>3, <2>4, <1>4, LayerCheck DEF Run
<1>5. ASSUME NEW s \in Session, ApproveWrite(s) \/ RejectWrite(s) PROVE OneLayer'
  BY <1>0, <1>5, ReviewStep, LayerWrite DEF Run, hands
<1>6. ASSUME NEW s \in Session, WithdrawWrite(s) \/ AcceptRefuse(s) PROVE OneLayer'
  BY <1>0, <1>6, RevokeInviteStep, LayerWrite DEF Run, hands
<1>7. ASSUME NEW s \in Session, UnlinkWrite(s) PROVE OneLayer'
  BY <1>0, <1>7, UnlinkStep, LayerWrite DEF Run
<1>8. ASSUME NEW s \in Session, AcceptJoin(s) PROVE OneLayer'
  BY <1>0, <1>8, LayerJoin DEF Run
<1>9. ASSUME NEW s \in Session, StaffJoin(s) PROVE OneLayer'
  BY <1>0, <1>9, StaffStep, LayerWrite DEF Run, hands
<1>10. CASE UNCHANGED vars
  <2>1. Persist /\ UNCHANGED <<profile, link, hands, call>>
    BY <1>10 DEF vars, tables, Persist, Linked
  <2>. QED  BY <1>0, <2>1, LayerAside
<1>11. CASE Direct /\ vars' # vars
  <2>1. AllIdle
    BY <1>11 DEF DirectAlone
  <2>. QED  BY <1>11, <2>1, LayerEdit, LayerDelete DEF Direct
<1>. QED  BY <1>1, <1>2, <1>3, <1>4, <1>5, <1>6, <1>7, <1>8, <1>9, <1>10, <1>11 DEF Next, Run

\* If calls do not overlap, whoever heads a household has never been a member
\* of one, through any sequence of requests, invitations, acceptances,
\* revocations and deletions of any number of people, unless an admin edited
\* their profile.
THEOREM NoSecondLayerCorrect ==
  Spec /\ []OneAtATime /\ [][DirectAlone]_vars => []NoSecondLayer
<1>1. Init => OneLayer
  <2> SUFFICES ASSUME Init PROVE OneLayer
    OBVIOUS
  <2>1. \A s \in Session : call[s].pc = "idle"
    BY DEF Init, Idle
  <2>. QED  BY <2>1, InitAccess DEF Init, OneLayer, LayerInv, NoSecondLayer, Linked
<1>2. OneLayer /\ OneAtATime /\ OneAtATime' /\ [DirectAlone]_vars /\ [Next]_vars => OneLayer'
  BY NextLayer
<1>3. OneLayer => NoSecondLayer
  BY DEF OneLayer
<1>. QED  BY <1>1, <1>2, <1>3, PTL DEF Spec

-----------------------------------------------------------------------------
(* Decisions, when calls do not overlap.                                   *)

\* Whom requests and invites admit follows from the decisions on them.
RequestsAlike ==
  \A q \in Request : /\ Granted(q)' <=> Granted(q)
                     /\ request[q] # NULL => request'[q].by = request[q].by

InvitesAlike ==
  \A i \in Invite : /\ Took(i)' <=> Took(i)
                    /\ invite[i] # NULL => invite'[i].to = invite[i].to

LEMMA SameRequests ==
  ASSUME RequestsAlike
  PROVE  \A p \in Profile : ByRequest(p)' <=> ByRequest(p)
BY DEF RequestsAlike, ByRequest, Granted

LEMMA SameInvites ==
  ASSUME InvitesAlike
  PROVE  \A p \in Profile : ByInvite(p)' <=> ByInvite(p)
BY DEF InvitesAlike, ByInvite, Took

TakenOK == \A i \in Invite : invite[i] # NULL /\ invite[i].taken => Took(i)

\* A step that admits nobody and decides nothing in anybody's favour.
SameDecisions ==
  /\ \A p \in Profile :
       /\ profile'[p].approved = profile[p].approved
       /\ profile'[p].role # "deleted" => profile[p].role # "deleted"
       /\ ByRequest(p)' <=> ByRequest(p)
       /\ ByInvite(p)' <=> ByInvite(p)
  /\ edited \subseteq edited'

LEMMA DecisionAside ==
  ASSUME DecisionInv, SameDecisions, TakenOK', \A s \in Session : PendingOK(s)'
  PROVE  DecisionInv'
<1>1. AccessMatchesDecisions'
  BY DEF DecisionInv, SameDecisions, AccessMatchesDecisions, Here
<1>. QED  BY <1>1 DEF DecisionInv, TakenOK

\* A step that ends the only call leaves no call.
LEMMA NoCall ==
  ASSUME NEW s \in Session, NoOther(s), call'[s].pc = "idle"
  PROVE  \A u \in Session : PendingOK(u)'
<1>1. PendingOK(s)'
  BY DEF PendingOK
<1>. QED  BY <1>1 DEF NoOther, PendingOK

LEMMA DecisionInsert ==
  ASSUME AccessInv, DecisionInv, NEW p \in Profile, Insert(p)
  PROVE  DecisionInv'
<1>0. /\ TypeOK /\ AccessInv' /\ Persist /\ UNCHANGED <<profile, link, edited, call>>
      /\ TakenOK /\ \A s \in Session : PendingOK(s) /\ CallOK(s)
  BY InsertStep DEF AccessInv, DecisionInv, TakenOK, hands
<1>1. ASSUME NEW e \in Estate, NEW st, RequestJoin(p, e, st) PROVE DecisionInv'
  <2> DEFINE row == [by |-> p, estate |-> e, status |-> st, reviewer |-> NULL]
  <2>1. PICK q \in Request :
          request[q] = NULL /\ request' = [request EXCEPT ![q] = row] /\ invite' = invite
    BY <1>1 DEF RequestJoin
  <2>2. row.reviewer = NULL
    OBVIOUS
  <2> HIDE DEF row
  <2>3. request'[q] = row /\ \A x \in Request \ {q} : request'[x] = request[x]
    BY <1>0, <2>1 DEF TypeOK
  <2>4. RequestsAlike
    BY <2>1, <2>2, <2>3 DEF RequestsAlike, Granted
  <2>5. \A x \in Profile : ByRequest(x)' <=> ByRequest(x)
    BY <2>4, SameRequests
  <2>6. SameDecisions /\ TakenOK'
    BY <1>0, <2>1, <2>5 DEF SameDecisions, ByInvite, Took, TakenOK
  <2>7. ASSUME NEW s \in Session PROVE PendingOK(s)'
    BY <1>0, <2>1, <2>3 DEF PendingOK, CallOK, Pending, Open, IsAdmin
  <2>. QED  BY <2>6, <2>7, DecisionAside
<1>2. ASSUME NEW m \in Profile, NEW g, NEW st, Issue(p, m, g, st) PROVE DecisionInv'
  <2> DEFINE row == [by |-> p, to |-> m, estate |-> profile[p].estate, grants |-> g,
                     status |-> st, taken |-> FALSE, late |-> FALSE, saved |-> FALSE]
  <2>1. PICK i \in Invite :
          invite[i] = NULL /\ invite' = [invite EXCEPT ![i] = row] /\ request' = request
    BY <1>2 DEF Issue
  <2>2. ~row.taken
    OBVIOUS
  <2> HIDE DEF row
  <2>3. invite'[i] = row /\ \A x \in Invite \ {i} : invite'[x] = invite[x]
    BY <1>0, <2>1 DEF TypeOK
  <2>4. /\ TakenOK'
        /\ InvitesAlike
    BY <1>0, <2>1, <2>2, <2>3 DEF InvitesAlike, Took, TakenOK
  <2>5. \A x \in Profile : ByInvite(x)' <=> ByInvite(x)
    BY <2>4, SameInvites
  <2>6. SameDecisions
    BY <1>0, <2>1, <2>5 DEF SameDecisions, ByRequest, Granted
  <2>7. ASSUME NEW s \in Session PROVE PendingOK(s)'
    BY <1>0, <2>1, <2>3 DEF PendingOK, CallOK, Pending, Open, IsAdmin
  <2>. QED  BY <2>4, <2>6, <2>7, DecisionAside
<1>. QED  BY <1>1, <1>2 DEF Insert, InviteHousehold, InviteStaff

LEMMA DecisionStamp ==
  ASSUME AccessInv, DecisionInv, NEW i \in Invite,
         SaveStaffProfile(i) \/ SavedLapses(i) \/ InviteExpires(i)
  PROVE  DecisionInv'
<1>0. TypeOK /\ TakenOK /\ \A s \in Session : PendingOK(s) /\ CallOK(s)
  BY DEF AccessInv, DecisionInv, TakenOK
<1>1. invite[i] \in InviteRow /\ Open(i)
  BY <1>0 DEF SaveStaffProfile, SavedLapses, InviteExpires, Open, TypeOK
<1>2. PICK row : /\ UpdateInvite(i, row)
                 /\ row \in InviteRow /\ row.to = invite[i].to /\ row.status = invite[i].status
                 /\ row.taken = invite[i].taken
  <2>1. ASSUME NEW r \in InviteRow,
               NEW x \in {[r EXCEPT !.saved = TRUE], [r EXCEPT !.saved = FALSE],
                         [r EXCEPT !.late = TRUE]}
        PROVE  x \in InviteRow /\ x.to = r.to /\ x.status = r.status /\ x.taken = r.taken
    BY <2>1 DEF InviteRow
  <2>. QED  BY <1>1, <2>1 DEF SaveStaffProfile, SavedLapses, InviteExpires
<1>3. /\ invite'[i] = row /\ row # NULL /\ \A x \in Invite \ {i} : invite'[x] = invite[x]
      /\ UNCHANGED <<profile, request, edited, call>>
  BY <1>0, <1>2, MembershipAssumption DEF UpdateInvite, TypeOK, hands
<1>4. SameDecisions /\ TakenOK'
  <2>1. /\ TakenOK'
        /\ InvitesAlike
    BY <1>0, <1>1, <1>2, <1>3 DEF InvitesAlike, Took, TakenOK, Open
  <2>2. \A x \in Profile : ByInvite(x)' <=> ByInvite(x)
    BY <2>1, SameInvites
  <2>. QED  BY <1>3, <2>1, <2>2 DEF SameDecisions, ByRequest, Granted
<1>5. ASSUME NEW x \in Invite, Open(x) PROVE Open(x)' /\ invite'[x].to = invite[x].to
  BY <1>1, <1>2, <1>3, <1>5 DEF Open
<1>6. ASSUME NEW s \in Session PROVE PendingOK(s)'
  BY <1>0, <1>3, <1>5 DEF PendingOK, CallOK, Pending, IsAdmin
<1>. QED  BY <1>4, <1>6, DecisionAside

\* A step that leaves the rows alone: the session finds out something.
LEMMA DecisionCheck ==
  ASSUME DecisionInv, UNCHANGED tables, NEW s \in Session, NoOther(s), PendingOK(s)'
  PROVE  DecisionInv'
<1>1. SameDecisions /\ TakenOK'
  BY DEF DecisionInv, SameDecisions, TakenOK, ByRequest, ByInvite, Granted, Took, tables, hands
<1>2. \A u \in Session : PendingOK(u)'
  BY DEF NoOther, PendingOK
<1>. QED  BY <1>1, <1>2, DecisionAside

LEMMA DecisionStart ==
  ASSUME AccessInv, DecisionInv, NEW p \in Profile, NEW s \in Session, NoOther(s), Start(s, p)
  PROVE  DecisionInv'
<1>0. TypeOK
  BY DEF AccessInv
<1>1. ASSUME NEW pc \in {"approve", "reject", "withdraw", "unlink", "find", "staffFind", "staffJoin"},
             NEW id \in Request \cup Invite \cup Profile, Begin(s, pc, p, id),
             pc \in {"approve", "reject"} => Pending(id) /\ IsAdmin(p),
             pc \in {"withdraw", "staffJoin"} => Open(id),
             pc = "staffJoin" => invite[id].to = p
      PROVE  DecisionInv'
  <2>1. /\ call'[s].pc = pc /\ call'[s].by = p /\ call'[s].id = id
        /\ UNCHANGED tables
    BY <1>0, <1>1, BeginCall
  <2>2. PendingOK(s)'
    BY <1>1, <2>1 DEF PendingOK, Pending, Open, IsAdmin, tables
  <2>. QED  BY <2>1, <2>2, DecisionCheck
<1>2. ASSUME NEW q \in Request, NEW v \in {"approve", "reject"}, ReviewRead(s, p, q, v)
      PROVE  DecisionInv'
  BY <1>1, <1>2 DEF ReviewRead, AdminOf
<1>3. ASSUME NEW i \in Invite, WithdrawRead(s, p, i) PROVE DecisionInv'
  BY <1>1, <1>3 DEF WithdrawRead
<1>4. ASSUME NEW i \in Invite, AcceptCaller(s, p, i) \/ StaffCaller(s, p, i) PROVE DecisionInv'
  BY <1>1, <1>4 DEF AcceptCaller, StaffCaller
<1>5. ASSUME NEW i \in Invite, StaffByEmail(s, p, i) PROVE DecisionInv'
  BY <1>1, <1>5 DEF StaffByEmail, Acceptable
<1>6. ASSUME NEW m \in Profile, UnlinkRead(s, p, m) PROVE DecisionInv'
  BY <1>1, <1>6 DEF UnlinkRead
<1>. QED  BY <1>2, <1>3, <1>4, <1>5, <1>6 DEF Start

LEMMA DecisionQuiet ==
  ASSUME AccessInv, DecisionInv, NEW s \in Session, NoOther(s),
         AcceptFind(s) \/ AcceptVouch(s) \/ StaffFind(s) \/ Rollback(s)
  PROVE  DecisionInv'
<1>0. TypeOK /\ PendingOK(s) /\ UNCHANGED tables
  BY QuietStep DEF AccessInv, DecisionInv
<1>1. ASSUME NEW pc \in {"vouch", "join", "refuse", "staffJoin"}, Continue(s, pc),
             Open(call[s].id), pc = "staffJoin" => invite[call[s].id].to = call[s].by
      PROVE  DecisionInv'
  <2>1. call'[s].pc = pc /\ call'[s].by = call[s].by /\ call'[s].id = call[s].id
    BY <1>0, <1>1, ContinueCall
  <2>2. PendingOK(s)'
    BY <1>0, <1>1, <2>1 DEF PendingOK, Open, tables
  <2>. QED  BY <1>0, <2>2, DecisionCheck
<1>2. CASE AcceptFind(s)
  BY <1>1, <1>2 DEF AcceptFind, Acceptable
<1>3. CASE AcceptVouch(s)
  <2>1. Open(call[s].id)
    BY <1>0, <1>3 DEF AcceptVouch, At, PendingOK
  <2>. QED  BY <1>1, <1>3, <2>1 DEF AcceptVouch
<1>4. CASE StaffFind(s)
  BY <1>1, <1>4 DEF StaffFind, Acceptable
<1>5. CASE Rollback(s)
  <2>1. call'[s].pc = "idle"
    BY <1>0, <1>5, EndCall DEF Rollback
  <2>. QED  BY <1>0, <2>1, NoCall, DecisionCheck
<1>. QED  BY <1>2, <1>3, <1>4, <1>5

LEMMA DecisionReview ==
  ASSUME AccessInv, DecisionInv, NEW s \in Session, NoOther(s),
         ApproveWrite(s) \/ RejectWrite(s)
  PROVE  DecisionInv'
<1>1. PICK q \in Request, a \in Profile :
        /\ q = call[s].id /\ a = call[s].by /\ request[q] # NULL /\ request[q].status = "pending"
        /\ call[s].pc = "approve" => IsAdmin(a)
  BY DEF ApproveWrite, RejectWrite, At, AccessInv, CallOK, DecisionInv, PendingOK, Pending
<1>2. request[q] \in RequestRow /\ TypeOK /\ a # NULL
  BY <1>1, MembershipAssumption DEF AccessInv, TypeOK
<1>3. PICK st : /\ request' = [request EXCEPT ![q] = [request[q] EXCEPT !.status = st, !.reviewer = a]]
                /\ \/ st = "approved" /\ ApproveWrite(s)
                   \/ st = "rejected" /\ RejectWrite(s)
  BY <1>1 DEF ApproveWrite, RejectWrite, Review
<1>4. PICK row : row = [request[q] EXCEPT !.status = st, !.reviewer = a]
  OBVIOUS
<1>5. row.status = st /\ row.reviewer = a /\ row.by = request[q].by /\ row \in RequestRow
  <2>1. ASSUME NEW r \in RequestRow, NEW x, x = [r EXCEPT !.status = st, !.reviewer = a]
        PROVE  x.status = st /\ x.reviewer = a /\ x.by = r.by /\ x \in RequestRow
    BY <1>3, <2>1 DEF RequestRow
  <2>. QED  BY <1>2, <1>4, <2>1
<1>6. /\ request'[q] = row /\ row # NULL
      /\ \A x \in Request \ {q} : request'[x] = request[x]
  BY <1>2, <1>3, <1>4, <1>5, MembershipAssumption DEF TypeOK
<1>7. /\ \A p \in Profile : ByInvite(p)' <=> ByInvite(p)
      /\ TakenOK' /\ edited' = edited
  BY ReviewStep DEF ByInvite, Took, TakenOK, DecisionInv, hands
<1>8. \A u \in Session : PendingOK(u)'
  BY ReviewStep, NoCall
<1>9. CASE RejectWrite(s)
  <2>1. st = "rejected" /\ profile' = profile
    BY <1>3, <1>9 DEF ApproveWrite, RejectWrite, At
  <2>2. RequestsAlike
    BY <1>1, <1>5, <1>6, <2>1 DEF RequestsAlike, Granted
  <2>3. \A x \in Profile : ByRequest(x)' <=> ByRequest(x)
    BY <2>2, SameRequests
  <2>4. SameDecisions
    BY <1>7, <2>1, <2>3 DEF SameDecisions
  <2>. QED  BY <1>7, <1>8, <2>4, DecisionAside
<1>10. CASE ApproveWrite(s)
  <2>1. PICK p \in Profile, e \in Estate : p = request[q].by /\ e = request[q].estate
    BY <1>2 DEF RequestRow
  <2>2. st = "approved" /\ IsAdmin(a)
    BY <1>1, <1>3, <1>10 DEF ApproveWrite, RejectWrite, At
  <2>3. PICK r : r = [profile[p] EXCEPT !.estate = e, !.approved = TRUE]
    OBVIOUS
  <2>4. r.approved
    <3>1. ASSUME NEW y \in ProfileRow, NEW x, x = [y EXCEPT !.estate = e, !.approved = TRUE]
          PROVE  x.approved
      BY <3>1 DEF ProfileRow
    <3>. QED  BY <1>2, <2>3, <3>1 DEF TypeOK
  <2>5. profile' = [profile EXCEPT ![p] = r]
    BY <1>1, <1>2, <1>10, <2>1, <2>2, <2>3 DEF ApproveWrite, TypeOK
  <2>6. profile'[p].approved /\ \A x \in Profile \ {p} : profile'[x] = profile[x]
    BY <1>2, <2>4, <2>5 DEF TypeOK
  <2>7. ByRequest(p)'
    BY <1>2, <1>5, <1>6, <2>1, <2>2 DEF ByRequest, Granted
  <2>8. \A x \in Profile \ {p} : ByRequest(x)' <=> ByRequest(x)
    BY <1>1, <1>5, <1>6, <2>1 DEF ByRequest, Granted
  <2>9. AccessMatchesDecisions'
    BY <1>7, <2>6, <2>7, <2>8 DEF DecisionInv, AccessMatchesDecisions, Here
  <2>. QED  BY <1>7, <1>8, <2>9 DEF DecisionInv, TakenOK
<1>. QED  BY <1>9, <1>10

LEMMA DecisionRevoke ==
  ASSUME AccessInv, DecisionInv, NEW s \in Session, NoOther(s),
         WithdrawWrite(s) \/ AcceptRefuse(s)
  PROVE  DecisionInv'
<1>1. PICK i \in Invite :
        i = call[s].id /\ invite[i] # NULL /\ invite[i].status = "pending"
  BY DEF WithdrawWrite, AcceptRefuse, At, AccessInv, CallOK, DecisionInv, PendingOK, Open
<1>2. invite[i] \in InviteRow /\ TypeOK /\ TakenOK /\ ~invite[i].taken
  BY <1>1 DEF AccessInv, TypeOK, DecisionInv, TakenOK, Took
<1>3. PICK row : row = [invite[i] EXCEPT !.status = "revoked"]
  OBVIOUS
<1>4. row.status = "revoked" /\ row.to = invite[i].to /\ row.taken = invite[i].taken
  <2>1. ASSUME NEW r \in InviteRow, NEW x, x = [r EXCEPT !.status = "revoked"]
        PROVE  x.status = "revoked" /\ x.to = r.to /\ x.taken = r.taken
    BY <2>1 DEF InviteRow
  <2>. QED  BY <1>2, <1>3, <2>1
<1>5. invite' = [invite EXCEPT ![i] = row] /\ UNCHANGED <<profile, request, edited>>
  BY <1>1, <1>3 DEF WithdrawWrite, AcceptRefuse, hands
<1>6. invite'[i] = row /\ \A x \in Invite \ {i} : invite'[x] = invite[x]
  BY <1>2, <1>5 DEF TypeOK
<1>7. /\ TakenOK'
      /\ InvitesAlike
  BY <1>1, <1>2, <1>4, <1>6 DEF InvitesAlike, Took, TakenOK
<1>8. \A x \in Profile : ByInvite(x)' <=> ByInvite(x)
  BY <1>7, SameInvites
<1>9. SameDecisions
  BY <1>5, <1>8 DEF SameDecisions, ByRequest, Granted
<1>. QED  BY <1>7, <1>9, RevokeInviteStep, NoCall, DecisionAside

LEMMA DecisionUnlink ==
  ASSUME AccessInv, DecisionInv, NEW s \in Session, NoOther(s), UnlinkWrite(s)
  PROVE  DecisionInv'
<1>1. SameDecisions /\ TakenOK'
  BY UnlinkStep
     DEF SameDecisions, ByRequest, ByInvite, Granted, Took, TakenOK, DecisionInv, UnlinkWrite
<1>. QED  BY <1>1, UnlinkStep, NoCall, DecisionAside

\* Accepting an invite admits the person it was addressed to.
LEMMA DecisionJoin ==
  ASSUME AccessInv, DecisionInv, NEW s \in Session, NoOther(s),
         AcceptJoin(s) \/ StaffJoin(s)
  PROVE  DecisionInv'
<1>1. PICK p \in Profile, i \in Invite :
        /\ p = call[s].by /\ i = call[s].id
        /\ invite[i] # NULL /\ invite[i].status = "pending" /\ invite[i].to = p
  BY DEF AcceptJoin, StaffJoin, At, AccessInv, CallOK, DecisionInv, PendingOK, Open
<1>2. invite[i] \in InviteRow /\ TypeOK /\ profile[p] \in ProfileRow
  BY <1>1 DEF AccessInv, TypeOK
<1>3. PICK row : row = [invite[i] EXCEPT !.status = "accepted", !.taken = TRUE]
  OBVIOUS
<1>4. row.status = "accepted" /\ row.taken /\ row.to = p /\ row # NULL
  <2>1. ASSUME NEW r \in InviteRow, NEW x, x = [r EXCEPT !.status = "accepted", !.taken = TRUE]
        PROVE  x.status = "accepted" /\ x.taken /\ x.to = r.to /\ x \in InviteRow
    BY <2>1 DEF InviteRow
  <2>. QED  BY <1>1, <1>2, <1>3, <2>1, MembershipAssumption
<1>5. invite' = [invite EXCEPT ![i] = row] /\ request' = request /\ edited' = edited
  BY <1>1, <1>3 DEF AcceptJoin, StaffJoin, hands
<1>6. invite'[i] = row /\ \A x \in Invite \ {i} : invite'[x] = invite[x]
  BY <1>2, <1>5 DEF TypeOK
<1>7. profile'[p].approved /\ \A x \in Profile \ {p} : profile'[x] = profile[x]
  <2>1. CASE AcceptJoin(s)
    BY <1>1, <2>1, JoinStep
  <2>2. CASE StaffJoin(s)
    <3>1. PICK g, e : g = invite[i].grants /\ e = invite[i].estate
      OBVIOUS
    <3>2. PICK r : r = [profile[p] EXCEPT !.role = g, !.estate = e, !.approved = TRUE]
      OBVIOUS
    <3>3. profile' = [profile EXCEPT ![p] = r]
      BY <1>1, <2>2, <3>1, <3>2 DEF StaffJoin
    <3>4. r.approved
      <4>1. ASSUME NEW y \in ProfileRow, NEW x,
                   x = [y EXCEPT !.role = g, !.estate = e, !.approved = TRUE]
            PROVE  x.approved
        BY <4>1 DEF ProfileRow
      <4>. QED  BY <1>2, <3>2, <4>1
    <3>. QED  BY <1>2, <3>3, <3>4 DEF TypeOK
  <2>. QED  BY <2>1, <2>2
<1>8. ByInvite(p)'
  BY <1>4, <1>6 DEF ByInvite, Took
<1>9. \A x \in Profile \ {p} : ByInvite(x)' <=> ByInvite(x)
  BY <1>1, <1>4, <1>6 DEF ByInvite, Took
<1>10. \A x \in Profile : ByRequest(x)' <=> ByRequest(x)
  BY <1>5 DEF ByRequest, Granted
<1>11. AccessMatchesDecisions'
  BY <1>5, <1>7, <1>8, <1>9, <1>10 DEF DecisionInv, AccessMatchesDecisions, Here
<1>12. TakenOK'
  BY <1>1, <1>4, <1>6 DEF DecisionInv, TakenOK, Took
<1>. QED  BY <1>11, <1>12, JoinStep, StaffStep, NoCall DEF DecisionInv, TakenOK

\* Who is edited is excepted from now on; the decisions about the others stand
\* when an account goes.
LEMMA DecisionEdit ==
  ASSUME AccessInv, DecisionInv, AllIdle, NEW s \in Session, NEW a \in Profile,
         NEW m \in Profile, NEW row \in EditedTo, EditProfile(s, a, m, row)
  PROVE  DecisionInv'
<1>1. /\ UNCHANGED <<request, invite, call>> /\ edited' = edited \cup {m}
      /\ \A p \in Profile \ {m} : profile'[p] = profile[p]
  BY EditStep
<1>2. AccessMatchesDecisions'
  BY <1>1 DEF DecisionInv, AccessMatchesDecisions, ByRequest, ByInvite, Granted, Took, Here
<1>3. TakenOK' /\ \A u \in Session : PendingOK(u)'
  BY <1>1 DEF DecisionInv, AllIdle, PendingOK, TakenOK, Took
<1>. QED  BY <1>2, <1>3 DEF DecisionInv, TakenOK

LEMMA DecisionDelete ==
  ASSUME AccessInv, DecisionInv, AllIdle, NEW s \in Session, NEW p \in Profile,
         DeleteProfile(s, p)
  PROVE  DecisionInv'
<1>1. /\ Deleted(p) /\ edited' = edited
      /\ \A x \in Profile \ {p} : profile'[x] = profile[x]
  BY DeleteStep DEF Deleted, hands
<1>2. ASSUME NEW x \in Profile \ {p} PROVE ByRequest(x)' <=> ByRequest(x)
  <2>1. \A q \in Request : Granted(q)' /\ request'[q].by = x <=> Granted(q) /\ request[q].by = x
    BY <1>1 DEF Deleted, Granted
  <2>. QED  BY <2>1 DEF ByRequest
<1>3. InvitesAlike
  BY <1>1 DEF Deleted, DecisionInv, InvitesAlike, Took
<1>4. \A x \in Profile : ByInvite(x)' <=> ByInvite(x)
  BY <1>3, SameInvites
<1>5. TakenOK'
  BY <1>1 DEF Deleted, DecisionInv, TakenOK, Took
<1>6. AccessMatchesDecisions'
  BY <1>1, <1>2, <1>4 DEF DecisionInv, AccessMatchesDecisions, Deleted, Here
<1>7. \A u \in Session : PendingOK(u)'
  BY <1>1 DEF Deleted, AllIdle, PendingOK
<1>. QED  BY <1>5, <1>6, <1>7 DEF DecisionInv, TakenOK

LEMMA NextDecision ==
  ASSUME AccessInv, DecisionInv, OneAtATime, OneAtATime', [DirectAlone]_vars, [Next]_vars
  PROVE  DecisionInv'
<1>1. CASE UNCHANGED vars
  <2>1. SameDecisions /\ TakenOK'
    BY <1>1 DEF DecisionInv, SameDecisions, TakenOK, ByRequest, ByInvite, Granted, Took, vars,
                tables, hands
  <2>2. \A s \in Session : PendingOK(s)'
    BY <1>1 DEF DecisionInv, PendingOK, Pending, Open, IsAdmin, vars, tables
  <2>. QED  BY <2>1, <2>2, DecisionAside
<1>2. CASE Next
  <2>1. ASSUME NEW s \in Session, Run(s) PROVE DecisionInv'
    BY <2>1, RunAlone, DecisionQuiet, DecisionReview, DecisionRevoke, DecisionUnlink,
       DecisionJoin DEF Run
  <2>2. ASSUME NEW s \in Session, NEW p \in Profile, Start(s, p) PROVE DecisionInv'
    BY <2>2, StartAlone, DecisionStart
  <2>3. ASSUME Direct, vars' # vars PROVE DecisionInv'
    <3>1. AllIdle
      BY <2>3 DEF DirectAlone
    <3>. QED  BY <2>3, <3>1, DecisionEdit, DecisionDelete DEF Direct
  <2>. QED  BY <1>1, <1>2, <2>1, <2>2, <2>3, DecisionInsert, DecisionStamp DEF Next
<1>. QED  BY <1>1, <1>2

\* If calls do not overlap, a person is admitted exactly if a request that was
\* reviewed and approved, or an invite that was taken, says so, or they founded
\* the estate, whatever rows clients insert; the exception is whom an admin
\* edited.
THEOREM AccessMatchesDecisionsCorrect ==
  Spec /\ []OneAtATime /\ [][DirectAlone]_vars => []AccessMatchesDecisions
<1>1. Init => DecisionInv
  <2> SUFFICES ASSUME Init PROVE DecisionInv
    OBVIOUS
  <2>1. \A s \in Session : PendingOK(s)
    BY DEF Init, Idle, PendingOK
  <2>2. AccessMatchesDecisions
    BY DEF Init, AccessMatchesDecisions, ByRequest, ByInvite, Granted, Took
  <2>3. \A i \in Invite : invite[i] = NULL
    BY DEF Init
  <2>. QED  BY <2>1, <2>2, <2>3 DEF DecisionInv
<1>2. AccessInv /\ DecisionInv /\ OneAtATime /\ OneAtATime' /\ [DirectAlone]_vars /\ [Next]_vars
        => DecisionInv'
  BY NextDecision
<1>3. DecisionInv => AccessMatchesDecisions
  BY DEF DecisionInv
<1>. QED  BY <1>1, <1>2, <1>3, InitAccess, NextAccess, PTL DEF Spec
=============================================================================
