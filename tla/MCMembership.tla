---------------------------- MODULE MCMembership ----------------------------
(***************************************************************************)
(* One founder; everybody else has just signed up, so they are symmetric.  *)
(***************************************************************************)
EXTENDS Membership, TLC

CONSTANTS a

Founded == [e \in Estate |-> a]

\* Admins make residents of full standing: of members, staff and themselves.
Reinstated == {[role |-> "resident", approved |-> TRUE, estate |-> e, level |-> NULL] : e \in Estate}

Symmetry == Permutations(Session) \cup Permutations(Request) \cup Permutations(Invite)
            \cup Permutations(Profile \ {a})
=============================================================================
