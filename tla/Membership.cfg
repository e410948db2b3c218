CONSTANTS
  Session = {s1, s2}
  Profile = {a, r1, r2}
  Estate = {e}
  a = a
  Founder <- Founded
  Request = {q1}
  Invite = {i1, i2}
  Levels = {"full"}
  Roles = {}
  Inserted = {"pending", "approved"}
  EditedTo <- Reinstated
  NULL = NULL
SPECIFICATION Spec
SYMMETRY Symmetry
INVARIANTS LinkDecidesAccess NoticeTellsDecision
PROPERTY RevokedUntilInvited
CHECK_DEADLOCK FALSE
