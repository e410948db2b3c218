CONSTANTS
  Session = {s1}
  Profile = {a, r1, r2}
  Estate = {e}
  a = a
  Founder <- Founded
  Request = {q1}
  Invite = {i1, i2}
  Levels = {"full"}
  Roles = {"security", "admin"}
  Inserted = {"pending", "approved"}
  EditedTo <- Reinstated
  NULL = NULL
SPECIFICATION Spec
SYMMETRY Symmetry
INVARIANTS AccessMatchesDecisions NoSecondLayer
CHECK_DEADLOCK FALSE
