CONSTANTS
  Session = {s1, s2}
  Reporter = {r1}
  Admin = {a1}
  Issue = {i1}
  MaxChanges = 3
  MaxComments = 2
  NULL = NULL
SPECIFICATION Spec
SYMMETRY Symmetry
INVARIANTS ActivityChains ToldOfEveryChange
PROPERTIES CommentsWhileResolved
CHECK_DEADLOCK FALSE  \* ids are used once: when all are used up and deleted, nothing is left to do
