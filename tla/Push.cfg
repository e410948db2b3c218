CONSTANTS
  Session = {s1, s2}
  Worker = {w1}
  Profile = {p1, p2}
  Token = {t1, t2}
  Event = {e1}
  ChunkSize = 1
  NULL = NULL
SPECIFICATION Spec
SYMMETRY Symmetry
INVARIANTS PushedOnce EveryDeviceTried
PROPERTIES PrunesOnlyDead RegisteredIsMine
