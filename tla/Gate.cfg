CONSTANTS
  Officer = {o1, o2}
  Worker = {w1}
  Pass = {p1}
  Visit = {v1}
  Card = {c1}
  Cadences = {weekly, monthly}
  HandDates = {"absent"}
  MaxCheckIns = 1
  NULL = NULL
SPECIFICATION FairSpec
INVARIANTS PassAdmitsOnce DateIsCurrent
PROPERTIES PassesEndOnce RevokedUntilResident NothingStaysStale
