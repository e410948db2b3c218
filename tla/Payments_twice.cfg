CONSTANTS
  Session = {s1, s2}
  Profile = {r1, r2}
  Due = {d1, d2}
  Transfer = {t1, t2}
  r1 = r1
  r2 = r2
  d1 = d1
  d2 = d2
  Household <- GuestHousehold
  Owner <- GuestOwner
  DueAmount <- GuestAmount
  DueTotal <- GuestTotal
  TopupAmount <- Topups
  MaxInteger = 4
  MaxPosts = 1
  ReopenDues = FALSE
  NULL = NULL
SPECIFICATION FairSpec
INVARIANT ChargedOnce
