CONSTANTS
  Session = {s1, s2}
  Profile = {r1}
  Due = {d1, d2}
  Transfer = {t1}
  r1 = r1
  r2 = r2
  d1 = d1
  d2 = d2
  Household <- SharedHousehold
  Owner <- SharedOwner
  DueAmount <- SharedAmount
  DueTotal <- SharedTotal
  TopupAmount <- Topups
  MaxInteger = 4
  MaxPosts = 1
  ReopenDues = TRUE
  NULL = NULL
SPECIFICATION FairSpec
PROPERTY EveryCallReturns
