CONSTANTS
  Session = {s1, s2}
  Listing = {g, v}
  Order = {o1, o2, o3}
  Transfer = {t1}
  g = g
  Good <- Goods
  SellerChoices = {"active", "removed"}
  SuspendFrom = {"active", "sold"}
  NULL = NULL
SPECIFICATION Spec
SYMMETRY Symmetry
INVARIANT GoodMatchesOrders
PROPERTIES PaidIsNotCancelled SuspendedIsFrozen
CHECK_DEADLOCK FALSE
