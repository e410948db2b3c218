CONSTANTS
  Thread = {th1, th2}
  Key = {k1, k2}
  Legacy = Legacy
  SecretSet = TRUE
  TTL = 2
  Patience = 1
  Horizon = 6
SPECIFICATION Spec
SYMMETRY Symmetry
PROPERTIES AcceptsOnlyRecent RefusesOnlyNew OutageHurtsOnlyOld
