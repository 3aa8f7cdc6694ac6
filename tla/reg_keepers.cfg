SPECIFICATION FairSpec
CONSTANTS
  i1 = i1
  i2 = i2
  c1 = c1
  Instances = {i1, i2}
  Callers = {c1}
  Owned <- MCOwned
  MaxFaults <- MCFaults
  MaxLeases = 10
INVARIANTS
  TypeOK
  LeaseServesKey
PROPERTIES
  ComesBack
CHECK_DEADLOCK FALSE
