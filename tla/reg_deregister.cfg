SPECIFICATION Spec
CONSTANTS
  i1 = i1
  i2 = i2
  c1 = c1
  Instances = {i1, i2}
  Callers = {}
  Owned <- SharedLease
  MaxFaults <- OneFault
  MaxLeases = 3
INVARIANTS
  RegistryMatches
CHECK_DEADLOCK FALSE
