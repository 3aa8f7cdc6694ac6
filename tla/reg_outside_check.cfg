SPECIFICATION Spec
CONSTANTS
  i1 = i1
  i2 = i2
  c1 = c1
  Instances = {i1}
  Callers = {c1}
  Owned <- OneInstance
  MaxFaults <- TwoFaults
  MaxLeases = 4
INVARIANTS
  FieldsAlwaysFollow
CHECK_DEADLOCK FALSE
