SPECIFICATION Spec
CONSTANTS
  t1 = t1
  t2 = t2
  i1 = i1
  i2 = i2
  Threads = {t1, t2}
  Instances = {i1}
  Named = {i1}
  PoolSize = 5
  MaxCalls = 2
  MaxFaults = 2
  None = None
INVARIANTS
  AllDeregisteredStayGone
CHECK_DEADLOCK FALSE
