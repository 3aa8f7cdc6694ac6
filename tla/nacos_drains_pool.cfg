SPECIFICATION FairSpec
CONSTANTS
  t1 = t1
  t2 = t2
  i1 = i1
  i2 = i2
  Threads = {t1}
  Instances = {i1}
  Named = {i1}
  PoolSize = 5
  MaxCalls = 1
  MaxFaults = 3
  None = None
PROPERTIES
  CallsReturn
CHECK_DEADLOCK FALSE
