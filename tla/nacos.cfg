SPECIFICATION FairSpec
CONSTANTS
  t1 = t1
  t2 = t2
  i1 = i1
  i2 = i2
  Threads = {t1, t2}
  Instances = {i1, i2}
  Named = {i1}
  PoolSize = 8
  MaxCalls = 2
  MaxFaults = 1
  None = None
INVARIANTS
  TypeOK
  ClientsComeBack
  DeregisteredStaysGone
PROPERTIES
  CallsReturn
  DeregisterWorks
CHECK_DEADLOCK FALSE
