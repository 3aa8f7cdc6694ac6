SPECIFICATION FairSpec
CONSTANTS
  Instances = {i1}
  Addrs = {x}
  Readers = {r1}
  MaxFailed = 2
  MaxChecks = 3
  MaxChanges = 2
  Nil = Nil
INVARIANTS
  TypeOK
  OpenIffInMap
  HealthyIffFewFailures
PROPERTIES
  StoppedChecksExit
  OrphanChecksExit
CHECK_DEADLOCK FALSE
