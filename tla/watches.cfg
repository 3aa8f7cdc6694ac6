SPECIFICATION FairSpec
CONSTANTS
  Backends = {"etcd", "consul", "zookeeper", "nacos"}
  MaxVersion = 3
  Empty <- MCEmpty
  Absent <- MCAbsent
  Sessions = {s1, s2}
  MaxHelpers = 2
  MaxFaults <- MCFaults
INVARIANTS
  TypeOK
  OneSenderNeverPanics
  AsksAfterNewest
PROPERTIES
  LastListIsCurrent
  LatestIsDelivered
  WatchEnds
CHECK_DEADLOCK FALSE
