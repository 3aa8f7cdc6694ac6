SPECIFICATION Spec
CONSTANTS
  t1 = t1
  t2 = t2
  s1 = s1
  s2 = s2
  i1 = i1
  i2 = i2
  i3 = i3
  i4 = i4
  k1 = k1
  k2 = k2
  Threads = {t1, t2}
  Services = {s1}
  Instances = {i1, i2, i3}
  Keys = {k1, k2}
  InstancesOf <- MCOneService
  Host <- MCHost
  Point <- MCPoint
  KeyHash <- MCKeyHash
  Points = 2
  Hashes = 8
  Wrap = 6
  Kinds = {"random", "round_robin", "consistent_hash"}
  MaxCalls <- MCMaxCalls
  MaxChanges <- MCMaxChanges
  None = None
INVARIANTS
  TypeOK
  TakesTurns
PROPERTIES
  OwnerSelected
  MovesOnlyWhenNeeded
SYMMETRY MCSymmetry
CHECK_DEADLOCK FALSE
