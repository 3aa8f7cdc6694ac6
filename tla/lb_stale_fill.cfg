SPECIFICATION Spec
CONSTANTS
  Instances = {i1}
  Addrs = {x}
  Readers = {r1}
  MaxFailed = 2
  MaxChecks = 2
  MaxChanges = 2
  Nil = Nil
INVARIANTS
  WatchedListIsCurrent
CHECK_DEADLOCK FALSE
