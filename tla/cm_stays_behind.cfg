SPECIFICATION FairSpec
CONSTANTS
  m1 = m1
  m2 = m2
  k1 = k1
  k2 = k2
  good = good
  other = other
  bad = bad
  picky = picky
  Managers = {m1}
  Keys = {k1}
  Contents = {good, other, bad}
  Empty = bad
  Callbacks = {picky}
  NoCallback = NoCallback
  Verdict <- MCVerdict
  Provider = "zookeeper"
  Nil = Nil
  KeyOrder <- OneKey
  Shipped <- ShippedOrdered
  Inputs <- NoInputs
  Edits <- TwoEdits
  Apps = {}
  Health = Health
  Subscribers = {}
  MaxCalls = 3
PROPERTIES
  StaysInStep
CHECK_DEADLOCK FALSE
