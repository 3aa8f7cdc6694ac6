SPECIFICATION Spec
CONSTANTS
  m1 = m1
  m2 = m2
  k1 = k1
  k2 = k2
  good = good
  other = other
  bad = bad
  picky = picky
  Managers = {m1, m2}
  Keys = {k1}
  Contents = {good, other, bad}
  Empty = bad
  Callbacks = {picky}
  NoCallback = NoCallback
  Verdict <- MCVerdict
  Provider = "etcd"
  Nil = Nil
  KeyOrder <- OneKey
  Shipped <- ShippedOrdered
  Inputs <- NoInputs
  Edits <- NewEdit
  Apps = {a1}
  Health = Health
  Subscribers = {}
  MaxCalls = 3
PROPERTIES
  LocalNeverGoesBack
CHECK_DEADLOCK FALSE
