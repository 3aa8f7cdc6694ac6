SPECIFICATION Spec
CONSTANTS
  m1 = m1
  m2 = m2
  k1 = k1
  k2 = k2
  good = good
  other = other
  bad = bad
  picky = picky
  Managers = {m1}
  Keys = {k1, k2}
  Contents = {good, other, bad}
  Empty = bad
  Callbacks = {picky}
  NoCallback = NoCallback
  Verdict <- MCVerdict
  Provider = "nacos"
  Nil = Nil
  KeyOrder <- TwoKeys
  Shipped <- ShippedPicky
  Inputs <- NewInput
  Edits <- BadEdit
  Apps = {a1}
  Health = Health
  Subscribers = {s1}
  MaxCalls = 2
INVARIANTS
  NoInvention
CHECK_DEADLOCK FALSE
