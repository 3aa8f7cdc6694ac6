SPECIFICATION FairSpec
CONSTANTS
  g = g
  app = app
  PoolSize = 3
  Users = {g, app}
  Works <- AllPools
  Depth <- Two
INVARIANTS
  TypeOK
  OnePlace
  NoneLost
PROPERTIES
  EveryCallReturns
CHECK_DEADLOCK FALSE
