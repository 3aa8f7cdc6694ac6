SPECIFICATION FairSpec
CONSTANTS
  g = g
  app = app
  PoolSize = 5
  Users = {g, app}
  Works <- OneKeeper
  Depth <- Six
PROPERTIES
  CallsReturnAnyhow
CHECK_DEADLOCK FALSE
