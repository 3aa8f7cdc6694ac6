SPECIFICATION Spec
CONSTANTS
  Goroutines <- Three
  Works <- RefreshWork
  Nobody = Nobody
INVARIANTS
  MapsGuarded
CHECK_DEADLOCK FALSE
