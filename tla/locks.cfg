SPECIFICATION FairSpec
CONSTANTS
  Goroutines <- Three
  Works <- ThreeWorks
  Nobody = Nobody
INVARIANTS
  TypeOK
  MapsGuarded
PROPERTIES
  EveryOperationEnds
CHECK_DEADLOCK FALSE
