SPECIFICATION Spec
CONSTANTS
  Goroutines <- Three
  Works <- ThreeWorks
  Nobody = Nobody
INVARIANTS
  ContentsGuarded
CHECK_DEADLOCK FALSE
