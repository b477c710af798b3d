SPECIFICATION LeaseSpec
CONSTANTS
  Process = {p1, p2, p3}
  NoProcess = NoProcess
  Ttl = {1, 2}
  MaxTime = 5
  StaleRelease = FALSE
SYMMETRY Symmetry
INVARIANTS
  LeaseTypeOK
  
PROPERTIES
  LapsedStaysLapsed
CHECK_DEADLOCK FALSE
