SPECIFICATION AdmissionSpec
CONSTANTS
  e1 = e1
  e2 = e2
  Event = {e1, e2}
  Sort <- MCSort
  Classifier <- MCClassifier
  Node <- MCNode
  Depth = 3
  Height <- MCHeight
  Config <- MCConfig
  MaxReload = 1
  IsDm = FALSE
  Faults = {"config", "store", "fetch", "foreign"}
  NoValue = NoValue
SYMMETRY Symmetry
INVARIANTS
  DisabledIsQuiet
  FailsClosed
PROPERTIES
  RotatesAtRest
CHECK_DEADLOCK FALSE
