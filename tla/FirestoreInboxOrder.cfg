SPECIFICATION Spec
CONSTANTS
  Item = {i1, i2, i3}
  MaxMs = 3
  MaxBurst = 3
  MaxCalls = 4
SYMMETRY Symmetry
INVARIANTS
  TypeOK
  SameMsOrder
  OrderAcrossGap
PROPERTY
  AckIsFinal
CHECK_DEADLOCK FALSE
