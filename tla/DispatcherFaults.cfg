SPECIFICATION FairSpec
CONSTANTS
  Process = {p, q}
  Item = {a, b}
  Debounced = {b}
  None = None
  Faults = {"start", "exit", "fold", "disable", "crash"}
INVARIANT TypeOK
 
INVARIANT WaitingHasWaker
PROPERTY EventuallyAcked
