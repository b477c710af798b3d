SPECIFICATION Spec
CONSTANTS
  Process = {a, b}
  ChannelMode = TRUE
  MaxStart = 3
  MaxTurn = 3
  MaxNew = 1
  Faults = {"crash", "exit", "early", "fold", "clear"}
  a = a
  b = b
  None = None
SYMMETRY Symmetry
INVARIANTS
  TranscriptNotAhead
  

  
CHECK_DEADLOCK FALSE
