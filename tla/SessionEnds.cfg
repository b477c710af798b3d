SPECIFICATION FairSpec
CONSTANTS
  Item = {a, b}
  Trigger = a
  Faults = {"crash", "timeout", "reject", "start", "steal"}
PROPERTY AlwaysDisposed
CHECK_DEADLOCK FALSE
