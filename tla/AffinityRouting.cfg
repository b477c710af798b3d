SPECIFICATION Spec
CONSTANTS
  p1 = p1
  p2 = p2
  p3 = p3
  r1 = r1
  x1 = x1
  Post = {p1, p2}
  Reply = {r1}
  Reaction = {x1}
  RootOf <- MCRootOf
  Mentioning = {p1}
  DebounceSec = 1
  Window = 1
  MaxTime = 3
  Faults = {"store", "restart"}
  None = None
INVARIANTS
  HardCap
  ThreadStaysTogether
PROPERTIES
  JoinsOnlyRecent
  LatestFollowsMessages
CHECK_DEADLOCK FALSE
