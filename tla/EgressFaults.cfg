SPECIFICATION Spec
CONSTANTS
  a = a
  b = b
  c = c
  x = x
  y = y
  None = None
  Key = {a, b, c}
  Unknown = {c}
  SessionKey = a
  Dest = {x, y}
  MaxSessions = 2
  MaxTurns = 2
  MaxReplies = 1
  MaxParts = 2
  MaxTools = 1
  MaxQueue = 2
  Faults = {"update", "post", "end", "steer"}
SYMMETRY Places

  
PROPERTIES
  ReplyStays
  
CHECK_DEADLOCK FALSE
