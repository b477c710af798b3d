SPECIFICATION Spec
CONSTANTS
  Item = {a, b}
  Trigger = a
  Faults = {"crash", "signal", "timeout", "reject", "flush", "store", "start", "steal"}
INVARIANT TypeOK
INVARIANT ReceivedIsRemembered
INVARIANT OnlyClaimedIsAcked
INVARIANT BusyTurnIsTimed
INVARIANT NoPromptWhileBusy
INVARIANT AliveUnderLease
PROPERTY AckFollowsFlush
 
CHECK_DEADLOCK FALSE
