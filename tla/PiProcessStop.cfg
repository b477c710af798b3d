SPECIFICATION PiFairSpec
CONSTANTS
  Stream <- MCStream
  Places <- MCPlaces
  Responses <- MCResponses
  MaxCommands = 1
INVARIANT LinesAreRecords
PROPERTY StopReturns
CHECK_DEADLOCK FALSE
