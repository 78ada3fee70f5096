SPECIFICATION TabFairSpec
CONSTANTS
  c1 = c1
  Command = {c1}
  MaxChanges = 1
  MaxHides = 1
  MaxFaults = 1
INVARIANTS
  HeardIsAsked
PROPERTIES
  BoardCatchesUp
CHECK_DEADLOCK FALSE
