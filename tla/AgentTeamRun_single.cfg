SPECIFICATION FairSpec
CONSTANTS
  o1 = o1
  o2 = o2
  Role <- Trio
  SlugOf <- SlugIsKey
  InitialRole = "architect"
  Lead = "architect"
  Output <- Dialogue
  NoOutput = NoOutput
  MaxTurns = 4
  MaxMessages = 4
  TurnAttempts = 2
  MaxExecutions = 1
  Request <- TwoRequests
INVARIANTS
  BlockedIsAnswerable
  CompletedIsQuiet
  BudgetHolds
PROPERTIES
  WakeIsNotLost
  ExecutionEnds
CHECK_DEADLOCK FALSE
