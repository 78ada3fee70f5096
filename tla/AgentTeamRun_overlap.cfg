SPECIFICATION Spec
CONSTANTS
  o1 = o1
  o2 = o2
  Role <- Pair
  SlugOf <- SlugIsKey
  InitialRole = "reviewer"
  Lead = "orchestrator"
  Output <- OverlapDialogue
  NoOutput = NoOutput
  MaxTurns = 2
  MaxMessages = 4
  TurnAttempts = 2
  MaxExecutions = 3
  Request <- OneRequest
INVARIANTS
  PrCreatorGated
CHECK_DEADLOCK FALSE
