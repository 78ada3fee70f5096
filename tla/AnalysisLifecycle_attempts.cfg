SPECIFICATION FairSpec
CONSTANTS
  w1 = w1
  o1 = o1
  Workflow <- OneWorkflow
  Operator <- OneOperator
  FastAttempts = 2
  AgentAttempts = 2
INVARIANTS
  DraftFollowsResult
  CompletedIsSettled
PROPERTIES
  AloneKeepsResult
  WorkflowEnds
CHECK_DEADLOCK FALSE
