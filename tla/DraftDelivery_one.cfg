SPECIFICATION FairSpec
CONSTANTS
  d1 = d1
  Draft <- OneDraft
  LongThread <- OneDraft
  MaxAttempts = 3
  MaxReconcileRetries = 1
  SweepBatch = 1
INVARIANTS
  DeliveryIsTruthful
  OutcomesAgree
PROPERTIES
  KeepsPromise
  ApprovedIsStarted
CHECK_DEADLOCK FALSE
