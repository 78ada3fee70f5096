SPECIFICATION Spec
CONSTANTS
  r1 = r1
  f1 = f1
  Repos = {r1}
  NoRepo = NoRepo
  Files = {f1}
  MaxSyncs = 2
  MaxAttempts = 2
  MaxLate = 1
CHECK_DEADLOCK FALSE
INVARIANTS ServedIsWhole HealthIsSettled
PROPERTIES StaysServed
