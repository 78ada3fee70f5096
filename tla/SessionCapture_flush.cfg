SPECIFICATION Spec
CONSTANTS
  ann = ann
  ben = ben
  nobody = nobody
  User = {ann, ben}
  NoUser = nobody
  MaxCalls = 4
  MaxPayloads = 2
  MaxSessions = 2
  MaxAttempts = 2
SYMMETRY Users
INVARIANTS
  OneUserPerSession
  CopiesBounded
CHECK_DEADLOCK FALSE
