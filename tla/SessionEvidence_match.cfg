SPECIFICATION EvidenceSpec
CONSTANTS
  s1 = s1
  s2 = s2
  ann = ann
  ben = ben
  nobody = nobody
  r1 = r1
  r2 = r2
  l1 = l1
  l2 = l2
  op1 = op1
  Session = {s1, s2}
  Person = {ann, ben}
  Customer = ann
  Nobody = nobody
  Request = {r1, r2}
  Bodies <- Full
  Lookup = {l1, l2}
  Attachment = {op1}
  MaxEvents = 2
  MaxTries = 2
  MaxMessages = 2
SYMMETRY Alike
INVARIANTS
  OthersAreNamed
  FlushesConverge
  OnePrimary
PROPERTIES
  ManualIsKept
CHECK_DEADLOCK FALSE
