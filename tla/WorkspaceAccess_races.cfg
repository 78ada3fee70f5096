SPECIFICATION AccessSpec
CONSTANTS
  o = o
  a = a
  m = m
  w1 = w1
  w2 = w2
  s1 = s1
  s2 = s2
  q1 = q1
  q2 = q2
  Users = {o, a, m}
  Workspaces = {w1, w2}
  NoWs = NoWs
  NoOne = NoOne
  Sessions = {s1, s2}
  Requests = {q1, q2}
  GoogleUsers = {m}
  Home <- MCHome
  Provisioned <- MCProvisioned
  MaxRows = 4
CHECK_DEADLOCK FALSE
SYMMETRY MCSymmetry
INVARIANTS OneLiveRow ActiveWasMember
PROPERTIES OwnersStay RaisedByAnother
