SPECIFICATION Spec
CONSTANTS
  t1 = t1
  t2 = t2
  t3 = t3
  m1 = m1
  m2 = m2
  m3 = m3
  a1 = a1
  r1 = r1
  r2 = r2
  s1 = s1
  ann = ann
  bob = bob
  None = None
  Thread <- Threads
  Message <- RootsAndAnswer
  ThreadOf <- ThreadOfEach
  Root <- Roots
  Customer <- Customers
  AuthorOf <- AuthorOfEach
  Request <- TwoRequests
  Session <- OneSession
  MaxHops = 5
  MaxFold = 2
INVARIANTS
  MergedIsRouted
  FiledWhereMoved
CHECK_DEADLOCK FALSE
SYMMETRY Symmetry
