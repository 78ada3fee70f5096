SPECIFICATION Spec
CONSTANTS
  m1 = m1
  r1 = r1
  r2 = r2
  s1 = s1
  s2 = s2
  c1 = c1
  NoReply = NoReply
  Message <- OneMessage
  Customer <- OneMessage
  Reply <- TwoReplies
  FileOnly <- SecondIsFile
  Sender <- TwoSenders
  Closer <- OneCloser
  MaxTries = 2
  MaxMoves = 1
SYMMETRY Symmetry
INVARIANTS
  SucceededWasPosted
  DoneIsJustified
PROPERTIES
  DoneIsKept
  MessageReopens
CHECK_DEADLOCK FALSE
