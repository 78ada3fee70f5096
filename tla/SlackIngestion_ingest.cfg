SPECIFICATION FairSpec
CONSTANTS
  e1 = e1
  e2 = e2
  c1 = c1
  c2 = c2
  customer = customer
  ourBot = ourBot
  f1 = f1
  nobody = nobody
  noFile = noFile
  noConversation = noConversation
  noEvent = noEvent
  Event <- TwoEvents
  Conversation <- TwoConversations
  Existing <- OneExisting
  User = {customer, ourBot}
  BotUser = ourBot
  File <- OneFile
  Thread <- OneThread
  Payloads <- SomePayloads
  Nobody = nobody
  NoFile = noFile
  NoConversation = noConversation
  NoEvent = noEvent
  MaxDeliveries <- TwoThenOne
  PipelineAttempts <- TwoThenOne
  GateAttempts = 1
  MirrorAttempts = 2
INVARIANTS
  AckedIsAccountedFor
  FiledAsPromised
  OwnConversation
PROPERTIES
  UploadedStays
  WorkflowsEnd
CHECK_DEADLOCK FALSE
