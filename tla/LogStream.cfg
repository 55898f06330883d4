SPECIFICATION ReceiptSpec
CONSTANTS
  c1 = c1
  Clients <- MCClients
  MaxRecords = 2
  ChanCap = 1
INVARIANT
  NothingSkipped
PROPERTIES
  StreamEnds
  GoneIsUnsubscribed
  SubscribedReceives
CHECK_DEADLOCK FALSE
