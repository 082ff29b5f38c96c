SPECIFICATION FairRequests
CONSTANTS
  h1 = h1  h2 = h2  none = none
  Deliveries = {1, 2, 3, 4, 5}
  Payload <- FivePayloads
  Handlers = {h1, h2}
  None = none
  MaxDrops = 1
  MaxChanges = 2
CHECK_DEADLOCK FALSE
INVARIANTS OneSender ConsumedWasSent
PROPERTIES ReceivedIsSettled
