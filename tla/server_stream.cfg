CONSTANTS
  Clients = {c1, c2}
  Names = {"added"}
  Star = star
  Null = null
  Requests <- SubscribeOnly
  QueueSize = 1
  SockBuf = 0
  HighWater = 0
  MaxSubs = 1
  MaxRequests = 1
  MaxEvents = 2
  WaitsForHandlers = TRUE
  Readers = {c1}
  c1 = c1
  c2 = c2
SPECIFICATION LiveSpec
INVARIANTS InOrder
PROPERTIES ImplementsBus OnlyFullDropped Delivers HandlersEnd
CHECK_DEADLOCK FALSE
