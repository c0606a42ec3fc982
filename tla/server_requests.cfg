CONSTANTS
  Clients = {c1}
  Names = {"added", "updated"}
  Star = star
  Null = null
  Requests <- AllRequests
  QueueSize = 2
  SockBuf = 1
  HighWater = 0
  MaxSubs = 2
  MaxRequests = 2
  MaxEvents = 2
  WaitsForHandlers = TRUE
  Readers = {c1}
  c1 = c1
SPECIFICATION LiveSpec
INVARIANTS AnswerFirst CleansUp
PROPERTIES ImplementsBus StopReturns
CHECK_DEADLOCK FALSE
