SPECIFICATION Spec
CONSTANTS
  a1 = a1
  a2 = a2
  d1 = d1
  s1 = s1
  s2 = s2
  w1 = w1
  w2 = w2
  b1 = b1
  b2 = b2
  Inputs = 2
  Kinds = {"chat", "new", "other"}
  Limit = 1
  MaxAttempts = 2
  Callbacks = 2
  Deaths = 1
  Asks = {a1, a2}
  Dels = {d1}
  No = No
  SessionIds = {s1, s2}
  MaxSessions = 1
  Names = {"a", "b"}
  Paths <- MCPaths
  Workers = {w1, w2}
  Changes = 3
  Users = {"u"}
  Browsers = {b1, b2}
  Ttl = 1
  LastTime = 2
  Restarts = 1
INVARIANTS AnswersHold DeletedStaysDeleted EachMessageOneTurn DeliveriesAreTrue NothingLost 
PROPERTIES LocksAreFreed OutboxSettles StopReturns
CHECK_DEADLOCK FALSE
