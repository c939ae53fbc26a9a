\* An application that subscribes when it is connected; disconnect is never called.
SPECIFICATION SSpec
CONSTANTS
  Task = {t1}
  NoTask = NoTask
  QueueLen = 2
  Fd <- FdOne
  RequestType <- Changes
  HasAlias = TRUE
  MaxAccepted = 2
  MaxDisconnect = 0
  MaxSession = 2
  MaxOthers = 1
  Topic = {a}
  OnConnected = a
  Event <- Events
  MaxOn = 2
INVARIANTS LastWordWins SessionIntact
PROPERTIES RequestsSettle FifoSpec
