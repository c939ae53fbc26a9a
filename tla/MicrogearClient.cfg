\* Two tasks inside one MQTTClient, after disconnect and connect.
SPECIFICATION Spec
CONSTANTS
  Task = {t1, t2}
  NoTask = NoTask
  QueueLen = 1
  Fd <- FdTwo
  RequestType <- OneRequest
  HasAlias = FALSE
  MaxAccepted = 1
  MaxDisconnect = 1
  MaxSession = 2
  MaxOthers = 0
INVARIANTS OneCommandAtATime
