\* disconnect forgets a task that goes on running beside the next one.
SPECIFICATION FairSpec
CONSTANTS
  Task = {t1, t2}
  NoTask = NoTask
  QueueLen = 2
  Fd <- FdOne
  RequestType <- OneRequest
  HasAlias = FALSE
  MaxAccepted = 2
  MaxDisconnect = 1
  MaxSession = 2
  MaxOthers = 1
INVARIANTS TypeOK HandleLive OrphanBound AtMostOnce TaskOrder SessionIntact
PROPERTIES NoStaleWrite SessionEndsOnRequest EndsNearer
