\* The topic filter of a handler after the next request.
SPECIFICATION Spec
CONSTANTS
  Topic = {a, b}
  YieldTime = 1
  CommandTimeout = 1
  KeepAlive = 2
  MaxFailAllowed = 2
  MaxHandlers = 2
  MaxPacketId = 4
  ChannelLen = 2
  MaxCommand = 2
  MaxPublish = 1
  MaxSession = 1
INVARIANTS IndexedByTopic
