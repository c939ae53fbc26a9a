\* Commands, late answers and silent connections over two topics.
SPECIFICATION Spec
CONSTANTS
  Topic = {a, b}
  YieldTime = 0
  CommandTimeout = 0
  KeepAlive = 1
  MaxFailAllowed = 2
  MaxHandlers = 2
  MaxPacketId = 2
  ChannelLen = 2
  MaxCommand = 3
  MaxPublish = 2
  MaxSession = 1
SYMMETRY TopicSymmetry
INVARIANTS TypeOK DeliveredOnce SubscriptionsAgree
PROPERTIES NoFalseDisconnect
