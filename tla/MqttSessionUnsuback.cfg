\* A late UNSUBACK taken as the answer to the next command.
SPECIFICATION Spec
CONSTANTS
  Topic = {a}
  YieldTime = 1
  CommandTimeout = 1
  KeepAlive = 2
  MaxFailAllowed = 2
  MaxHandlers = 2
  MaxPacketId = 4
  ChannelLen = 2
  MaxCommand = 2
  MaxPublish = 1
  MaxSession = 1
PROPERTIES UnsubackMatches
