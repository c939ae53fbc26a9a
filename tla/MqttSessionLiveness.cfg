\* A broken or silent connection and the keepalive that has to notice it.
SPECIFICATION FairSpec
CONSTANTS
  Topic = {a}
  YieldTime = 1
  CommandTimeout = 1
  KeepAlive = 2
  MaxFailAllowed = 2
  MaxHandlers = 1
  MaxPacketId = 2
  ChannelLen = 2
  MaxCommand = 2
  MaxPublish = 1
  MaxSession = 1
PROPERTIES BrokenLinkDetected SilentLinkDetected
