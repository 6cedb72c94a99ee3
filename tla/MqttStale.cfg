SPECIFICATION Spec
CONSTANTS
  OutMsgs = 2
  InMsgs = 0
  Qualities = {1}
  MaxId = 3
  WireIds = 8
  BufferSize = 1
  NumSockets = 3
  CleanSession = {FALSE}
  AutoReconnect = TRUE
  DisconnectedPublishing = TRUE
  KeepAlive = TRUE
  Fallback = TRUE
  Upsets = {"break", "broken retry"}
  MaxUpsets = 2
CHECK_DEADLOCK FALSE
PROPERTY SendsAsPromised
