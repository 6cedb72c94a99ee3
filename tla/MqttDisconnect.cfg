SPECIFICATION FairSpec
CONSTANTS
  OutMsgs = 1
  InMsgs = 0
  Qualities = {2}
  MaxId = 3
  WireIds = 8
  BufferSize = 1
  NumSockets = 3
  CleanSession = {FALSE}
  AutoReconnect = TRUE
  DisconnectedPublishing = TRUE
  KeepAlive = TRUE
  Fallback = FALSE
  Upsets = {"break", "disconnect"}
  MaxUpsets = 3
CHECK_DEADLOCK FALSE
PROPERTY DisconnectCompletes
