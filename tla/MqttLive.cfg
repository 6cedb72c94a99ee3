SPECIFICATION FairSpec
CONSTANTS
  OutMsgs = 1
  InMsgs = 0
  Qualities = {0, 1, 2}
  MaxId = 3
  WireIds = 8
  BufferSize = 1
  NumSockets = 4
  CleanSession = {FALSE, TRUE}
  AutoReconnect = TRUE
  DisconnectedPublishing = TRUE
  KeepAlive = TRUE
  Fallback = TRUE
  Upsets = {"break", "silence", "slow", "crash", "refuse", "request"}
  MaxUpsets = 3
CHECK_DEADLOCK FALSE
PROPERTY AllSettled
INVARIANT ClientInv
INVARIANT SendInv
