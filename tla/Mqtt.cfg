SPECIFICATION Spec
CONSTANTS
  OutMsgs = 2
  InMsgs = 1
  Qualities = {0, 1, 2}
  MaxId = 3
  WireIds = 8
  BufferSize = 1
  NumSockets = 3
  CleanSession = {FALSE}
  AutoReconnect = TRUE
  DisconnectedPublishing = TRUE
  KeepAlive = TRUE
  Fallback = TRUE
  Upsets = {"break", "silence", "slow", "refuse", "crash", "request", "disconnect"}
  MaxUpsets = 2
CHECK_DEADLOCK FALSE
INVARIANT TypeOK
INVARIANT StoreCovers
INVARIANT StoreExact
PROPERTY SendsAsPromised
PROPERTY ReceivesAsPromised
INVARIANT ConnectedUsable
INVARIANT ReceiveInv
