SPECIFICATION Spec
CONSTANTS
  Clients = {c1}
  Cycle = TRUE
  FrameSize = 2
  RecvMax = 1
  RcvBuf = 1
  SndBuf = 1
  MaxFds = 2
  MaxFaults = 0
  PeerMoves = {"fin", "reset"}
INVARIANT ExitOnlyOnEnter
