SPECIFICATION FairSpec
CONSTANTS
  Clients = {c1, c2}
  Cycle = TRUE
  FrameSize = 3
  RecvMax = 1
  RcvBuf = 1
  SndBuf = 1
  MaxFds = 3
  MaxFaults = 0
  PeerMoves = {"send"}
INVARIANT TypeOK
INVARIANT FrameInv
PROPERTY ImplementsFrameService
PROPERTY FrameFinished
