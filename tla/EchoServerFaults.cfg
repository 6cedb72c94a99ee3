SPECIFICATION Spec
CONSTANTS
  Clients = {c1, c2}
  Cycle = TRUE
  FrameSize = 2
  RecvMax = 1
  RcvBuf = 1
  SndBuf = 1
  MaxFds = 3
  MaxFaults = 1
  PeerMoves = {"fin", "reset", "urgent"}
SYMMETRY Symmetry
INVARIANT IndInv
INVARIANT ListMatchesSockets
INVARIANT CleanShutdown
PROPERTY HealthyClientKept
PROPERTY RoundComplete
INVARIANT PassInv
PROPERTY ServicePassComplete
