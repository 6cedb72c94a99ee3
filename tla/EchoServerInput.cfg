SPECIFICATION FairSpec
CONSTANTS
  Clients = {c1, c2}
  Cycle = FALSE
  FrameSize = 1
  RecvMax = 1
  RcvBuf = 1
  SndBuf = 1
  MaxFds = 3
  MaxFaults = 1
  PeerMoves = {"send", "fin", "reset"}
PROPERTY InputTaken
PROPERTY GoneClientReleased
PROPERTY StopEndsProcess
