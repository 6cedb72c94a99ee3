SPECIFICATION Spec
CONSTANTS
  Channels = {c1, c2, c3}
  Loops = {l1, l2}
  Slots = 4
  MaxMsgs = 2
  None = None
SYMMETRY Symmetry
CHECK_DEADLOCK FALSE
INVARIANT BroadcastToAll
