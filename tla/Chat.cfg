SPECIFICATION Spec
CONSTANTS
  Channels = {c1, c2, c3}
  Loops = {l1, l2}
  Slots = 4
  MaxMsgs = 2
  None = None
CONSTRAINT SomebodyStays
SYMMETRY Symmetry
CHECK_DEADLOCK FALSE
INVARIANT TypeOK
INVARIANT SerialListExact
INVARIANT SerialBroadcastComplete
INVARIANT InOrderOnce
