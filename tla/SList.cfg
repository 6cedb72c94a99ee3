SPECIFICATION FairSpec
CONSTANTS
  Nodes = {n1, n2, n3, n4}
  Handles = {h1, h2}
  NULL = NULL
  Positions <- MCPositions
  Sizes = {0, 2}
INVARIANT TypeOK
INVARIANT ChainInv
INVARIANT LoopInv
PROPERTY ImplementsHandleList
PROPERTY CallsEnd
