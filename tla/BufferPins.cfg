SPECIFICATION FairSpec
CONSTANTS
  t1 = t1  t2 = t2  t3 = t3
  b1 = b1  b2 = b2  b3 = b3
  v0 = v0  v1 = v1
  Txs <- MCPair
  Blocks <- MCTwo
  Vals <- MCVals
  Empty = v0
  NumFrames = 1
  MaxPins = 2
  None = None
CHECK_DEADLOCK FALSE
INVARIANTS
  PinsMatchLists
PROPERTIES
  ImplementsMemory
  PinsEnd
