SPECIFICATION Spec
CONSTANTS
  t1 = t1  t2 = t2  t3 = t3
  b1 = b1  b2 = b2  b3 = b3
  v0 = v0  v1 = v1
  Txs <- MCPair
  Blocks <- MCBlocks
  Vals <- MCVals
  Empty = v0
  NumFrames = 2
  MaxPins = 1
  None = None
SYMMETRY MCSymmetry
CHECK_DEADLOCK FALSE
INVARIANTS
  TypeOK
  PinnedBlockStays
  SleepsOnlyWhenFull
  SavedIsOnDisk
