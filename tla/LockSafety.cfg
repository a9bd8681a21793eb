SPECIFICATION Spec
CONSTANTS
  t1 = t1  t2 = t2  t3 = t3
  b1 = b1  b2 = b2
  Txs <- MCTxs
  Blocks <- MCBlocks
SYMMETRY MCSymmetry
INVARIANTS
  ExclusiveUnlessClobbered
  TableMatchesOwners
  BooksAgree
  BlockedByAnother
  ReaderSleepsOnlyWhenBlocked
PROPERTIES
  ImplementsContract
