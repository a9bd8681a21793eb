SPECIFICATION Spec
CONSTANTS
  t1 = t1  t2 = t2
  Threads <- MCThreads
  BlockSize = 4
  Sizes <- MCSizes
  MaxRecords = 4
  MaxCrashes = 2
  Quiet = TRUE
CHECK_DEADLOCK FALSE
INVARIANTS
  TypeOK
  LogInOrder
  FlushedIsOnDisk
PROPERTIES
  ImplementsStableLog
