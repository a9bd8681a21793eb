SPECIFICATION FairSpec
CONSTANTS
    b1 = b1
    b2 = b2
    b3 = b3
    Blocks <- AndAString
    StringBlocks <- OneString
    Vals <- OneBit
    LastTx = 2
    MaxWrites = 2
    MaxCrashes = 2
PROPERTIES
    ImplementsStore
    RecoveryEnds
CHECK_DEADLOCK FALSE
