SPECIFICATION Spec
CONSTANTS
    b1 = b1
    b2 = b2
    b3 = b3
    Blocks <- AndAString
    StringBlocks <- OneString
    Vals <- NoneOrFour
    LastTx = 3
    MaxWrites = 2
    MaxCrashes = 1
INVARIANTS
    StringsAreRestored
CHECK_DEADLOCK FALSE
