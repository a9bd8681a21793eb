SPECIFICATION Spec
CONSTANTS
    b1 = b1
    b2 = b2
    b3 = b3
    Blocks <- TwoBlocks
    StringBlocks <- NoStrings
    Vals <- OneBit
    LastTx = 3
    MaxWrites = 2
    MaxCrashes = 1
SYMMETRY Symmetry
INVARIANTS
    TypeOK
    CrashSafe
    CommittedIsVisible
    AckedSurvives
CHECK_DEADLOCK FALSE
