SPECIFICATION Spec
CONSTANTS
    Txs <- MCTxs
    Scans <- MCScans
    Vals <- MCVals
    OldFiles <- MCOldFiles
    SlotsPerBlock = 2
    MaxOld = 1
    MaxOps = 2
INVARIANTS
    TypeOK
    CommittedRecords
    ScanIsComplete
    PinsBalanced
PROPERTY OperationsEnd
CHECK_DEADLOCK FALSE
