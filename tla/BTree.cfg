SPECIFICATION Spec
CONSTANTS
    Keys <- MCKeys
    MinKey <- MCMinKey
    Rids <- MCRids
    LeafFull = 3
    DirFull = 4
    MaxOps = 7
INVARIANTS
    TypeOK
    LookupIsRight
    DirectoryIsTree
CHECK_DEADLOCK FALSE
