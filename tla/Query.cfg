CONSTANTS
  NVal <- NumberLexemes
  SVal <- StringLexemes
  TableOrder <- Order
  Columns <- Fields
  Views <- ViewQueries
  Statements <- Asked
  Contents <- Tables
SPECIFICATION Spec
INVARIANTS
  ParsedAsWritten
  RowsAreRight
  EndsAsSupported
CHECK_DEADLOCK FALSE
