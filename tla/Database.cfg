CONSTANTS
  Tables = {"t"}
  TempNames = {}
  Schemas <- SmallSchemas
  IndexNames = {"i", "j"}
  Fields = {"a", "b"}
  Vals = {1, 2}
  Short = {1}
  Views = {"v"}
  MaxSlots = 2
  MaxOps = 5
  MaxCrashes = 1
SPECIFICATION Spec
INVARIANTS
  TypeOK
  LayoutsFit
  IndexMatchesRecords
  StartsOnceFormed
CHECK_DEADLOCK FALSE
