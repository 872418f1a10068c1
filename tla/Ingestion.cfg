SPECIFICATION FairSpec
CONSTANTS
  Calls = {c1, c2}
  Kinds = {"candles", "native", "reference"}
  Keys = {1, 2}
  Values = {v1, v2}
  MaxRecords = 2
CHECK_DEADLOCK FALSE
INVARIANTS
  IInv
  RevisionsKept
  HistoriesNeverDeadlock
PROPERTIES
  RowsKept
  CallEnds
