SPECIFICATION Spec
CONSTANTS
  Calls = {c1, c2}
  Kinds = {"candles"}
  Keys = {1, 2}
  Values = {v1}
  MaxRecords = 2
SYMMETRY Symmetric
CHECK_DEADLOCK FALSE
INVARIANTS
  FailedHoldsNothing
