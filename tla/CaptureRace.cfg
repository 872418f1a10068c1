SPECIFICATION MCSpec
CONSTANTS
  Captures = {c1, c2}
  s1 = s1
  s2 = s2
  v1 = v1
  Symbols = {s1, s2}
  Values = {v1, v2}
  Decisions = {1, 2}
  Leads = {1}
  Mappings = {m1}
  SourceOpen <- OneClosed
  Horizon = 2
SYMMETRY Symmetric
CHECK_DEADLOCK FALSE
INVARIANTS
  SnapshotEvidenced
  SnapshotPaired
  OneSnapshotPerDecision
  RepliesAgree
  IInv
PROPERTIES
  AppendOnly
  ImplementsLedger
