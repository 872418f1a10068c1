SPECIFICATION MCSpec
CONSTANTS
  Order <- MCOrder
  Workers = 1
  MaxDirs = 2
  MaxRuns = 3
  NativeData = {"prices"}
  RealityData = {"r1", "r2", "fail"}
  Codes = {"c1", "c2"}
INVARIANTS
  RestoreExact
  LatestGrounded
PROPERTIES
  SealedCollection
  CommandEnds
CHECK_DEADLOCK FALSE
