SPECIFICATION Spec
CONSTANTS
  Calls = {k1, k2}
  c1 = c1
  c2 = c2
  s1 = s1
  s2 = s2
  m1 = m1
  m2 = m2
  Symbols = {s1, s2}
  Values = {v1, v2}
  Decisions = {1}
  Mappings = {m1, m2}
  OutcomeDelay = 1
  Stored <- StoredRows
  Horizon = 3
SYMMETRY Symmetric
CHECK_DEADLOCK FALSE
INVARIANTS
  IInv
  LinkedAllOrNothing
  LinksGrounded
  RevisionsLinked
  SameMapping
