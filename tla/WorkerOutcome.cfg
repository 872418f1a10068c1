SPECIFICATION Spec
CONSTANTS
  Ticks = {t1, t2}
  Commands = {c1}
  s1 = s1
  s2 = s2
  Symbols = {s1}
  Values = {v1}
  Decisions = {0}
  Mappings = {m1, m2}
  SourceOpen <- AllOpen
  Horizon = 1
  DecisionLead = 1
  CommandLeads = {1}
  CommandSymbols <- Whole
  OutcomeDelay = 1
  DayLength = 5
SYMMETRY Symmetric
CHECK_DEADLOCK FALSE
INVARIANTS
  SucceededOutcomeLinked
  OutcomeRowsSameMapping
