SPECIFICATION Spec
CONSTANTS
  Ticks = {t1}
  Commands = {c1}
  s1 = s1
  s2 = s2
  Symbols = {s1}
  Values = {v1}
  Decisions = {2}
  Mappings = {m1, m2}
  SourceOpen <- AllOpen
  Horizon = 2
  DecisionLead = 1
  CommandLeads = {1}
  CommandSymbols <- Whole
  OutcomeDelay = 2
  DayLength = 5
CHECK_DEADLOCK FALSE
INVARIANTS
  DecisionRowsSameMapping
