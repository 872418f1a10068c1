SPECIFICATION FairSpec
CONSTANTS
  Ticks = {t1}
  Commands = {c1}
  s1 = s1
  s2 = s2
  Symbols = {s1}
  Values = {v1}
  Decisions = {1}
  Mappings = {m1}
  SourceOpen <- AllOpen
  Horizon = 3
  DecisionLead = 1
  CommandLeads = {1}
  CommandSymbols <- Whole
  OutcomeDelay = 1
  DayLength = 3
CHECK_DEADLOCK FALSE
INVARIANTS
  IInv
PROPERTIES
  TickEnds
