SPECIFICATION Spec
CONSTANTS
  Ticks = {t1}
  Commands = {c1}
  s1 = s1
  s2 = s2
  Symbols = {s1, s2}
  Values = {v1}
  Decisions = {2}
  Mappings = {m1}
  SourceOpen <- AllOpen
  Horizon = 3
  DecisionLead = 1
  CommandLeads = {2}
  CommandSymbols <- WholeOrPart
  OutcomeDelay = 2
  DayLength = 5
CHECK_DEADLOCK FALSE
INVARIANTS
  RowsNameTheSnapshot
  SucceededDecisionStored
  FailedTickStoredNothing
