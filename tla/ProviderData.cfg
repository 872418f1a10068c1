SPECIFICATION Spec
CONSTANTS
  Times = {0, 1, 2, 3, 4}
  Payloads = {"a", "bad"}
  BadPayloads = {"bad"}
  Start = 1
  End = 4
  PageLimit = 2
  MaxPages = 2
  MaxRetries = 1
  Assessments <- MCAssessments
  Worlds <- MCWorlds
  Minutes = {0, 1, 2, 3}
  Prices = {"a", "b"}
  Tokens = {"x", "y"}
  NoToken = "null"
  Windows <- MCWindows
  RowLimit = 2
  MaxReads = 2
  Retries = 1
  Clocks = {4}
  Embargo = 1
  Exporters = {"e1", "e2"}
  ExportTimes = {0, 1, 2, 3}
  ExportStart = 1
  ExportEnd = 4
  ExportLimit = 2
  Threads = {"t1", "t2"}
  Gap = 3
  LastTick = 11
  Symbols = {"s1", "s2"}
  AllSymbols = "*"
  LastDay = 6
  Calendars <- MCCalendars
  Datasets <- MCDatasets
  Universe = {"s1"}
  EvaluationStart = 7
  EvaluationEnd = 22
  Auditors = {"c1", "c2"}
  Roster <- MCRoster
  Universes <- MCUniverses
  SubsetSize = 2
  Answers <- MCAnswers
  EvalStart = 1
  EvalEnd = 4
  MinimumDays = 3
  OosDays = 1
  Builders = {"b1", "b2"}
  OpenMinute = 0
  CloseMinute = 2
  TargetMinutes = {0, 1}
  Quotes = {"q1", "q2"}
  ErrorCodes = {"REQUEST_FAILED"}
  StructuralCodes = {"MALFORMED_BAR_PAYLOAD", "SESSION_BOUNDARY_LEAKAGE", "DUPLICATE_TARGET"}
INVARIANTS
  TargetsGrounded
  HonestFetchComplete
  ReplayExact
  ArtifactWhole
  AdmissionsSpaced
  JoinsExact
  CohortResolved
  ActiveGrounded
  RecordsTrue
PROPERTIES
  BitgetImplementsSource
  NativeImplementsSource
  FetchEnds
CHECK_DEADLOCK FALSE
