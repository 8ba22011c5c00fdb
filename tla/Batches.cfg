SPECIFICATION FairDevSpec
CONSTANTS
  None = None
  Mandates = {m1, d1}
  Demo = d1
  DefaultMaxRetries = 1
  SeedMaxRetries = 3
  MaxAttempts = 2
  MaxFailures = 1
  MAX_RETRIES = 1
  AIConfigured = TRUE
  Scenarios = {"in_flight"}
  SoftDeclines = {"insufficient_funds"}
  HardDeclines = {"account_closed"}
  m1 = m1
  d1 = d1
INVARIANTS
  RecordTellsOutcome
  CompletedMeansAllNodes
  AiRunsLogged
  PlansTellTheTruth
PROPERTIES
  ClosedPlansStayClosed
  AIOnlyExplains
  RecordedFailuresBlockNobody
  BatchEnds
  EveryDueMandateHandled
  AttemptsSettled
CHECK_DEADLOCK FALSE
