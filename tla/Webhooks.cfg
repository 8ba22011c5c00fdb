SPECIFICATION FairHSpec
CONSTANTS
  None = None
  hook = hook
  Jobs = {}
  Reruns = {hook}
  Callers = {app}
  Clients = {app}
  Sessions = {hook, app}
  CallerOps = {"create"}
  DefaultMaxRetries = 1
  MaxAttempts = 2
  MaxFailures = 1
  OrderOutcomes = {FALSE}
  Categories = {"none"}
  PlanEdits <- NoEdits
  MAX_RETRIES = 1
  MaxOrders = 2
  Event <- MCEvents
  MaxEvents = 2
INVARIANTS HTypeOK NothingDropped ProcessedMeansApplied AppliedOnce OrphansExplained
PROPERTIES RecordingEnds EventsAnswered
CHECK_DEADLOCK FALSE
