SPECIFICATION FairWSpec
CONSTANTS
  None = None
  Jobs = {job}
  Reruns = {rerun}
  Callers = {caller}
  Sessions = {job, rerun, caller}
  CallerOps = {"collect", "settle", "edit", "resolve"}
  DefaultMaxRetries = 1
  MaxAttempts = 2
  MaxFailures = 0
  OrderOutcomes = {FALSE}
  Categories = {"none", "account_closed"}
  PlanEdits <- MCPlanEdits
INVARIANTS CountWithinMax NumbersGapless FailureHasPlan
PROPERTIES DuePlanHandled
CHECK_DEADLOCK FALSE
