SPECIFICATION WSpec
CONSTANTS
  None = None
  Callers = {caller}
  DefaultMaxRetries = 2
  MaxAttempts = 3
  MaxFailures = 0
  OrderOutcomes = {FALSE}
  PlanEdits <- NoEdits
  Jobs = {job}
  Reruns = {rerun}
  Sessions = {job, rerun, caller}
  CallerOps = {"collect", "settle"}
  Categories = {"none"}
PROPERTIES BooksOnlyAfterFailure
CHECK_DEADLOCK FALSE
