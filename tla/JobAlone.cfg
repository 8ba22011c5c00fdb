SPECIFICATION FairWSpec
CONSTANTS
  None = None
  Jobs = {job}
  Reruns = {}
  Callers = {caller}
  Sessions = {job, caller}
  CallerOps = {"transition", "collect", "settle", "create"}
  DefaultMaxRetries = 2
  MaxAttempts = 4
  MaxFailures = 2
  OrderOutcomes = {FALSE}
  Categories = {"none", "account_closed", "bank_unavailable"}
  PlanEdits <- NoEdits
INVARIANTS WTypeOK OneInFlight BudgetKept OneOpenEscalation GivingUpIsEscalated
PROPERTIES BooksOnlyAfterFailure DuePlanHandled
CHECK_DEADLOCK FALSE
