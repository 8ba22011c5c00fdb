SPECIFICATION WSpec
CONSTANTS
  None = None
  Callers = {caller}
  DefaultMaxRetries = 2
  MaxAttempts = 3
  MaxFailures = 0
  OrderOutcomes = {FALSE}
  PlanEdits <- NoEdits
  Jobs = {job}
  Reruns = {}
  Sessions = {job, caller}
  CallerOps = {"collect", "settle"}
  Categories = {"none", "authentication_required"}
INVARIANTS TerminalDeclinesAgree
CHECK_DEADLOCK FALSE
