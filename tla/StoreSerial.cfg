SPECIFICATION Spec
CONSTANTS
  None = None
  Sessions = {s1}
  DefaultMaxRetries = 2
  MaxAttempts = 2
  OrderOutcomes = {TRUE, FALSE}
  Categories = {"none", "account_closed"}
  PlanEdits <- MCPlanEdits
PROPERTIES ContractSpec SucceededFinal FailureKeepsActivePlan
CHECK_DEADLOCK FALSE
