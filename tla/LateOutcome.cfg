SPECIFICATION Spec
CONSTANTS
  None = None
  Sessions = {s1, s2}
  DefaultMaxRetries = 2
  MaxAttempts = 1
  OrderOutcomes = {TRUE}
  Categories = {"none"}
  PlanEdits <- NoEdits
PROPERTIES SucceededFinal
CHECK_DEADLOCK FALSE
