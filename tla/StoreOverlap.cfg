SPECIFICATION Spec
CONSTANTS
  None = None
  Sessions = {s1, s2}
  DefaultMaxRetries = 2
  MaxAttempts = 2
  OrderOutcomes = {FALSE}
  Categories = {"none"}
  PlanEdits <- MCPlanEdits
SYMMETRY Symmetry
INVARIANTS TypeOK CountWithinMax NumbersGapless FailureHasPlan
CHECK_DEADLOCK FALSE
