SPECIFICATION DevSpec
CONSTANTS
  None = None
  Mandates = {d1}
  Demo = d1
  DefaultMaxRetries = 1
  SeedMaxRetries = 3
  MaxAttempts = 2
  MaxFailures = 1
  MAX_RETRIES = 1
  AIConfigured = TRUE
  Scenarios = {"first_try_success", "soft_decline_retry_success", "in_flight", "hard_decline", "soft_decline_pending_retry", "repeated_failures_escalation"}
  SoftDeclines = {"insufficient_funds"}
  HardDeclines = {"account_closed"}
  d1 = d1
INVARIANTS
  DevTypeOK
  ServedSchemaIsWhole
CHECK_DEADLOCK FALSE
