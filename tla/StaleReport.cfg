SPECIFICATION Spec
CONSTANTS
  Records = {r1}
  Pods = {p1, p2}
  Callers = {c1}
  Buckets = {"TRANSIENT_BANK"}
  Amount <- MCAmount
  Priors <- MCPriors
  Costs <- MCCosts
  BeyondListed = 0
  None = None
  BatchSize = 1
  MaxExecuteAttempts = 2
  MaxDeliverAttempts = 2
  MaxRetries = 2
  MaxContacts = 2
  MaxAttempts = 5
  ContactCooldown = 2
  RecoveryWindow = 8
  RetryDelay = 1
  NudgeDelay = 1
  DayLength = 3
  OpenHour = 1
  CloseHour = 3
  MaxTime = 8
  MaxCrashes = 0
  EarlyReports = FALSE
  Faults = {"report"}
SYMMETRY MCSymmetry
INVARIANTS
  ClaimSerialises
CHECK_DEADLOCK FALSE
