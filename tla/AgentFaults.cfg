SPECIFICATION Spec
CONSTANTS
  Records = {r1}
  Pods = {p1, p2}
  Callers = {c1}
  Buckets = {"TRANSIENT_BANK", "USER_ACTION_NEEDED"}
  Amount <- MCAmount
  Priors <- MCPriors
  Costs <- MCCosts
  BeyondListed = 0
  None = None
  BatchSize = 1
  MaxExecuteAttempts = 2
  MaxDeliverAttempts = 1
  MaxRetries = 2
  MaxContacts = 2
  MaxAttempts = 5
  ContactCooldown = 2
  RecoveryWindow = 6
  RetryDelay = 1
  NudgeDelay = 1
  DayLength = 3
  OpenHour = 1
  CloseHour = 3
  MaxTime = 7
  MaxCrashes = 1
  EarlyReports = TRUE
  Faults = {"call", "port", "db", "dlq", "report", "classify", "redeliver"}
SYMMETRY MCSymmetry
INVARIANTS
  TrailsComplete
  ClaimSerialises
  AttemptsInSequence
  RecoveredIsReal
  CapsRespected
  CooldownRespected
PROPERTIES
  NoSpendAfterEnd
  ImplementsLifecycle
CHECK_DEADLOCK FALSE
