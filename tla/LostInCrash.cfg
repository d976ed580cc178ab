SPECIFICATION FairSpec
CONSTANTS
  Records = {r1}
  Pods = {p1, p2}
  Callers = {c1}
  Buckets = {"TRANSIENT_BANK"}
  Amount <- MCAmount
  Priors <- MCPriors
  Costs <- MCCosts
  BeyondListed = 0
  None = None
  BatchSize = 1
  MaxExecuteAttempts = 2
  MaxDeliverAttempts = 1
  MaxRetries = 2
  MaxContacts = 2
  MaxAttempts = 5
  ContactCooldown = 2
  RecoveryWindow = 8
  RetryDelay = 1
  NudgeDelay = 1
  DayLength = 3
  OpenHour = 1
  CloseHour = 3
  MaxTime = 11
  MaxCrashes = 1
  EarlyReports = FALSE
  Faults = {}
PROPERTIES
  NoRecordLost
CHECK_DEADLOCK FALSE
