SPECIFICATION IngestSpec
CONSTANTS
  Senders = {s1, s2}
  Requests <- MCRequests
  NoKey = NoKey
  RollingSource = "webhook"
  MaxTries = 3
  MaxFailures = 1
INVARIANTS
  AcceptedIsProcessed
CHECK_DEADLOCK FALSE
