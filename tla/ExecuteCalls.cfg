SPECIFICATION FairSpec
CONSTANTS
  Calls = {c1, c2, c3}
  Records = {r1}
  MaxAttempts = 2
  Actions = {"RETRY"}
  MaxTime = 0
  PollBudget = 2
  Faulty = TRUE
PROPERTIES
  ImplementsExecutor
  EveryCallEnds
CHECK_DEADLOCK FALSE
