SPECIFICATION PeripherySpec
CONSTANTS
  Senders = {s1, s2}
  Requests <- MCRequests
  NoKey = NoKey
  RollingSource = "webhook"
  MaxTries = 3
  MaxFailures = 1
  Downtimes = {d1, d2}
  Shapes <- MCShapes
  Instrument = "SBIN"
  Planned = {1}
  Hold = 2
  MaxBegin = 1
  LastTime = 3
  MaxUpdates = 1
  Unset = Unset
  Records = {r1, r2}
  MaxAttempts = 1
  Actions = {"RETRY", "NUDGE_REMINDER"}
  MaxTime = 0
  PortMayFail = TRUE
  Batches = {1, 2}
  PerBatch = 2
  Scenario <- MCScenario
  Wanted = {0, 2}
  ClockSeed = 2
  Kinds <- MCKinds
  Tries = {1}
  WorldActions = {"RETRY", "NUDGE"}
  Webhooks = {}
  MaxAnswers = 2
  MaxRestarts = 1
  Payments <- MCPayments
  RouteBelow = {0, 75, 100}
  EscalateBelow = {0, 60}
  Rate <- MCRate
  MaxChars = 160
  ModelAnswers <- MCModelAnswers
  ModelTexts <- MCModelTexts
  MaxConsidered = 4
  Callers = {c1, c2}
  Complete = Complete
INVARIANTS
  OneRecordPerKey
  NeverOvercounted
  KnownOutageHolds
  AtMostOneEffect
  AnswersAreRecorded
  SameSeedSameRun
  PublishedAreSealed
  HeldForReview
  AnswersAreUsable
  BudgetHolds
  CopiesAgree
  CleanExit
PROPERTIES
  PeripherySettles
CHECK_DEADLOCK FALSE
