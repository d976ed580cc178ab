SPECIFICATION Spec
CONSTANTS
  Calls = {c1, c2}
  Rungs = 1
  Threshold = 3
  Cooldown = 1
  RetryAfters = {0, 2}
  RungTimeout = 2
  Reserve = 1
  CallTimeouts = {4}
PROPERTY FailedTrialReopens
