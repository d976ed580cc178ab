SPECIFICATION FairSpec
CONSTANTS
  Calls = {c1, c2}
  Rungs = 2
  Threshold = 2
  Cooldown = 1
  RetryAfters = {0, 2}
  RungTimeout = 2
  Reserve = 1
  CallTimeouts = {1, 4}
INVARIANTS OneTrial TimeForRules
PROPERTIES TrippedTrialReopens EveryCallAnswered ProviderRejoins
