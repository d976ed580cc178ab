SPECIFICATION FairSpec
CONSTANTS
  Members = {m1, m2}
  Partitions = {t1}
  LogLength = 3
  PoolSize = 2
  Key <- MCKey
  WorkerFor <- MCWorkerFor
  MaxFailures = 2
  MaxRebalances = 1
INVARIANTS
  NothingSkipped
  KeysInOrder
  UnmovedGapsAreInFlight
PROPERTIES
  StopCommitsPrefix
  CommitsMoveForward
  AllCommitted
CHECK_DEADLOCK FALSE
