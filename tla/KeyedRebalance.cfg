SPECIFICATION Spec
CONSTANTS
  Members = {m1, m2}
  Partitions = {t1}
  LogLength = 3
  PoolSize = 2
  Key <- MCKey
  WorkerFor <- MCWorkerFor
  MaxFailures = 0
  MaxRebalances = 2
SYMMETRY MCSymmetry
INVARIANTS
  GapsAreInFlight
CHECK_DEADLOCK FALSE
