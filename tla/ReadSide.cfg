SPECIFICATION ReadFairSpec
CONSTANTS
  r1 = r1
  r2 = r2
  Records = {r1, r2}
  MaxSpent = 1
  Amount <- MCAmount
  Cost = 1
  MaxScanErrors = 1
  Rows = {1, 2, 3, 4}
  AskedSizes = {0, 1, 9}
  DefaultSize = 2
  MaxSize = 3
  Sides = 2
  Answers <- MCAnswers
  Watched = {r1}
  Viewers = {v1, v2}
  BufferSize = 1
  MaxRestarts = 1
INVARIANTS
  AlarmsOnlyOnMovers
  ReportIsHonest
  WalkMissesNobody
  StreamsAreSound
PROPERTIES
  ReadSideSettles
CHECK_DEADLOCK FALSE
