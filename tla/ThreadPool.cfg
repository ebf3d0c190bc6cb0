CONSTANTS
  Tasks = {t1,t2,t3}
  Workers = {w1,w2}
  Producers = {p1,p2}
  QueueSize = 1
  FlagReads = {TRUE,FALSE}
  None = None
  Free = Free
  CreateMayFail = TRUE
SPECIFICATION FairSpec
INVARIANTS
  QueueIsSafe
  NoSignalIsLost
  TypeOK
  LockOwned
  EachTaskOnce
  StopCompletesWork
PROPERTIES
  QueuedTasksRun
  StopReturns
  PoolSpec
CHECK_DEADLOCK FALSE
