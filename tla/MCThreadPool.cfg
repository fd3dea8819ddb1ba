SPECIFICATION FairSpec
CONSTANTS
  Workers = {w1, w2, w3}
  NoTask = NoTask
  Clients = {c1, c2}
  Task = {t1, t2, t3}
INVARIANTS
  TaskInOnePlace
  NoLostWakeup
  WaitAllMeansDone
  DestroyedMeansDone
PROPERTIES
  EveryTaskRuns
  WaitAllReturns
  DestructorReturns
