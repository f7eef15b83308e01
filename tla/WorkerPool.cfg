SPECIFICATION FairSpec
CONSTANTS
  Workers = {w1, w2}
  NJobs = 4
  PoolCap = 2
  Stoppable = {w1}
  NoWorker = NoWorker
INVARIANTS TypeOK OneToken RegisterNeverBlocks AtMostOnce
PROPERTY HandedOverIsExecuted StopLosesAtMostOne
CHECK_DEADLOCK FALSE
