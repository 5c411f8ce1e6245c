SPECIFICATION LuckySpec
CONSTANTS
  w1 = w1
  w2 = w2
  Workers <- TwoWorkers
  MaxJob = 2
  MaxResumes = 1
  Cap = 1
  MayNotStart <- OneWorker
  MayHang <- OneWorker
  MayDie <- OneWorker
PROPERTIES
  ShutdownCompletes
  EveryJobAnswered
CHECK_DEADLOCK FALSE
