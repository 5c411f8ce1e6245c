SPECIFICATION MiningSpec
CONSTANTS
  w1 = w1
  w2 = w2
  Workers <- TwoWorkers
  MaxJob = 2
  MaxResumes = 0
  Cap = 2
  MayNotStart <- TwoWorkers
  MayHang <- TwoWorkers
  MayDie <- TwoWorkers
  MaxWork = 1
  LaggingReads = TRUE
  MayBreak = FALSE
SYMMETRY WorkerSymmetry
INVARIANTS
  TypeOK
  WorkerLossStops
  OneStragglerPerWorker
  NoHungWorkerSurvives
  OncePerJob
CHECK_DEADLOCK FALSE
