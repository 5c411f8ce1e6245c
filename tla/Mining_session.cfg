SPECIFICATION FairMining
CONSTANTS
  w1 = w1
  w2 = w2
  Workers <- OneWorker
  MaxJob = 2
  MaxResumes = 1
  Cap = 3
  MayNotStart = {}
  MayHang <- OneWorker
  MayDie <- OneWorker
  MaxWork = 1
  LaggingReads = FALSE
  MayBreak = TRUE
PROPERTIES
  JobServed
  EndTogether
CHECK_DEADLOCK FALSE
