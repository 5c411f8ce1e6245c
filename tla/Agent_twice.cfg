SPECIFICATION Spec
CONSTANTS
  w1 = w1
  w2 = w2
  Workers <- TwoWorkers
  MaxJob = 2
  MaxResumes = 0
  Cap = 2
  MayNotStart = {}
  MayHang = {}
  MayDie = {}
INVARIANTS
  OneReportPerJob
CHECK_DEADLOCK FALSE
