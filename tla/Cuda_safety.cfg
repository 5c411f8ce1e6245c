SPECIFICATION FairSpec
CONSTANTS
  MaxCount = 4
  Stride = 2
  Every = 2
INVARIANTS
  Inv
  MissTriedAll
  OneWriter
PROPERTIES
  Searches
  JobAnswered
CHECK_DEADLOCK FALSE
