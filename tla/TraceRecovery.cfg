CONSTANTS
  MaxQueue = 2
  MaxBatch = 1
  MaxToken = 1
  MaxEvents = 3
  MaxAsks = 1
  MaxKeyed = 1
  MaxRepeats = 1
SPECIFICATION FairSpec
CHECK_DEADLOCK FALSE
PROPERTY RecoversAfterReenrolment
