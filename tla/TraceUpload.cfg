CONSTANTS
  MaxQueue = 2
  MaxBatch = 2
  MaxToken = 1
  MaxEvents = 2
  MaxAsks = 1
  MaxKeyed = 1
  MaxRepeats = 1
SPECIFICATION FairSpec
INVARIANT AllAccountedFor
INVARIANT OvershootIsBounded
PROPERTY ClosedForGood
PROPERTY ImplementsOutbox
PROPERTY EarlyOnlyBehindBacklog
PROPERTY BacklogDrains
PROPERTY CloseReturns
CHECK_DEADLOCK FALSE
