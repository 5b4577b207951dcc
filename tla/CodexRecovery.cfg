CONSTANTS
  Turns = {1}
  MaxMsgs = 2
  MaxCopies = 3
  MaxConns = 1
  MaxTurns = 1
  MaxErrors = 1
  MaxSpawns = 1
SPECIFICATION FairSpec
PROPERTY DegradedMeansUnable
CHECK_DEADLOCK FALSE
