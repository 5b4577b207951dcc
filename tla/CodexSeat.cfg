CONSTANTS
  Turns = {1, 2, 3}
  MaxMsgs = 1
  MaxCopies = 3
  MaxConns = 2
  MaxTurns = 3
  MaxErrors = 1
  MaxSpawns = 2
SPECIFICATION Spec
INVARIANT HandledWasShown
INVARIANT ReceiptsReachTheirTurn
INVARIANT LeasesHaveAnExit
INVARIANT BufferIsDue
PROPERTY SettlementsLand
CHECK_DEADLOCK FALSE
