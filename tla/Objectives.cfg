CONSTANTS
  ann = ann
  bob = bob
  cid = cid
  Nobody = Nobody
  Members <- MCMembers
  Creators <- MCAnn
  Cancellers <- MCAnn
  Reassigners <- MCAnn
  WatchKeepers <- MCNoOne
  Managers <- MCNoOne
  Followers <- MCCid
  Self = bob
  MaxRequests = 2
  MaxHalts = 1
  MaxLost = 1
SPECIFICATION FairSpec
INVARIANT LogExplainsRow
INVARIANT HandoversKeepTheThread
INVARIANT LastWordReachesThem
INVARIANT SilenceIsExplained
INVARIANT PlateIsTrue
PROPERTY TerminalIsFinal
PROPERTY CompletedByItsHolder
PROPERTY PlateConverges
CHECK_DEADLOCK FALSE
