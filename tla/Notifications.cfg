CONSTANTS
  bob = bob
  team = team
  d1 = d1
  d2 = d2
  Receipts = {d1, d2}
  Members = {bob}
  Channels = {team}
  Audience <- MCAudience
  Setups <- MCSetups
  Options <- MCOptions
  Own <- Patient
  Debounced = TRUE
  DebounceMax = 2
  NoTarget = NoTarget
  MaxAsks = 2
  MaxHalts = 1
SPECIFICATION FairSpec
INVARIANT PendingIsHeld
INVARIANT QueueIsTrue
INVARIANT OncePerTarget
PROPERTY ReceiptsSettle
