CONSTANTS
  d1 = d1
  a1 = a1
  a2 = a2
  ann = ann
  new = new
  Devices = {d1}
  Approvals = {a1, a2}
  Names = {ann, new}
  InitialMembers = {ann}
  NoToken = NoToken
  NoDevice = NoDevice
  NoName = NoName
  MaxStarts = 2
  MaxBlips = 2
SPECIFICATION FairSpec
INVARIANT SentOnce
INVARIANT OneDecision
INVARIANT TokensAreAccountedFor
INVARIANT ExpiryIsExplained
PROPERTY DevicesStop
CHECK_DEADLOCK FALSE
