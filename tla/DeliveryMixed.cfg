CONSTANTS
  alice = alice
  bob = bob
  s1 = s1
  s2 = s2
  s3 = s3
  m1 = m1
  m2 = m2
  k1 = k1
  k2 = k2
  Members = {alice, bob}
  Msgs = {m1}
  Subs = {s1, s2, s3}
  Turns = {1}
  Tokens = {}
  NoSub = NoSub
  NoMember = NoMember
  NoToken = NoToken
  MemberOf <- MixedMemberOf
  KindOf <- MixedKindOf
  TokenOf <- MixedTokenOf
  SenderOf <- MixedSenderOf
  AudienceOf <- MixedAudienceOf
  MaxStarts = 2
SPECIFICATION FairSpec
INVARIANT RefusalNoticesAreTrue
INVARIANT NotPassedOver
PROPERTY KeepsPromise
PROPERTY EveryMessageSettles
CHECK_DEADLOCK FALSE
