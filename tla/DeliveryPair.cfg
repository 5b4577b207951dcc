CONSTANTS
  alice = alice
  bob = bob
  s1 = s1
  s2 = s2
  s3 = s3
  m1 = m1
  m2 = m2
  k1 = k1
  k2 = k2
  Members = {bob}
  Msgs = {m1}
  Subs = {s1, s2}
  Turns = {1}
  Tokens = {k1, k2}
  NoSub = NoSub
  NoMember = NoMember
  NoToken = NoToken
  MemberOf <- PairMemberOf
  KindOf <- PairKindOf
  TokenOf <- PairTokenOf
  SenderOf <- PairSenderOf
  AudienceOf <- PairAudienceOf
  MaxStarts = 2
SPECIFICATION Spec
INVARIANT LeaseOwnerIsLive
PROPERTY ReassignedAtOnce
CHECK_DEADLOCK FALSE
