CONSTANTS
  alice = alice
  bob = bob
  s1 = s1
  s2 = s2
  s3 = s3
  m1 = m1
  m2 = m2
  k1 = k1
  k2 = k2
  Members = {alice, bob}
  Msgs = {m1, m2}
  Subs = {s1}
  Turns = {}
  Tokens = {}
  NoSub = NoSub
  NoMember = NoMember
  NoToken = NoToken
  MemberOf <- BacklogMemberOf
  KindOf <- BacklogKindOf
  TokenOf <- BacklogTokenOf
  SenderOf <- BacklogSenderOf
  AudienceOf <- BacklogAudienceOf
  MaxStarts = 2
SPECIFICATION Spec
INVARIANT SenderIsTold
CHECK_DEADLOCK FALSE
