------------------------- MODULE MCMessageDelivery -------------------------
(***************************************************************************)
(* Instances of MessageDelivery for TLC. Each configuration file names the *)
(* instance it uses by the prefix of the functions below.                  *)
(***************************************************************************)
EXTENDS MessageDelivery, TLC

CONSTANTS alice, bob, s1, s2, s3, m1, m2, k1, k2

(* Pair: two runners of bob with the lease protocol, each on a token of its *)
(* own, and a broadcast by bob himself.                                     *)
PairMemberOf == s1 :> bob @@ s2 :> bob
PairKindOf == s1 :> "state" @@ s2 :> "state"
PairTokenOf == s1 :> k1 @@ s2 :> k2
PairSenderOf == m1 :> bob
PairAudienceOf == m1 :> {bob}

(* Mixed: one runner of every generation on bob's side; alice sends m1.     *)
MixedMemberOf == s1 :> bob @@ s2 :> bob @@ s3 :> bob
MixedKindOf == s1 :> "state" @@ s2 :> "ack" @@ s3 :> "legacy"
MixedTokenOf == s1 :> NoToken @@ s2 :> NoToken @@ s3 :> NoToken
MixedSenderOf == m1 :> alice
MixedAudienceOf == m1 :> {bob}

(* Backlog: two messages for bob, one of alice and one of the system, and   *)
(* one connection of bob's runner.                                          *)
BacklogMemberOf == s1 :> bob
BacklogKindOf == s1 :> "state"
BacklogTokenOf == s1 :> NoToken
BacklogSenderOf == m1 :> alice @@ m2 :> NoMember
BacklogAudienceOf == m1 :> {bob} @@ m2 :> {bob}
=============================================================================
