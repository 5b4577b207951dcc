----------------------- MODULE MessageDeliveryProofs -----------------------
(***************************************************************************)
(* Proofs about MessageDelivery, for every team, set of messages, set of   *)
(* subscriptions and assignment of kinds, tokens, senders and audiences.   *)
(***************************************************************************)
EXTENDS MessageDelivery, FiniteSetTheorems, WellFoundedInduction, TLAPS

(* Releasing the leases of a set of subscriptions keeps a row well formed.  *)
LEMMA ReleasedRowType ==
    ASSUME TypeOK, NEW r \in Rows, NEW S \in SUBSET Subs
    PROVE  ReleasedRow(r, S) \in RowRecord
<1>1. row[r] \in RowRecord
  BY DEF TypeOK
<1>2. CASE \E s \in S : MemberOf[s] = r[2] /\ Leased(r, s)
  <2>1. row[r].owner \in Subs
    BY <1>2 DEF Leased
  <2>2. QED
    BY <1>1, <1>2, <2>1 DEF ReleasedRow, RowRecord, RowStates, Open
<1>3. CASE ~ \E s \in S : MemberOf[s] = r[2] /\ Leased(r, s)
  BY <1>1, <1>3 DEF ReleasedRow
<1>4. QED
  BY <1>2, <1>3

LEMMA ReleaseOwnersType ==
    ASSUME TypeOK, NEW S \in SUBSET Subs, ReleaseOwners(S)
    PROVE  row' \in [Rows -> RowRecord]
BY ReleasedRowType DEF ReleaseOwners

LEMMA DegradeType ==
    ASSUME TypeOK, NEW k, NEW order \in [k -> Subs], DegradeInOrder(order)
    PROVE  /\ cond' \in [Subs -> {"none", "ready", "degraded"}]
           /\ row' \in [Rows -> RowRecord]
           /\ resend' \in [Subs -> SUBSET Msgs]
<1> DEFINE gone == {order[i] : i \in DOMAIN order}
<1>1. gone \in SUBSET Subs
  OBVIOUS
<1>2. cond' = [s \in Subs |-> IF s \in gone THEN "degraded" ELSE cond[s]]
  BY DEF DegradeInOrder
<1>3. ReleaseOwners(gone)
  BY DEF DegradeInOrder
<1>4. PICK to : resend' = [s \in Subs |-> resend[s] \cup Redelivered(order, to, s)]
  BY DEF DegradeInOrder
<1>5. \A s \in Subs : Redelivered(order, to, s) \in SUBSET Msgs
  BY DEF Redelivered
<1>6. resend' \in [Subs -> SUBSET Msgs]
  BY <1>4, <1>5 DEF TypeOK
<1> HIDE DEF gone
<1>7. cond' \in [Subs -> {"none", "ready", "degraded"}]
  BY <1>2 DEF TypeOK
<1>8. QED
  BY <1>1, <1>3, <1>6, <1>7, ReleaseOwnersType
-----------------------------------------------------------------------------
LEMMA NoTurnsType == NoTurns \in [Turns -> {"none", "open", "overdue"}]
BY DEF NoTurns

LEMMA ForgetSubsType ==
    ASSUME TypeOK, NEW S \in SUBSET Subs,
           NEW next \in {"closing", "closed"}, ForgetSubs(S, next)
    PROVE  /\ conn' \in [Subs -> {"new", "live", "closing", "closed"}]
           /\ cond' \in [Subs -> {"none", "ready", "degraded"}]
           /\ turns' \in [Subs -> [Turns -> {"none", "open", "overdue"}]]
           /\ row' \in [Rows -> RowRecord]
<1>1. row' \in [Rows -> RowRecord]
  BY ReleaseOwnersType DEF ForgetSubs
<1>2. QED
  BY <1>1, NoTurnsType DEF ForgetSubs, TypeOK

(* The updates of a row the ledger makes keep it well formed.               *)
LEMMA RowUpdates ==
    ASSUME NEW x \in RowRecord, NEW s \in Subs
    PROVE  /\ [x EXCEPT !.st = "accepted", !.owner = s] \in RowRecord
           /\ [x EXCEPT !.st = "pending", !.owner = NoSub,
                        !.released = @ \cup {s}] \in RowRecord
           /\ \A d \in Terminal :
                 [x EXCEPT !.st = d, !.owner = NoSub, !.by = s] \in RowRecord
           /\ [x EXCEPT !.st = "unreported", !.by = s] \in RowRecord
BY DEF RowRecord, RowStates, Terminal, Open

LEMMA RowResets ==
    ASSUME NEW x \in RowRecord
    PROVE  /\ [x EXCEPT !.st = "refused", !.owner = NoSub, !.kept = FALSE] \in RowRecord
           /\ [x EXCEPT !.kept = FALSE] \in RowRecord
           /\ [x EXCEPT !.released = {}] \in RowRecord
           /\ [x EXCEPT !.st = "pending", !.owner = NoSub, !.released = {}] \in RowRecord
BY DEF RowRecord, RowStates, Terminal, Open

(* The row a frame of s about m names is a row of the table.                *)
LEMMA RowOf ==
    ASSUME TypeOK, NEW s \in Subs, NEW m \in Msgs
    PROVE  /\ <<m, MemberOf[s]>> \in Rows
           /\ row[<<m, MemberOf[s]>>] \in RowRecord
BY ConstantsOK DEF Rows, TypeOK

(* Types: every variable keeps its shape in every reachable state.          *)
THEOREM TypeCorrect == Spec => []TypeOK
<1>1. Init => TypeOK
  <2>1. NoRow \in RowRecord
    BY DEF NoRow, RowRecord, RowStates
  <2>2. QED
    BY <2>1, NoTurnsType DEF Init, TypeOK
<1>2. TypeOK /\ [Next]_vars => TypeOK'
  <2> SUFFICES ASSUME TypeOK, [Next]_vars PROVE TypeOK'
    OBVIOUS
  <2> USE DEF sessionVars
  <2>1. ASSUME NEW m \in Msgs, PushAppend(m) PROVE TypeOK'
    BY <2>1 DEF PushAppend, TypeOK
  <2>2. ASSUME NEW m \in Msgs, PushDeliver(m) PROVE TypeOK'
    <3>1. \A r \in Rows : TrackedRow(r) \in RowRecord
      BY DEF TrackedRow, NoRow, RowRecord, RowStates, Open, TypeOK
    <3>2. row' \in [Rows -> RowRecord]
      BY <2>2, <3>1 DEF PushDeliver, TypeOK
    <3>3. got' \in [Subs -> SUBSET Msgs]
      <4>1. PICK pick : got' = [s \in Subs |-> IF FanoutReaches(m, s, pick)
                                    THEN got[s] \cup {m} ELSE got[s]]
        BY <2>2 DEF PushDeliver
      <4>2. QED
        BY <4>1 DEF TypeOK
    <3>4. QED
      BY <2>2, <3>2, <3>3 DEF PushDeliver, TypeOK
  <2>3. ASSUME NEW m \in Msgs, Age(m) PROVE TypeOK'
    BY <2>3 DEF Age, TypeOK
  <2>4. ASSUME NEW s \in Subs, Subscribe(s) PROVE TypeOK'
    BY <2>4 DEF Subscribe, PendingOf, TypeOK
  <2>5. ASSUME NEW s \in Subs, Close(s) PROVE TypeOK'
    BY <2>5, ForgetSubsType DEF Close, TypeOK
  <2>6. ASSUME NEW s \in Subs, CloseDrained(s) PROVE TypeOK'
    BY <2>6 DEF CloseDrained, TypeOK
  <2>7. ASSUME NEW s \in Subs, ConditionDegraded(s) PROVE TypeOK'
    <3>1. [i \in {1} |-> s] \in [{1} -> Subs]
      OBVIOUS
    <3>2. QED
      BY <2>7, <3>1, DegradeType DEF ConditionDegraded, TypeOK
  <2>8. ASSUME NEW s \in Subs, ConditionReady(s) PROVE TypeOK'
    BY <2>8 DEF ConditionReady, PendingOf, TypeOK
  <2>9. ASSUME NEW s \in Subs, NEW t \in Turns, TurnStarted(s, t) PROVE TypeOK'
    BY <2>9 DEF TurnStarted, TypeOK
  <2>10. ASSUME NEW s \in Subs, NEW t \in Turns, AgeTurn(s, t) PROVE TypeOK'
    BY <2>10 DEF AgeTurn, TypeOK
  <2>11. ASSUME NEW s \in Subs, NEW t \in Turns, NEW failed \in BOOLEAN,
                TurnCompleted(s, t, failed)
         PROVE  TypeOK'
    <3>1. [i \in {1} |-> s] \in [{1} -> Subs]
      OBVIOUS
    <3>2. /\ cond' \in [Subs -> {"none", "ready", "degraded"}]
          /\ row' \in [Rows -> RowRecord]
          /\ resend' \in [Subs -> SUBSET Msgs]
      <4>1. CASE DegradeInOrder([i \in {1} |-> s])
        BY <4>1, <3>1, DegradeType
      <4>2. CASE UNCHANGED <<cond, row, resend>>
        BY <4>2 DEF TypeOK
      <4>3. QED
        BY <2>11, <4>1, <4>2 DEF TurnCompleted
    <3>3. QED
      BY <2>11, <3>2 DEF TurnCompleted, TypeOK
  <2>12. ASSUME NEW s \in Subs, NEW m \in Msgs, Accept(s, m) PROVE TypeOK'
    <3>1. [row[<<m, MemberOf[s]>>] EXCEPT !.st = "accepted", !.owner = s] \in RowRecord
      BY RowOf, RowUpdates
    <3>2. QED
      BY <2>12, <3>1, RowOf DEF Accept, TypeOK
  <2>13. ASSUME NEW s \in Subs, NEW m \in Msgs, Defer(s, m) PROVE TypeOK'
    <3> DEFINE r == <<m, MemberOf[s]>>
    <3>1. [row[r] EXCEPT !.st = "pending", !.owner = NoSub,
                         !.released = row[r].released \cup {s}] \in RowRecord
      BY RowOf, RowUpdates
    <3>2. row' = [row EXCEPT ![r] =
                    [row[r] EXCEPT !.st = "pending", !.owner = NoSub,
                                   !.released = row[r].released \cup {s}]]
      BY <2>13 DEF Defer
    <3>3. row' \in [Rows -> RowRecord]
      BY <3>1, <3>2, RowOf DEF TypeOK
    <3>4. QED
      BY <2>13, <3>3 DEF Defer, TypeOK
  <2>14. ASSUME NEW s \in Subs, NEW m \in Msgs,
                NEW d \in {"acted", "handled", "refused"}, Settle(s, m, d)
         PROVE  TypeOK'
    <3>1. [row[<<m, MemberOf[s]>>] EXCEPT !.st = d, !.owner = NoSub, !.by = s] \in RowRecord
      BY RowOf, RowUpdates DEF Terminal
    <3>2. row' \in [Rows -> RowRecord]
      BY <2>14, <3>1, RowOf DEF Settle, TypeOK
    <3>3. owed' \in SUBSET Rows
      BY <2>14, RowOf DEF Settle, NoticesFor, TypeOK
    <3>4. QED
      BY <2>14, <3>2, <3>3 DEF Settle, TypeOK
  <2>15. ASSUME NEW s \in Subs, NEW m \in Msgs, ResendOne(s, m) PROVE TypeOK'
    <3>1. [row[<<m, MemberOf[s]>>] EXCEPT !.st = "unreported", !.by = s] \in RowRecord
      BY RowOf, RowUpdates DEF Terminal
    <3>2. row' \in [Rows -> RowRecord]
      BY <2>15, <3>1, RowOf DEF ResendOne, TypeOK
    <3>3. QED
      BY <2>15, <3>2 DEF ResendOne, TypeOK
  <2>16. ASSUME NEW r \in Rows, NotifySender(r) PROVE TypeOK'
    BY <2>16 DEF NotifySender, TypeOK
  <2>17. ASSUME NEW k \in Tokens, BlockToken(k) PROVE TypeOK'
    <3> DEFINE hit == {s \in Subs : conn[s] = "live" /\ TokenOf[s] \in revoked \cup {k}}
    <3>1. row' \in [Rows -> RowRecord]
      <4>1. ReleaseOwners(hit) /\ hit \in SUBSET Subs
        BY <2>17 DEF BlockToken
      <4> HIDE DEF hit
      <4>2. QED
        BY <4>1, ReleaseOwnersType
    <3>2. resend' \in [Subs -> SUBSET Msgs]
      <4> DEFINE members == {MemberOf[s] : s \in hit}
      <4>1. PICK to : resend' = [s \in Subs |->
                    IF MemberOf[s] \in members /\ to[MemberOf[s]] = s
                    THEN resend[s] \cup PendingAfter(MemberOf[s], hit)
                    ELSE resend[s]]
        BY <2>17 DEF BlockToken
      <4>2. \A s \in Subs : PendingAfter(MemberOf[s], hit) \in SUBSET Msgs
        BY DEF PendingAfter, PendingOf
      <4> HIDE DEF hit, members
      <4>3. QED
        BY <4>1, <4>2 DEF TypeOK
    <3>3. QED
      BY <2>17, <3>1, <3>2 DEF BlockToken, TypeOK
  <2>18. ASSUME SweepOpenTurns PROVE TypeOK'
    <3>1. PICK order \in Orders(Overdue) : DegradeInOrder(order)
      BY <2>18 DEF SweepOpenTurns
    <3>2. order \in [1..Cardinality(Overdue) -> Subs]
      BY <3>1 DEF Orders, Overdue
    <3>3. turns' \in [Subs -> [Turns -> {"none", "open", "overdue"}]]
      BY <2>18 DEF SweepOpenTurns, TypeOK
    <3>4. QED
      BY <2>18, <3>1, <3>2, <3>3, DegradeType DEF SweepOpenTurns, TypeOK
  <2>19. ASSUME SweepExpired PROVE TypeOK'
    <3>1. row' \in [Rows -> RowRecord]
      BY <2>19, RowResets DEF SweepExpired, TypeOK
    <3>2. owed' \in SUBSET Rows
      BY <2>19 DEF SweepExpired, NoticesFor, TypeOK
    <3>3. QED
      BY <2>19, <3>1, <3>2 DEF SweepExpired, TypeOK
  <2>20. ASSUME Shutdown PROVE TypeOK'
    <3>1. Live \in SUBSET Subs
      BY DEF Live
    <3>2. QED
      BY <2>20, <3>1, ForgetSubsType DEF Shutdown, TypeOK
  <2>21. ASSUME Halt PROVE TypeOK'
    BY <2>21, NoTurnsType DEF Halt, TypeOK
  <2>22. ASSUME Restart PROVE TypeOK'
    <3>1. \A r \in Rows : RecoveredRow(r) \in RowRecord
      BY RowResets DEF RecoveredRow, TypeOK
    <3>2. row' \in [Rows -> RowRecord]
      BY <2>22, <3>1 DEF Restart
    <3>3. QED
      BY <2>22, <3>2 DEF Restart, TypeOK
  <2>23. CASE UNCHANGED vars
    BY <2>23 DEF vars, TypeOK
  <2>24. QED
    BY <2>1, <2>2, <2>3, <2>4, <2>5, <2>6, <2>7, <2>8, <2>9, <2>10, <2>11,
       <2>12, <2>13, <2>14, <2>15, <2>16, <2>17, <2>18, <2>19, <2>20, <2>21,
       <2>22, <2>23 DEF Next
<1>3. QED
  BY <1>1, <1>2, PTL DEF Spec
-----------------------------------------------------------------------------
(* Only a draining server has sockets it has unsubscribed but not closed,   *)
(* and a stopped one has no socket at all.                                  *)
SocketsFollowServer ==
    /\ server = "up" => \A s \in Subs : conn[s] # "closing"
    /\ server = "down" => \A s \in Subs : conn[s] \in {"new", "closed"}

LEMMA SocketsFollow == Spec => []SocketsFollowServer
<1>1. Init => SocketsFollowServer
  BY DEF Init, SocketsFollowServer
<1>2. TypeOK /\ SocketsFollowServer /\ [Next]_vars => SocketsFollowServer'
  <2> SUFFICES ASSUME TypeOK, SocketsFollowServer, [Next]_vars
               PROVE  SocketsFollowServer'
    OBVIOUS
  <2>1. CASE UNCHANGED <<server, conn>>
    BY <2>1 DEF SocketsFollowServer
  <2>2. ASSUME NEW s \in Subs, Subscribe(s) \/ Close(s) \/ CloseDrained(s)
        PROVE  SocketsFollowServer'
    BY <2>2 DEF Subscribe, Close, CloseDrained, ForgetSubs, Running,
                SocketsFollowServer, TypeOK
  <2>3. CASE Shutdown \/ Halt \/ Restart
    BY <2>3 DEF Shutdown, Halt, Restart, sessionVars, SocketsFollowServer, TypeOK
  <2>4. QED
    BY ZenonT(60), <2>1, <2>2, <2>3
    DEF Next, vars, sessionVars, PushAppend, PushDeliver, Age, ConditionDegraded,
        ConditionReady, TurnStarted, AgeTurn, TurnCompleted, Accept, Defer,
        ResendOne, Settle, NotifySender, BlockToken, SweepOpenTurns, SweepExpired
<1>3. QED
  BY <1>1, <1>2, TypeCorrect, PTL DEF Spec

(* After the leases of S are released, a row that is still leased is one    *)
(* that has not changed and whose owner is not in S.                        *)
LEMMA ReleaseKeepsOthers ==
    ASSUME TypeOK, NEW S \in SUBSET Subs, ReleaseOwners(S),
           NEW r \in Rows, HasLease(r)', HasLease(r) => OwnerIsLive(r)
    PROVE  HasLease(r) /\ row'[r] = row[r] /\ row[r].owner \notin S
<1>1. row'[r] = ReleasedRow(r, S)
  BY DEF ReleaseOwners
<1>2. ~ \E s \in S : MemberOf[s] = r[2] /\ Leased(r, s)
  <2>1. SUFFICES ASSUME \E s \in S : MemberOf[s] = r[2] /\ Leased(r, s) PROVE FALSE
    OBVIOUS
  <2>2. row'[r].st = "pending"
    BY <1>1, <2>1 DEF ReleasedRow, TypeOK, RowRecord
  <2>3. QED
    BY <2>2 DEF HasLease
<1>3. row'[r] = row[r]
  BY <1>1, <1>2 DEF ReleasedRow
<1>4. HasLease(r)
  BY <1>3 DEF HasLease
<1>5. QED
  BY <1>2, <1>3, <1>4 DEF OwnerIsLive, Leased, HasLease

(* A frame changes the one row it names.                                    *)
LEMMA OneRowChanged ==
    ASSUME TypeOK, NEW q \in Rows, NEW x, row' = [row EXCEPT ![q] = x]
    PROVE  row'[q] = x /\ \A r \in Rows : r # q => row'[r] = row[r]
BY DEF TypeOK

LEMMA AcceptChanges ==
    ASSUME TypeOK, NEW s \in Subs, NEW m \in Msgs, Accept(s, m)
    PROVE  /\ row'[<<m, MemberOf[s]>>] =
                  [row[<<m, MemberOf[s]>>] EXCEPT !.st = "accepted", !.owner = s]
           /\ \A x \in Rows : x # <<m, MemberOf[s]>> => row'[x] = row[x]
<1> DEFINE q == <<m, MemberOf[s]>>
<1>1. q \in Rows
  BY RowOf
<1>2. row' = [row EXCEPT ![q] = [row[q] EXCEPT !.st = "accepted", !.owner = s]]
  BY DEF Accept
<1> HIDE DEF q
<1>3. /\ row'[q] = [row[q] EXCEPT !.st = "accepted", !.owner = s]
      /\ \A x \in Rows : x # q => row'[x] = row[x]
  BY <1>1, <1>2, OneRowChanged
<1>4. QED
  BY <1>3 DEF q

LEMMA DeferChanges ==
    ASSUME TypeOK, NEW s \in Subs, NEW m \in Msgs, Defer(s, m)
    PROVE  /\ row'[<<m, MemberOf[s]>>].st = "pending"
           /\ \A x \in Rows : x # <<m, MemberOf[s]>> => row'[x] = row[x]
<1> DEFINE q == <<m, MemberOf[s]>>
<1>1. q \in Rows /\ row[q] \in RowRecord
  BY RowOf
<1>2. row' = [row EXCEPT ![q] = [row[q] EXCEPT !.st = "pending", !.owner = NoSub,
                                               !.released = row[q].released \cup {s}]]
  BY DEF Defer
<1> HIDE DEF q
<1>3. /\ row'[q] = [row[q] EXCEPT !.st = "pending", !.owner = NoSub,
                                  !.released = row[q].released \cup {s}]
      /\ \A x \in Rows : x # q => row'[x] = row[x]
  BY <1>1, <1>2, OneRowChanged
<1>4. row'[q].st = "pending"
  BY <1>1, <1>3 DEF RowRecord
<1>5. QED
  BY <1>3, <1>4 DEF q

LEMMA SettleChanges ==
    ASSUME TypeOK, NEW s \in Subs, NEW m \in Msgs, NEW d, Settle(s, m, d)
    PROVE  /\ row'[<<m, MemberOf[s]>>].st = d
           /\ \A x \in Rows : x # <<m, MemberOf[s]>> => row'[x] = row[x]
<1> DEFINE q == <<m, MemberOf[s]>>
<1>1. q \in Rows /\ row[q] \in RowRecord
  BY RowOf
<1>2. row' = [row EXCEPT ![q] = [row[q] EXCEPT !.st = d, !.owner = NoSub, !.by = s]]
  BY DEF Settle
<1> HIDE DEF q
<1>3. /\ row'[q] = [row[q] EXCEPT !.st = d, !.owner = NoSub, !.by = s]
      /\ \A x \in Rows : x # q => row'[x] = row[x]
  BY <1>1, <1>2, OneRowChanged
<1>4. row'[q].st = d
  BY <1>1, <1>3 DEF RowRecord
<1>5. QED
  BY <1>3, <1>4 DEF q

(* Sockets neither close nor lose what they were sent, and no row becomes   *)
(* leased: then owners stay live.                                           *)
LEMMA OwnersStayLive ==
    ASSUME TypeOK, LeaseOwnerIsLive, server = "up",
           \A s \in Subs : conn[s] = "live" => conn'[s] = "live" /\ got[s] \subseteq got'[s],
           \A r \in Rows : HasLease(r)' => HasLease(r) /\ row'[r] = row[r]
    PROVE  LeaseOwnerIsLive'
BY DEF LeaseOwnerIsLive, OwnerIsLive, HasLease, SupportsDisposition

(* Leases: the owner of a lease is always a live subscription of the        *)
(* addressed member that was sent the message.                              *)
THEOREM LeasesHaveLiveOwners == Spec => []LeaseOwnerIsLive
<1>1. Init => LeaseOwnerIsLive
  BY DEF Init, LeaseOwnerIsLive, HasLease, NoRow
<1>2. TypeOK /\ SocketsFollowServer /\ LeaseOwnerIsLive /\ [Next]_vars
         => LeaseOwnerIsLive'
  <2> SUFFICES ASSUME TypeOK, SocketsFollowServer, LeaseOwnerIsLive, [Next]_vars,
                      server' = "up"
               PROVE  LeaseOwnerIsLive'
    BY DEF LeaseOwnerIsLive
  <2> USE DEF sessionVars
  <2>0. \A r \in Rows : server = "up" /\ HasLease(r) => OwnerIsLive(r)
    BY DEF LeaseOwnerIsLive
  <2>1. ASSUME NEW m \in Msgs, PushAppend(m) PROVE LeaseOwnerIsLive'
    BY <2>1 DEF PushAppend, LeaseOwnerIsLive, HasLease, OwnerIsLive
  <2>2. ASSUME NEW m \in Msgs, PushDeliver(m) PROVE LeaseOwnerIsLive'
    <3>1. \A r \in Rows : HasLease(r)' => HasLease(r) /\ row'[r] = row[r]
      BY <2>2 DEF PushDeliver, TrackedRow, NoRow, HasLease, TypeOK
    <3>2. \A s \in Subs : got[s] \subseteq got'[s]
      <4>1. PICK pick : got' = [s \in Subs |-> IF FanoutReaches(m, s, pick)
                                    THEN got[s] \cup {m} ELSE got[s]]
        BY <2>2 DEF PushDeliver
      <4>2. QED
        BY <4>1
    <3>3. QED
      BY <2>2, <3>1, <3>2, OwnersStayLive DEF PushDeliver
  <2>3. ASSUME NEW m \in Msgs, Age(m) PROVE LeaseOwnerIsLive'
    BY <2>3 DEF Age, LeaseOwnerIsLive, HasLease, OwnerIsLive
  <2>4. ASSUME NEW s \in Subs, Subscribe(s) PROVE LeaseOwnerIsLive'
    <3>1. \A x \in Subs : conn[x] = "live" => conn'[x] = "live"
      BY <2>4 DEF Subscribe, TypeOK
    <3>2. QED
      BY <2>4, <3>1, OwnersStayLive DEF Subscribe, HasLease
  <2>5. ASSUME NEW s \in Subs, Close(s) PROVE LeaseOwnerIsLive'
    <3>1. server = "up" /\ ReleaseOwners({s}) /\ got' = got
      BY <2>5 DEF Close, ForgetSubs
    <3>2. \A x \in Subs : x # s => conn'[x] = conn[x]
      BY <2>5 DEF Close, ForgetSubs
    <3>3. ASSUME NEW r \in Rows, HasLease(r)' PROVE OwnerIsLive(r)'
      <4>1. HasLease(r) /\ row'[r] = row[r] /\ row[r].owner # s
        BY <2>0, <3>1, <3>3, ReleaseKeepsOthers
      <4>2. QED
        BY <2>0, <3>1, <3>2, <4>1 DEF OwnerIsLive, SupportsDisposition
    <3>4. QED
      BY <3>3 DEF LeaseOwnerIsLive
  <2>6. ASSUME NEW s \in Subs, CloseDrained(s) PROVE LeaseOwnerIsLive'
    <3>1. \A x \in Subs : conn[x] = "live" => conn'[x] = "live"
      BY <2>6 DEF CloseDrained, TypeOK
    <3>2. QED
      BY <2>6, <3>1, OwnersStayLive DEF CloseDrained, HasLease
  <2>7. ASSUME NEW S \in SUBSET Subs, ReleaseOwners(S), server = "up",
               UNCHANGED <<conn, got>>
        PROVE  LeaseOwnerIsLive'
    <3>1. \A r \in Rows : HasLease(r)' => HasLease(r) /\ row'[r] = row[r]
      BY <2>0, <2>7, ReleaseKeepsOthers
    <3>2. QED
      BY <2>7, <3>1, OwnersStayLive
  <2>8. ASSUME NEW k, NEW order \in [k -> Subs], DegradeInOrder(order),
               server = "up", UNCHANGED <<conn, got>>
        PROVE  LeaseOwnerIsLive'
    <3> DEFINE gone == {order[i] : i \in DOMAIN order}
    <3>1. gone \in SUBSET Subs /\ ReleaseOwners(gone)
      BY <2>8 DEF DegradeInOrder
    <3> HIDE DEF gone
    <3>2. QED
      BY <2>7, <2>8, <3>1
  <2>9. ASSUME NEW s \in Subs, ConditionDegraded(s) PROVE LeaseOwnerIsLive'
    <3>1. [i \in {1} |-> s] \in [{1} -> Subs]
      OBVIOUS
    <3>2. QED
      BY <2>8, <2>9, <3>1 DEF ConditionDegraded
  <2>10. ASSUME NEW s \in Subs, ConditionReady(s) PROVE LeaseOwnerIsLive'
    BY <2>10 DEF ConditionReady, LeaseOwnerIsLive, HasLease, OwnerIsLive
  <2>11. ASSUME NEW s \in Subs, NEW t \in Turns, TurnStarted(s, t) PROVE LeaseOwnerIsLive'
    BY <2>11 DEF TurnStarted, LeaseOwnerIsLive, HasLease, OwnerIsLive
  <2>12. ASSUME NEW s \in Subs, NEW t \in Turns, AgeTurn(s, t) PROVE LeaseOwnerIsLive'
    BY <2>12 DEF AgeTurn, LeaseOwnerIsLive, HasLease, OwnerIsLive
  <2>13. ASSUME NEW s \in Subs, NEW t \in Turns, NEW failed \in BOOLEAN,
                TurnCompleted(s, t, failed)
         PROVE  LeaseOwnerIsLive'
    <3>1. [i \in {1} |-> s] \in [{1} -> Subs]
      OBVIOUS
    <3>2. CASE DegradeInOrder([i \in {1} |-> s])
      BY <2>8, <2>13, <3>1, <3>2 DEF TurnCompleted
    <3>3. CASE UNCHANGED row
      BY <2>13, <3>3 DEF TurnCompleted, LeaseOwnerIsLive, HasLease, OwnerIsLive
    <3>4. QED
      BY <2>13, <3>2, <3>3 DEF TurnCompleted
  <2>14. ASSUME NEW s \in Subs, NEW m \in Msgs, Accept(s, m) PROVE LeaseOwnerIsLive'
    <3> DEFINE q == <<m, MemberOf[s]>>
    <3>1. /\ server = "up" /\ conn[s] = "live"
          /\ SupportsDisposition(s) /\ m \in got[s]
          /\ UNCHANGED <<conn, got>>
      BY <2>14 DEF Accept, FrameFrom, SocketsFollowServer
    <3>2. /\ row'[q].owner = s
          /\ \A r \in Rows : r # q => row'[r] = row[r]
      <4>1. /\ row'[q] = [row[q] EXCEPT !.st = "accepted", !.owner = s]
            /\ \A r \in Rows : r # q => row'[r] = row[r]
        BY <2>14, AcceptChanges
      <4>2. row[q] \in RowRecord
        BY RowOf
      <4> HIDE DEF q
      <4>3. QED
        BY <4>1, <4>2 DEF RowRecord
    <3>3. ASSUME NEW r \in Rows, HasLease(r)' PROVE OwnerIsLive(r)'
      <4>1. CASE r = q
        <5>1. r[1] = m /\ r[2] = MemberOf[s]
          BY <4>1
        <5>2. QED
          BY <3>1, <3>2, <4>1, <5>1 DEF OwnerIsLive, SupportsDisposition
      <4>2. CASE r # q
        BY <2>0, <3>1, <3>2, <3>3, <4>2 DEF HasLease, OwnerIsLive, SupportsDisposition
      <4>3. QED
        BY <4>1, <4>2
    <3>4. QED
      BY <3>3 DEF LeaseOwnerIsLive
  <2>15. ASSUME NEW r \in Rows, server = "up", UNCHANGED conn,
                \A s \in Subs : got[s] \subseteq got'[s],
                row'[r].st # "accepted" \/ row'[r] = row[r],
                \A x \in Rows : x # r => row'[x] = row[x]
         PROVE  LeaseOwnerIsLive'
    <3>1. \A x \in Rows : HasLease(x)' => HasLease(x) /\ row'[x] = row[x]
      BY <2>15 DEF HasLease
    <3>2. QED
      BY <2>15, <3>1, OwnersStayLive
  <2>16. ASSUME NEW s \in Subs, NEW m \in Msgs, Defer(s, m) PROVE LeaseOwnerIsLive'
    <3> DEFINE q == <<m, MemberOf[s]>>
    <3>1. row'[q].st = "pending" /\ \A x \in Rows : x # q => row'[x] = row[x]
      BY <2>16, DeferChanges
    <3>2. q \in Rows
      BY RowOf
    <3>3. UNCHANGED <<server, conn, got>>
      BY <2>16 DEF Defer, sessionVars
    <3>4. server = "up"
      BY <3>3
    <3> HIDE DEF q
    <3>5. QED
      BY <2>15, <3>1, <3>2, <3>3, <3>4
  <2>17. ASSUME NEW s \in Subs, NEW m \in Msgs, ResendOne(s, m) PROVE LeaseOwnerIsLive'
    <3> DEFINE q == <<m, MemberOf[s]>>
    <3>1. row'[q].st # "accepted" \/ row'[q] = row[q]
      BY <2>17, RowOf DEF ResendOne, TypeOK, RowRecord
    <3>2. \A x \in Rows : x # q => row'[x] = row[x]
      BY <2>17 DEF ResendOne, TypeOK
    <3>3. \A x \in Subs : got[x] \subseteq got'[x]
      BY <2>17 DEF ResendOne, TypeOK
    <3> HIDE DEF q
    <3>4. q \in Rows
      BY RowOf DEF q
    <3>5. QED
      BY <2>15, <2>17, <3>1, <3>2, <3>3, <3>4 DEF ResendOne
  <2>18. ASSUME NEW s \in Subs, NEW m \in Msgs,
                NEW d \in {"acted", "handled", "refused"}, Settle(s, m, d)
         PROVE  LeaseOwnerIsLive'
    <3> DEFINE q == <<m, MemberOf[s]>>
    <3>1. row'[q].st = d /\ \A x \in Rows : x # q => row'[x] = row[x]
      BY <2>18, SettleChanges
    <3>2. q \in Rows
      BY RowOf
    <3>3. UNCHANGED <<server, conn, got>>
      BY <2>18 DEF Settle, sessionVars
    <3>4. server = "up"
      BY <3>3
    <3> HIDE DEF q
    <3>5. QED
      BY <2>15, <3>1, <3>2, <3>3, <3>4
  <2>19. ASSUME NEW r \in Rows, NotifySender(r) PROVE LeaseOwnerIsLive'
    BY <2>19 DEF NotifySender, LeaseOwnerIsLive, HasLease, OwnerIsLive
  <2>20. ASSUME NEW k \in Tokens, BlockToken(k) PROVE LeaseOwnerIsLive'
    <3> DEFINE hit == {s \in Subs : conn[s] = "live" /\ TokenOf[s] \in revoked \cup {k}}
    <3>1. ReleaseOwners(hit) /\ hit \in SUBSET Subs
      BY <2>20 DEF BlockToken
    <3> HIDE DEF hit
    <3>2. QED
      BY <2>7, <2>20, <3>1 DEF BlockToken
  <2>21. ASSUME SweepOpenTurns PROVE LeaseOwnerIsLive'
    <3>1. PICK order \in Orders(Overdue) : DegradeInOrder(order)
      BY <2>21 DEF SweepOpenTurns
    <3>2. order \in [1..Cardinality(Overdue) -> Subs]
      BY <3>1 DEF Orders, Overdue
    <3>3. QED
      BY <2>8, <2>21, <3>1, <3>2 DEF SweepOpenTurns
  <2>22. ASSUME SweepExpired PROVE LeaseOwnerIsLive'
    <3>1. \A r \in Rows : HasLease(r)' => HasLease(r) /\ row'[r] = row[r]
      BY <2>22 DEF SweepExpired, HasLease, TypeOK, RowRecord
    <3>2. QED
      BY <2>22, <3>1, OwnersStayLive DEF SweepExpired
  <2>23. ASSUME Restart PROVE LeaseOwnerIsLive'
    <3>1. \A r \in Rows : ~ HasLease(r)'
      BY ZenonT(60), <2>23 DEF Restart, RecoveredRow, HasLease, TypeOK, RowRecord
    <3>2. QED
      BY <3>1 DEF LeaseOwnerIsLive
  <2>24. CASE UNCHANGED vars
    BY <2>24 DEF vars, LeaseOwnerIsLive, HasLease, OwnerIsLive
  <2>25. ASSUME Shutdown \/ Halt PROVE FALSE
    BY <2>25 DEF Shutdown, Halt
  <2>26. QED
    BY <2>1, <2>2, <2>3, <2>4, <2>5, <2>6, <2>9, <2>10, <2>11, <2>12, <2>13,
       <2>14, <2>16, <2>17, <2>18, <2>19, <2>20, <2>21, <2>22, <2>23, <2>24,
       <2>25 DEF Next
<1>3. QED
  BY <1>1, <1>2, TypeCorrect, SocketsFollow, PTL DEF Spec
-----------------------------------------------------------------------------
(***************************************************************************)
(* The ledger keeps its promise: every step of MessageDelivery is a step   *)
(* of MessageLease or a stutter of it; and what follows from that for the  *)
(* sender of a message and for a ready runner.                             *)
(***************************************************************************)

(* What a row of the ledger always satisfies: it has an owner exactly while *)
(* it is accepted, that owner is a subscription of the addressed member     *)
(* that knows the protocol, as is whoever lost the row; an open row is in   *)
(* the table; only a terminal one has been decided.                         *)
LedgerRow(x, n) ==
    /\ x.st = "accepted" => /\ x.owner \in Subs
                            /\ MemberOf[x.owner] = n
                            /\ SupportsDisposition(x.owner)
    /\ x.st # "accepted" => x.owner = NoSub
    /\ x.st \in Open => x.kept
    /\ x.st \notin Terminal => x.by = NoSub
    /\ \A s \in x.released : SupportsDisposition(s)

(* A message is tracked once: its rows are untouched until its push runs.   *)
RowsFollowPush ==
    /\ pushing \subseteq appended
    /\ \A r \in Rows : r[1] \in pushing \/ r[1] \notin appended => row[r] = NoRow

LedgerInv ==
    /\ RowsFollowPush
    /\ \A r \in Rows : LedgerRow(row[r], r[2])
-----------------------------------------------------------------------------
(* The updates of a row keep it in order.                                   *)
LEMMA NoRowInOrder == ASSUME NEW n PROVE LedgerRow(NoRow, n)
BY DEF LedgerRow, NoRow, Open, Terminal

LEMMA ReleasedRowCases ==
    ASSUME TypeOK, NEW S \in SUBSET Subs, NEW r \in Rows
    PROVE  \/ ReleasedRow(r, S) = row[r]
           \/ /\ row[r].st = "accepted"
              /\ row[r].owner \in S
              /\ ReleasedRow(r, S).st = "pending"
              /\ ReleasedRow(r, S).owner = NoSub
              /\ ReleasedRow(r, S).kept
              /\ ReleasedRow(r, S).released = row[r].released \cup {row[r].owner}
              /\ ReleasedRow(r, S).by = row[r].by
<1>1. row[r] \in RowRecord
  BY DEF TypeOK
<1>2. QED
  BY <1>1 DEF ReleasedRow, Leased, RowRecord

LEMMA ReleasedRowInOrder ==
    ASSUME TypeOK, LedgerInv, NEW S \in SUBSET Subs, NEW r \in Rows
    PROVE  LedgerRow(ReleasedRow(r, S), r[2])
<1>1. LedgerRow(row[r], r[2])
  BY DEF LedgerInv
<1>2. CASE ReleasedRow(r, S) = row[r]
  BY <1>1, <1>2
<1>3. CASE ReleasedRow(r, S) # row[r]
  <2>1. row[r].st = "accepted"
    BY <1>3, ReleasedRowCases
  <2>2. SupportsDisposition(row[r].owner) /\ row[r].by = NoSub
    BY <1>1, <2>1 DEF LedgerRow, Terminal
  <2>3. \A s \in row[r].released : SupportsDisposition(s)
    BY <1>1 DEF LedgerRow
  <2>4. QED
    BY <1>3, <2>2, <2>3, ReleasedRowCases DEF LedgerRow, Open, Terminal
<1>4. QED
  BY <1>2, <1>3

(* Rows that have not been tracked are not released either.                 *)
LEMMA ReleaseKeepsOrder ==
    ASSUME TypeOK, LedgerInv, NEW S \in SUBSET Subs, ReleaseOwners(S),
           UNCHANGED <<pushing, appended>>
    PROVE  LedgerInv'
<1>1. \A r \in Rows : LedgerRow(row'[r], r[2])
  BY ReleasedRowInOrder DEF ReleaseOwners
<1>2. ASSUME NEW r \in Rows, row[r] = NoRow PROVE row'[r] = NoRow
  <2>1. row[r].st # "accepted"
    BY <1>2 DEF NoRow
  <2>2. QED
    BY <1>2, <2>1, ReleasedRowCases DEF ReleaseOwners
<1>3. QED
  BY <1>1, <1>2 DEF LedgerInv, RowsFollowPush, LedgerRow, SupportsDisposition

(* Releasing leases is the promise's LetGo of the rows that change.         *)
ReleasedBy(S) == {r \in Rows : ReleasedRow(r, S) # row[r]}

LEMMA ReleaseIsLetGo ==
    ASSUME TypeOK, LedgerInv, NEW S \in SUBSET Subs, ReleaseOwners(S)
    PROVE  ReleasedBy(S) \in SUBSET Rows /\ Promise!LetGo(ReleasedBy(S))
<1> DEFINE R == ReleasedBy(S)
<1>1. \A r \in Rows : row[r] \in RowRecord /\ LedgerRow(row[r], r[2])
  BY DEF TypeOK, LedgerInv
<1>2. \A r \in R : row[r].owner \in Subs
  BY ReleasedRowCases DEF ReleasedBy
<1>3. \A r \in Rows : row'[r] = ReleasedRow(r, S)
  BY DEF ReleaseOwners
<1>4. \A r \in Rows \ R : row'[r] = row[r]
  BY <1>3 DEF ReleasedBy
<1>5. \A r \in R : /\ row[r].st = "accepted"
                   /\ row'[r].st = "pending" /\ row'[r].owner = NoSub
                   /\ row'[r].released = row[r].released \cup {row[r].owner}
                   /\ row'[r].by = row[r].by
  BY <1>3, ReleasedRowCases DEF ReleasedBy
<1>6. R \in SUBSET Rows
  BY DEF ReleasedBy
<1> HIDE DEF R
<1>7. \A r \in R : row[r].owner # NoSub
  BY <1>2, ConstantsOK
<1>8. [r \in Rows |-> row'[r].owner] =
        [r \in Rows |-> IF r \in R THEN NoSub ELSE row[r].owner]
  BY <1>4, <1>5
<1>9. [r \in Rows |-> IF row'[r].st \in Open
                      THEN row'[r].released \ {row'[r].owner} ELSE {}] =
        [r \in Rows |-> IF r \in R
            THEN (IF row[r].st \in Open THEN row[r].released \ {row[r].owner} ELSE {})
                 \cup {row[r].owner}
            ELSE IF row[r].st \in Open THEN row[r].released \ {row[r].owner} ELSE {}]
  <2>1. ASSUME NEW r \in R
        PROVE  (IF row'[r].st \in Open THEN row'[r].released \ {row'[r].owner} ELSE {})
               = (IF row[r].st \in Open THEN row[r].released \ {row[r].owner} ELSE {})
                 \cup {row[r].owner}
    <3>1. row'[r].released = row[r].released \cup {row[r].owner}
      BY <1>5
    <3>2. NoSub \notin row[r].released \cup {row[r].owner}
      BY <1>1, <1>6, <1>7, <1>2, ConstantsOK DEF RowRecord
    <3>3. row[r].st \in Open /\ row'[r].st \in Open /\ row'[r].owner = NoSub
      BY <1>5 DEF Open
    <3>4. QED
      BY <3>1, <3>2, <3>3
  <2>2. QED
    BY <1>4, <2>1
<1>10. [r \in Rows |-> IF row'[r].st \in Open THEN "open" ELSE row'[r].st] =
         [r \in Rows |-> IF row[r].st \in Open THEN "open" ELSE row[r].st]
  BY <1>4, <1>5 DEF Open
<1>11. [r \in Rows |-> row'[r].by] = [r \in Rows |-> row[r].by]
  BY <1>4, <1>5
<1>12. Promise!LetGo(R)
  BY <1>6, <1>7, <1>8, <1>9, <1>10, <1>11 DEF Promise!LetGo
<1>13. QED
  BY <1>6, <1>12 DEF R
-----------------------------------------------------------------------------
(* Steps that leave the rows alone, and track nothing new, keep the         *)
(* invariant and are stutters of the promise.                               *)
LEMMA QuietStep ==
    ASSUME LedgerInv, row' = row, pushing' \subseteq pushing, appended' = appended
    PROVE  LedgerInv' /\ UNCHANGED Promise!leaseVars
<1>1. LedgerInv'
  BY DEF LedgerInv, RowsFollowPush, LedgerRow, SupportsDisposition
<1>2. UNCHANGED Promise!leaseVars
  BY DEF Promise!leaseVars
<1>3. QED
  BY <1>1, <1>2

LEMMA ReleaseStep ==
    ASSUME TypeOK, LedgerInv, NEW S \in SUBSET Subs, ReleaseOwners(S),
           UNCHANGED <<pushing, appended>>
    PROVE  LedgerInv' /\ Promise!Next
<1>1. ReleasedBy(S) \in SUBSET Rows /\ Promise!LetGo(ReleasedBy(S))
  BY ReleaseIsLetGo
<1>2. LedgerInv'
  BY ReleaseKeepsOrder
<1>3. PICK R \in SUBSET Rows : R = ReleasedBy(S)
  BY <1>1
<1>4. Promise!LetGo(R)
  BY <1>1, <1>3 DEF Promise!LetGo
<1>5. QED
  BY <1>2, <1>4 DEF Promise!Next

LEMMA DegradeStep ==
    ASSUME TypeOK, LedgerInv, NEW k, NEW order \in [k -> Subs],
           DegradeInOrder(order), UNCHANGED <<pushing, appended>>
    PROVE  LedgerInv' /\ Promise!Next
<1> DEFINE gone == {order[i] : i \in DOMAIN order}
<1>1. gone \in SUBSET Subs /\ ReleaseOwners(gone)
  BY DEF DegradeInOrder
<1> HIDE DEF gone
<1>2. QED
  BY <1>1, ReleaseStep

(* A frame or a redelivery updates one row that is in the table.            *)
LEMMA OneRowKeepsOrder ==
    ASSUME TypeOK, LedgerInv, NEW q \in Rows, NEW x, row' = [row EXCEPT ![q] = x],
           row[q].kept, LedgerRow(x, q[2]), UNCHANGED <<pushing, appended>>
    PROVE  LedgerInv'
<1>1. row'[q] = x /\ \A r \in Rows : r # q => row'[r] = row[r]
  BY OneRowChanged
<1>2. row[q] # NoRow
  BY DEF NoRow
<1>3. \A r \in Rows : LedgerRow(row'[r], r[2])
  BY <1>1 DEF LedgerInv
<1>4. RowsFollowPush'
  BY <1>1, <1>2 DEF LedgerInv, RowsFollowPush
<1>5. QED
  BY <1>3, <1>4 DEF LedgerInv, LedgerRow, SupportsDisposition

LEMMA AcceptStep ==
    ASSUME TypeOK, LedgerInv, NEW s \in Subs, NEW m \in Msgs, Accept(s, m)
    PROVE  LedgerInv' /\ Promise!Next
<1> DEFINE q == <<m, MemberOf[s]>>
           x == [row[q] EXCEPT !.st = "accepted", !.owner = s]
<1>1. q \in Rows /\ row[q] \in RowRecord /\ LedgerRow(row[q], q[2])
  BY RowOf DEF LedgerInv
<1>2. /\ row' = [row EXCEPT ![q] = x]
      /\ row[q].kept /\ row[q].st = "pending" /\ SupportsDisposition(s)
      /\ UNCHANGED <<pushing, appended>>
  BY DEF Accept, FrameFrom, IsPending
<1>3. q[2] = MemberOf[s]
  OBVIOUS
<1>4. /\ x.st = "accepted" /\ x.owner = s /\ x.kept
      /\ x.released = row[q].released /\ x.by = row[q].by
  BY <1>1, <1>2 DEF RowRecord
<1> HIDE DEF q, x
<1>5. row'[q] = x /\ \A r \in Rows : r # q => row'[r] = row[r]
  BY <1>1, <1>2, OneRowChanged
<1>6. LedgerRow(x, q[2])
  BY <1>1, <1>2, <1>3, <1>4 DEF LedgerRow, Open, Terminal
<1>7. LedgerInv'
  BY <1>1, <1>2, <1>6, OneRowKeepsOrder
<1>8. row[q].owner = NoSub /\ NoSub \notin row[q].released
  BY <1>1, <1>2, ConstantsOK DEF LedgerRow, RowRecord
<1>9. Promise!Take(q, s)
  <2>1. [r \in Rows |-> row'[r].owner] = [[r \in Rows |-> row[r].owner] EXCEPT ![q] = s]
    BY <1>4, <1>5
  <2>2. [r \in Rows |-> IF row'[r].st \in Open
                        THEN row'[r].released \ {row'[r].owner} ELSE {}] =
          [[r \in Rows |-> IF row[r].st \in Open
                           THEN row[r].released \ {row[r].owner} ELSE {}]
           EXCEPT ![q] = @ \ {s}]
    <3>1. row'[q].released \ {row'[q].owner} = (row[q].released \ {row[q].owner}) \ {s}
      BY <1>4, <1>5, <1>8
    <3>2. row'[q].st \in Open /\ row[q].st \in Open
      BY <1>2, <1>4, <1>5 DEF Open
    <3>3. QED
      BY <1>1, <1>5, <3>1, <3>2
  <2>3. [r \in Rows |-> IF row'[r].st \in Open THEN "open" ELSE row'[r].st] =
          [r \in Rows |-> IF row[r].st \in Open THEN "open" ELSE row[r].st]
    BY <1>2, <1>4, <1>5 DEF Open
  <2>4. [r \in Rows |-> row'[r].by] = [r \in Rows |-> row[r].by]
    BY <1>4, <1>5
  <2>5. row[q].st \in Open
    BY <1>2 DEF Open
  <2>6. QED
    BY <1>1, <1>8, <2>1, <2>2, <2>3, <2>4, <2>5 DEF Promise!Take
<1>10. QED
  BY <1>1, <1>7, <1>9 DEF Promise!Next

LEMMA DeferStep ==
    ASSUME TypeOK, LedgerInv, NEW s \in Subs, NEW m \in Msgs, Defer(s, m)
    PROVE  LedgerInv' /\ Promise!Next
<1> DEFINE q == <<m, MemberOf[s]>>
           x == [row[q] EXCEPT !.st = "pending", !.owner = NoSub,
                               !.released = row[q].released \cup {s}]
<1>1. q \in Rows /\ row[q] \in RowRecord /\ LedgerRow(row[q], q[2])
  BY RowOf DEF LedgerInv
<1>2. /\ row' = [row EXCEPT ![q] = x]
      /\ row[q].kept /\ row[q].st = "accepted" /\ row[q].owner = s
      /\ SupportsDisposition(s)
      /\ UNCHANGED <<pushing, appended>>
  BY DEF Defer, FrameFrom, Leased
<1>3. /\ x.st = "pending" /\ x.owner = NoSub /\ x.kept
      /\ x.released = row[q].released \cup {s} /\ x.by = row[q].by
  BY <1>1, <1>2 DEF RowRecord
<1> HIDE DEF q, x
<1>4. row'[q] = x /\ \A r \in Rows : r # q => row'[r] = row[r]
  BY <1>1, <1>2, OneRowChanged
<1>5. LedgerRow(x, q[2])
  BY <1>1, <1>2, <1>3 DEF LedgerRow, Open, Terminal
<1>6. LedgerInv'
  BY <1>1, <1>2, <1>5, OneRowKeepsOrder
<1>7. NoSub \notin row[q].released \cup {s}
  BY <1>1, ConstantsOK DEF RowRecord
<1>8. Promise!LetGo({q})
  <2>1. [r \in Rows |-> row'[r].owner] =
          [r \in Rows |-> IF r \in {q} THEN NoSub ELSE row[r].owner]
    BY <1>3, <1>4
  <2>2. [r \in Rows |-> IF row'[r].st \in Open
                        THEN row'[r].released \ {row'[r].owner} ELSE {}] =
          [r \in Rows |-> IF r \in {q}
              THEN (IF row[r].st \in Open THEN row[r].released \ {row[r].owner} ELSE {})
                   \cup {row[r].owner}
              ELSE IF row[r].st \in Open THEN row[r].released \ {row[r].owner} ELSE {}]
    <3>1. row'[q].released \ {row'[q].owner} =
            (row[q].released \ {row[q].owner}) \cup {row[q].owner}
      BY <1>2, <1>3, <1>4, <1>7
    <3>2. row'[q].st \in Open /\ row[q].st \in Open
      BY <1>2, <1>3, <1>4 DEF Open
    <3>3. QED
      BY <1>1, <1>4, <3>1, <3>2
  <2>3. [r \in Rows |-> IF row'[r].st \in Open THEN "open" ELSE row'[r].st] =
          [r \in Rows |-> IF row[r].st \in Open THEN "open" ELSE row[r].st]
    BY <1>2, <1>3, <1>4 DEF Open
  <2>4. [r \in Rows |-> row'[r].by] = [r \in Rows |-> row[r].by]
    BY <1>3, <1>4
  <2>5. row[q].owner # NoSub
    BY <1>2, ConstantsOK
  <2>6. QED
    BY <1>1, <2>1, <2>2, <2>3, <2>4, <2>5 DEF Promise!LetGo
<1>9. {q} \in SUBSET Rows
  BY <1>1
<1>10. QED
  BY <1>6, <1>8, <1>9 DEF Promise!Next

(* Deciding an open row is the promise's Decide by whoever decides it.      *)
LEMMA DecideMaps ==
    ASSUME NEW q \in Rows, NEW s \in Subs, NEW d \in Terminal, row[q].st \in Open,
           row'[q].st = d, row'[q].owner = NoSub, row'[q].by = s,
           \A r \in Rows : r # q => row'[r] = row[r],
           \/ row[q].owner = s
           \/ row[q].owner = NoSub /\ ~RequiresAcceptance(s) /\ s \notin row[q].released
    PROVE  Promise!Decide(q, s, d)
<1>1. [r \in Rows |-> row'[r].owner] =
        [[r \in Rows |-> row[r].owner] EXCEPT ![q] = NoSub]
  OBVIOUS
<1>2. d \notin Open
  BY DEF Terminal, Open
<1>3. [r \in Rows |-> IF row'[r].st \in Open
                      THEN row'[r].released \ {row'[r].owner} ELSE {}] =
        [[r \in Rows |-> IF row[r].st \in Open
                         THEN row[r].released \ {row[r].owner} ELSE {}]
         EXCEPT ![q] = {}]
  BY <1>2
<1>4. [r \in Rows |-> IF row'[r].st \in Open THEN "open" ELSE row'[r].st] =
        [[r \in Rows |-> IF row[r].st \in Open THEN "open" ELSE row[r].st]
         EXCEPT ![q] = d]
  BY <1>2
<1>5. [r \in Rows |-> row'[r].by] = [[r \in Rows |-> row[r].by] EXCEPT ![q] = s]
  OBVIOUS
<1>6. QED
  BY <1>1, <1>3, <1>4, <1>5 DEF Promise!Decide

LEMMA DecideStep ==
    ASSUME TypeOK, LedgerInv, NEW q \in Rows, NEW s \in Subs, NEW d \in Terminal,
           NEW x, row' = [row EXCEPT ![q] = x],
           x.st = d, x.owner = NoSub, x.by = s, x.released = row[q].released,
           MaySettle(q, s),
           UNCHANGED <<pushing, appended>>
    PROVE  LedgerInv' /\ Promise!Next
<1>1. row[q] \in RowRecord /\ LedgerRow(row[q], q[2])
  BY DEF LedgerInv, TypeOK
<1>2. row[q].kept /\ row[q].st \in Open
  BY DEF MaySettle, Leased, IsPending, Open
<1>3. row'[q] = x /\ \A r \in Rows : r # q => row'[r] = row[r]
  BY OneRowChanged
<1>4. d \notin Open /\ d # "accepted" /\ d \in Promise!Outcomes
  BY DEF Terminal, Open, Promise!Outcomes
<1>5. LedgerRow(x, q[2])
  BY <1>1, <1>4 DEF LedgerRow
<1>6. LedgerInv'
  BY <1>2, <1>5, OneRowKeepsOrder
<1>7. \/ row[q].owner = s
      \/ row[q].owner = NoSub /\ ~RequiresAcceptance(s) /\ s \notin row[q].released
  BY <1>1 DEF MaySettle, Leased, IsPending, LedgerRow
<1>8. Promise!Decide(q, s, d)
  BY <1>2, <1>3, <1>7, DecideMaps
<1>9. QED
  BY <1>4, <1>6, <1>8 DEF Promise!Next

LEMMA SettleStep ==
    ASSUME TypeOK, LedgerInv, NEW s \in Subs, NEW m \in Msgs,
           NEW d \in {"acted", "handled", "refused"}, Settle(s, m, d)
    PROVE  LedgerInv' /\ Promise!Next
<1> DEFINE q == <<m, MemberOf[s]>>
           x == [row[q] EXCEPT !.st = d, !.owner = NoSub, !.by = s]
<1>1. q \in Rows /\ row[q] \in RowRecord
  BY RowOf
<1>2. /\ row' = [row EXCEPT ![q] = x]
      /\ MaySettle(q, s)
      /\ UNCHANGED <<pushing, appended>>
  BY DEF Settle
<1>3. /\ x.st = d /\ x.owner = NoSub /\ x.by = s
      /\ x.released = row[q].released
  BY <1>1 DEF RowRecord
<1>4. d \in Terminal
  BY DEF Terminal
<1> HIDE DEF q, x
<1>5. QED
  BY <1>1, <1>2, <1>3, <1>4, DecideStep

(* A redelivery to a legacy runner decides a pending row; it may, because   *)
(* such a runner never held the row.                                        *)
LEMMA ResendStep ==
    ASSUME TypeOK, LedgerInv, NEW s \in Subs, NEW m \in Msgs, ResendOne(s, m)
    PROVE  LedgerInv' /\ [Promise!Next]_(Promise!leaseVars)
<1> DEFINE q == <<m, MemberOf[s]>>
           x == [row[q] EXCEPT !.st = "unreported", !.by = s]
<1>1. q \in Rows /\ row[q] \in RowRecord /\ LedgerRow(row[q], q[2])
  BY RowOf DEF LedgerInv
<1>2. UNCHANGED <<pushing, appended>>
  BY DEF ResendOne
<1>3. CASE KindOf[s] = "legacy" /\ IsPending(q)
  <2>1. row' = [row EXCEPT ![q] = x]
    BY <1>3 DEF ResendOne
  <2>2. /\ x.st = "unreported" /\ x.owner = NoSub /\ x.by = s
        /\ x.released = row[q].released
    BY <1>1, <1>3 DEF RowRecord, LedgerRow, IsPending
  <2>3. MaySettle(q, s)
    BY <1>1, <1>3 DEF MaySettle, RequiresAcceptance, LedgerRow, SupportsDisposition
  <2>4. "unreported" \in Terminal
    BY DEF Terminal
  <2> HIDE DEF q, x
  <2>5. QED
    BY <1>1, <1>2, <2>1, <2>2, <2>3, <2>4, DecideStep
<1>4. CASE ~(KindOf[s] = "legacy" /\ IsPending(q))
  <2>1. row' = row
    BY <1>4 DEF ResendOne
  <2>2. QED
    BY <1>2, <2>1, QuietStep
<1>5. QED
  BY <1>3, <1>4
-----------------------------------------------------------------------------
(* Tracking: a push in flight finds its rows as they were before any push.  *)
LEMMA TrackStep ==
    ASSUME TypeOK, LedgerInv, NEW m \in Msgs, PushDeliver(m)
    PROVE  LedgerInv' /\ Promise!Next
<1> DEFINE R == {r \in Rows : r[1] = m /\ r[2] \in AudienceOf[m] /\ ~LegacyOnly(r[2])}
           x == [NoRow EXCEPT !.st = "pending", !.kept = TRUE]
<1>1. /\ m \in pushing /\ pushing' = pushing \ {m} /\ appended' = appended
      /\ row' = [r \in Rows |-> IF r \in R THEN TrackedRow(r) ELSE row[r]]
  BY DEF PushDeliver
<1>2. \A r \in R : row[r] = NoRow
  BY <1>1 DEF LedgerInv, RowsFollowPush
<1>3. \A r \in R : TrackedRow(r) = x
  BY <1>2 DEF TrackedRow, NoRow
<1>4. /\ NoRow.st = "none" /\ NoRow.owner = NoSub /\ NoRow.by = NoSub
      /\ NoRow.released = {}
  BY DEF NoRow
<1>5. /\ x.st = "pending" /\ x.owner = NoSub /\ x.kept /\ x.by = NoSub
      /\ x.released = {}
  BY DEF NoRow
<1>6. R \in SUBSET Rows
  OBVIOUS
<1>7. \A r \in Rows : r \in R => r[1] = m
  OBVIOUS
<1> HIDE DEF R, x
<1>8. \A r \in Rows : row'[r] = IF r \in R THEN x ELSE row[r]
  BY <1>1, <1>3
<1>9. LedgerInv'
  <2>1. \A r \in Rows : LedgerRow(row'[r], r[2])
    BY <1>5, <1>8 DEF LedgerInv, LedgerRow, Open, Terminal
  <2>2. \A r \in Rows : r[1] \in pushing' \/ r[1] \notin appended' => row'[r] = NoRow
    BY <1>1, <1>7, <1>8 DEF LedgerInv, RowsFollowPush
  <2>3. pushing' \subseteq appended'
    BY <1>1 DEF LedgerInv, RowsFollowPush
  <2>4. QED
    BY <2>1, <2>2, <2>3 DEF LedgerInv, RowsFollowPush, LedgerRow, SupportsDisposition
<1>10. Promise!Track(R)
  <2>1. \A r \in R : (IF row[r].st \in Open THEN "open" ELSE row[r].st) = "none"
    BY <1>2, <1>4 DEF Open
  <2>2. [r \in Rows |-> IF row'[r].st \in Open THEN "open" ELSE row'[r].st] =
          [r \in Rows |-> IF r \in R THEN "open"
                          ELSE IF row[r].st \in Open THEN "open" ELSE row[r].st]
    BY <1>5, <1>8 DEF Open
  <2>3. [r \in Rows |-> row'[r].owner] = [r \in Rows |-> row[r].owner]
    BY <1>2, <1>4, <1>5, <1>8
  <2>4. [r \in Rows |-> IF row'[r].st \in Open
                        THEN row'[r].released \ {row'[r].owner} ELSE {}] =
          [r \in Rows |-> IF row[r].st \in Open
                          THEN row[r].released \ {row[r].owner} ELSE {}]
    BY <1>2, <1>4, <1>5, <1>8 DEF Open
  <2>5. [r \in Rows |-> row'[r].by] = [r \in Rows |-> row[r].by]
    BY <1>2, <1>4, <1>5, <1>8
  <2>6. QED
    BY <1>6, <2>1, <2>2, <2>3, <2>4, <2>5 DEF Promise!Track
<1>11. PICK Q \in SUBSET Rows : Q = R
  BY <1>6
<1>12. Promise!Track(Q)
  BY <1>10, <1>11 DEF Promise!Track
<1>13. QED
  BY <1>9, <1>12 DEF Promise!Next

(* The sweep: late open rows expire, late decided rows leave the table.     *)
LEMMA ExpireStep ==
    ASSUME TypeOK, LedgerInv, SweepExpired
    PROVE  LedgerInv' /\ Promise!Next
<1> DEFINE R == {r \in Rows : r[1] \in late /\ row[r].kept /\ row[r].st \in Open}
           P == {r \in Rows : r[1] \in late /\ row[r].kept}
<1>1. /\ row' = [r \in Rows |->
                   IF r \in R
                   THEN [row[r] EXCEPT !.st = "refused", !.owner = NoSub, !.kept = FALSE]
                   ELSE IF r \in P THEN [row[r] EXCEPT !.kept = FALSE]
                   ELSE row[r]]
      /\ UNCHANGED <<pushing, appended>>
  BY DEF SweepExpired
<1>2. \A r \in Rows : row[r] \in RowRecord /\ LedgerRow(row[r], r[2])
  BY DEF TypeOK, LedgerInv
<1>3. R \in SUBSET Rows /\ \A r \in R : row[r].st \in Open
  OBVIOUS
<1>4. \A r \in P \ R : row[r].kept /\ row[r].st \notin Open
  OBVIOUS
<1>5. \A r \in R : row[r].kept
  OBVIOUS
<1> HIDE DEF R, P
<1>6. \A r \in R : /\ row'[r].st = "refused" /\ row'[r].owner = NoSub
                   /\ row'[r].released = row[r].released /\ row'[r].by = row[r].by
  BY <1>1, <1>2, <1>3 DEF RowRecord
<1>7. \A r \in Rows \ R : /\ row'[r].st = row[r].st /\ row'[r].owner = row[r].owner
                          /\ row'[r].released = row[r].released
                          /\ row'[r].by = row[r].by
  BY <1>1, <1>2 DEF RowRecord
<1>8. \A r \in Rows \ R : row[r].st \in Open => row'[r] = row[r]
  BY <1>1, <1>4
<1>9. \A r \in Rows : row[r] = NoRow => row'[r] = NoRow
  <2>1. SUFFICES ASSUME NEW r \in Rows, row[r] = NoRow PROVE row'[r] = NoRow
    OBVIOUS
  <2>2. ~row[r].kept
    BY <2>1 DEF NoRow
  <2>3. r \notin R /\ r \notin P
    BY <2>2, <1>4, <1>5
  <2>4. QED
    BY <1>1, <2>1, <2>3
<1>10. LedgerInv'
  <2>1. \A r \in R : LedgerRow(row'[r], r[2])
    BY <1>2, <1>3, <1>6 DEF LedgerRow, Open, Terminal
  <2>2. \A r \in Rows \ R : LedgerRow(row'[r], r[2])
    BY <1>2, <1>7, <1>8 DEF LedgerRow
  <2>3. RowsFollowPush'
    BY <1>1, <1>9 DEF LedgerInv, RowsFollowPush
  <2>4. QED
    BY <2>1, <2>2, <2>3 DEF LedgerInv, LedgerRow, SupportsDisposition
<1>11. Promise!Expire(R)
  <2>1. [r \in Rows |-> IF row'[r].st \in Open THEN "open" ELSE row'[r].st] =
          [r \in Rows |-> IF r \in R THEN "refused"
                          ELSE IF row[r].st \in Open THEN "open" ELSE row[r].st]
    BY <1>6, <1>7 DEF Open
  <2>2. [r \in Rows |-> row'[r].owner] =
          [r \in Rows |-> IF r \in R THEN NoSub ELSE row[r].owner]
    BY <1>6, <1>7
  <2>3. [r \in Rows |-> IF row'[r].st \in Open
                        THEN row'[r].released \ {row'[r].owner} ELSE {}] =
          [r \in Rows |-> IF r \in R THEN {}
                          ELSE IF row[r].st \in Open
                               THEN row[r].released \ {row[r].owner} ELSE {}]
    BY <1>6, <1>7 DEF Open
  <2>4. [r \in Rows |-> row'[r].by] = [r \in Rows |-> row[r].by]
    BY <1>6, <1>7
  <2>5. QED
    BY <1>3, <2>1, <2>2, <2>3, <2>4 DEF Promise!Expire
<1>12. PICK Q \in SUBSET Rows : Q = R
  BY <1>3
<1>13. Promise!Expire(Q)
  BY <1>11, <1>12 DEF Promise!Expire
<1>14. QED
  BY <1>10, <1>13 DEF Promise!Next

(* A new process takes every lease back and remembers nobody's loss.        *)
LEMMA RestartStep ==
    ASSUME TypeOK, LedgerInv, Restart
    PROVE  LedgerInv' /\ Promise!Next
<1>1. \A r \in Rows : row[r] \in RowRecord /\ LedgerRow(row[r], r[2])
  BY DEF TypeOK, LedgerInv
<1>2. /\ \A r \in Rows : row'[r] = RecoveredRow(r)
      /\ UNCHANGED <<pushing, appended>>
  BY DEF Restart
<1>3. \A r \in Rows :
        \/ /\ row[r].st = "accepted" /\ row'[r].st = "pending"
           /\ row'[r].owner = NoSub /\ row'[r].released = {}
           /\ row'[r].by = row[r].by /\ row'[r].kept = row[r].kept
        \/ /\ row[r].st # "accepted" /\ row'[r].st = row[r].st
           /\ row'[r].owner = row[r].owner /\ row'[r].released = {}
           /\ row'[r].by = row[r].by /\ row'[r].kept = row[r].kept
  <2>1. SUFFICES ASSUME NEW r \in Rows
                 PROVE  \/ /\ row[r].st = "accepted" /\ RecoveredRow(r).st = "pending"
                           /\ RecoveredRow(r).owner = NoSub
                           /\ RecoveredRow(r).released = {}
                           /\ RecoveredRow(r).by = row[r].by
                           /\ RecoveredRow(r).kept = row[r].kept
                        \/ /\ row[r].st # "accepted" /\ RecoveredRow(r).st = row[r].st
                           /\ RecoveredRow(r).owner = row[r].owner
                           /\ RecoveredRow(r).released = {}
                           /\ RecoveredRow(r).by = row[r].by
                           /\ RecoveredRow(r).kept = row[r].kept
    BY <1>2
  <2>2. row[r].st = "accepted" => row[r].kept
    BY <1>1 DEF LedgerRow, Open
  <2>3. row[r] \in RowRecord
    BY <1>1
  <2>4. QED
    BY <2>2, <2>3 DEF RecoveredRow, RowRecord
<1>4. ASSUME NEW r \in Rows, row[r] = NoRow PROVE row'[r] = NoRow
  <2>1. ~row[r].kept
    BY <1>4 DEF NoRow
  <2>2. row'[r] = [NoRow EXCEPT !.released = {}]
    BY <1>2, <1>4, <2>1 DEF RecoveredRow
  <2>3. QED
    BY <2>2 DEF NoRow
<1>5. \A r \in Rows : row'[r].owner = NoSub
  BY <1>1, <1>3 DEF LedgerRow
<1>6. LedgerInv'
  <2>1. \A r \in Rows : LedgerRow(row'[r], r[2])
    BY <1>1, <1>3, <1>5 DEF LedgerRow, Open, Terminal
  <2>2. RowsFollowPush'
    BY <1>2, <1>4 DEF LedgerInv, RowsFollowPush
  <2>3. QED
    BY <2>1, <2>2 DEF LedgerInv, LedgerRow, SupportsDisposition
<1>7. Promise!StartOver
  <2>1. [r \in Rows |-> IF row'[r].st \in Open THEN "open" ELSE row'[r].st] =
          [r \in Rows |-> IF row[r].st \in Open THEN "open" ELSE row[r].st]
    BY <1>3 DEF Open
  <2>2. [r \in Rows |-> row'[r].owner] = [r \in Rows |-> NoSub]
    BY <1>5
  <2>3. [r \in Rows |-> IF row'[r].st \in Open
                        THEN row'[r].released \ {row'[r].owner} ELSE {}] =
          [r \in Rows |-> {}]
    BY <1>3
  <2>4. [r \in Rows |-> row'[r].by] = [r \in Rows |-> row[r].by]
    BY <1>3
  <2>5. QED
    BY <2>1, <2>2, <2>3, <2>4 DEF Promise!StartOver
<1>8. QED
  BY <1>6, <1>7 DEF Promise!Next
-----------------------------------------------------------------------------
(* Every step of the model keeps the invariant and the promise.             *)
LEMMA StepKeepsPromise ==
    ASSUME TypeOK, LedgerInv, [Next]_vars
    PROVE  LedgerInv' /\ [Promise!Next]_(Promise!leaseVars)
<1> DEFINE Kept == LedgerInv' /\ [Promise!Next]_(Promise!leaseVars)
<1> USE DEF sessionVars
<1>1. ASSUME UNCHANGED row, pushing' \subseteq pushing, appended' = appended
      PROVE  Kept
  BY <1>1, QuietStep
<1>2. ASSUME LedgerInv' /\ Promise!Next PROVE Kept
  BY <1>2
<1> HIDE DEF Kept
<1>3. ASSUME NEW m \in Msgs, PushAppend(m) PROVE Kept
  <2>1. RowsFollowPush'
    BY <1>3 DEF PushAppend, LedgerInv, RowsFollowPush
  <2>2. LedgerInv'
    BY <1>3, <2>1 DEF PushAppend, LedgerInv, LedgerRow, SupportsDisposition
  <2>3. UNCHANGED Promise!leaseVars
    BY <1>3 DEF PushAppend, Promise!leaseVars
  <2>4. QED
    BY <2>2, <2>3 DEF Kept
<1>4. ASSUME NEW m \in Msgs, PushDeliver(m) PROVE Kept
  BY <1>2, <1>4, TrackStep
<1>5. ASSUME NEW m \in Msgs, Age(m) PROVE Kept
  BY <1>1, <1>5 DEF Age
<1>6. ASSUME NEW s \in Subs, Subscribe(s) \/ CloseDrained(s) \/ ConditionReady(s)
      PROVE  Kept
  BY <1>1, <1>6 DEF Subscribe, CloseDrained, ConditionReady
<1>7. ASSUME NEW s \in Subs, Close(s) PROVE Kept
  <2>1. {s} \in SUBSET Subs /\ ReleaseOwners({s}) /\ UNCHANGED <<pushing, appended>>
    BY <1>7 DEF Close, ForgetSubs
  <2>2. QED
    BY <1>2, <2>1, ReleaseStep
<1>8. ASSUME NEW s \in Subs, ConditionDegraded(s) PROVE Kept
  <2>1. [i \in {1} |-> s] \in [{1} -> Subs]
    OBVIOUS
  <2>2. QED
    BY <1>2, <1>8, <2>1, DegradeStep DEF ConditionDegraded
<1>9. ASSUME NEW s \in Subs, NEW t \in Turns, TurnStarted(s, t) \/ AgeTurn(s, t)
      PROVE  Kept
  BY <1>1, <1>9 DEF TurnStarted, AgeTurn
<1>10. ASSUME NEW s \in Subs, NEW t \in Turns, NEW failed \in BOOLEAN,
              TurnCompleted(s, t, failed)
       PROVE  Kept
  <2>1. [i \in {1} |-> s] \in [{1} -> Subs]
    OBVIOUS
  <2>2. CASE DegradeInOrder([i \in {1} |-> s])
    BY <1>2, <1>10, <2>1, <2>2, DegradeStep DEF TurnCompleted
  <2>3. CASE UNCHANGED row
    BY <1>1, <1>10, <2>3 DEF TurnCompleted
  <2>4. QED
    BY <1>10, <2>2, <2>3 DEF TurnCompleted
<1>11. ASSUME NEW s \in Subs, NEW m \in Msgs, Accept(s, m) PROVE Kept
  BY <1>2, <1>11, AcceptStep
<1>12. ASSUME NEW s \in Subs, NEW m \in Msgs, Defer(s, m) PROVE Kept
  BY <1>2, <1>12, DeferStep
<1>13. ASSUME NEW s \in Subs, NEW m \in Msgs, ResendOne(s, m) PROVE Kept
  BY <1>13, ResendStep DEF Kept
<1>14. ASSUME NEW s \in Subs, NEW m \in Msgs,
              NEW d \in {"acted", "handled", "refused"}, Settle(s, m, d)
       PROVE  Kept
  BY <1>2, <1>14, SettleStep
<1>15. ASSUME NEW r \in Rows, NotifySender(r) PROVE Kept
  BY <1>1, <1>15 DEF NotifySender
<1>16. ASSUME NEW k \in Tokens, BlockToken(k) PROVE Kept
  <2> DEFINE hit == {s \in Subs : conn[s] = "live" /\ TokenOf[s] \in revoked \cup {k}}
  <2>1. hit \in SUBSET Subs /\ ReleaseOwners(hit) /\ UNCHANGED <<pushing, appended>>
    BY <1>16 DEF BlockToken
  <2> HIDE DEF hit
  <2>2. QED
    BY <1>2, <2>1, ReleaseStep
<1>17. ASSUME SweepOpenTurns PROVE Kept
  <2>1. PICK order \in Orders(Overdue) : DegradeInOrder(order)
    BY <1>17 DEF SweepOpenTurns
  <2>2. order \in [1..Cardinality(Overdue) -> Subs]
    BY <2>1 DEF Orders, Overdue
  <2>3. QED
    BY <1>2, <1>17, <2>1, <2>2, DegradeStep DEF SweepOpenTurns
<1>18. ASSUME SweepExpired PROVE Kept
  BY <1>2, <1>18, ExpireStep
<1>19. ASSUME Shutdown PROVE Kept
  <2>1. Live \in SUBSET Subs /\ ReleaseOwners(Live) /\ UNCHANGED <<pushing, appended>>
    BY <1>19 DEF Shutdown, ForgetSubs, Live
  <2>2. QED
    BY <1>2, <2>1, ReleaseStep
<1>20. ASSUME Halt PROVE Kept
  BY <1>1, <1>20 DEF Halt
<1>21. ASSUME Restart PROVE Kept
  BY <1>2, <1>21, RestartStep
<1>22. ASSUME UNCHANGED vars PROVE Kept
  BY <1>1, <1>22 DEF vars
<1>23. Kept
  BY <1>3, <1>4, <1>5, <1>6, <1>7, <1>8, <1>9, <1>10, <1>11, <1>12, <1>13, <1>14,
     <1>15, <1>16, <1>17, <1>18, <1>19, <1>20, <1>21, <1>22 DEF Next
<1>24. QED
  BY <1>23 DEF Kept

LEMMA LedgerInvInit == Init => LedgerInv
<1>1. \A r \in Rows : LedgerRow(NoRow, r[2])
  BY NoRowInOrder
<1>2. QED
  BY <1>1 DEF Init, LedgerInv, RowsFollowPush

LEMMA LedgerInOrder == Spec => []LedgerInv
BY LedgerInvInit, StepKeepsPromise, TypeCorrect, PTL DEF Spec

(* Refinement: whatever the broker, its sockets and the process do, the     *)
(* ledger does what MessageLease promises of every row (ledger.accept,      *)
(* settle, releaseOwner, expire and the recovery in the constructor).       *)
THEOREM LedgerKeepsPromise == Spec => KeepsPromise
<1>1. Init => Promise!Init
  BY DEF Init, Promise!Init, NoRow, Open
<1>2. TypeOK /\ LedgerInv /\ [Next]_vars => [Promise!Next]_(Promise!leaseVars)
  BY StepKeepsPromise
<1>3. QED
  BY <1>1, <1>2, TypeCorrect, LedgerInOrder, PTL DEF Spec, KeepsPromise, Promise!Spec
-----------------------------------------------------------------------------
(* The promise keeps an outcome for good; so does the ledger.               *)
LEMMA OutcomesStay ==
    ASSUME [Promise!Next]_(Promise!leaseVars), NEW r \in Rows, row[r].st \in Terminal
    PROVE  row'[r].st = row[r].st
<1> DEFINE out == [x \in Rows |-> IF row[x].st \in Open THEN "open" ELSE row[x].st]
<1>1. row[r].st \notin Open /\ row[r].st # "none" /\ row[r].st # "open"
  BY DEF Terminal, Open
<1>2. SUFFICES out'[r] = out[r]
  <2>1. out[r] = row[r].st
    BY <1>1
  <2>2. out'[r] = row[r].st => row'[r].st = row[r].st
    BY <1>1 DEF Open
  <2>3. QED
    BY <1>2, <2>1, <2>2
<1>3. out[r] # "none" /\ out[r] # "open"
  BY <1>1
<1>4. CASE UNCHANGED Promise!leaseVars
  BY <1>4 DEF Promise!leaseVars
<1>5. ASSUME NEW R \in SUBSET Rows, Promise!Track(R) PROVE out'[r] = out[r]
  <2>1. /\ \A x \in R : out[x] = "none"
        /\ out' = [x \in Rows |-> IF x \in R THEN "open" ELSE out[x]]
    BY <1>5 DEF Promise!Track
  <2>2. QED
    BY <1>3, <2>1
<1>6. ASSUME NEW R \in SUBSET Rows, Promise!LetGo(R) PROVE out'[r] = out[r]
  BY <1>6 DEF Promise!LetGo
<1>7. ASSUME NEW R \in SUBSET Rows, Promise!Expire(R) PROVE out'[r] = out[r]
  <2>1. /\ \A x \in R : out[x] = "open"
        /\ out' = [x \in Rows |-> IF x \in R THEN "refused" ELSE out[x]]
    BY <1>7 DEF Promise!Expire
  <2>2. QED
    BY <1>3, <2>1
<1>8. ASSUME NEW q \in Rows, NEW h \in Subs, Promise!Take(q, h) PROVE out'[r] = out[r]
  BY <1>8 DEF Promise!Take
<1>9. ASSUME NEW q \in Rows, NEW h \in Subs, NEW o, Promise!Decide(q, h, o)
      PROVE  out'[r] = out[r]
  <2>1. out[q] = "open" /\ out' = [out EXCEPT ![q] = o]
    BY <1>9 DEF Promise!Decide
  <2>2. QED
    BY <1>3, <2>1
<1>10. ASSUME Promise!StartOver PROVE out'[r] = out[r]
  BY <1>10 DEF Promise!StartOver
<1>11. QED
  BY <1>4, <1>5, <1>6, <1>7, <1>8, <1>9, <1>10 DEF Promise!Next

(* When the notices that are owed or sent do not change, or owed ones are   *)
(* lost, they stay true.                                                    *)
LEMMA NoticesStayTrue ==
    ASSUME TypeOK, LedgerInv, RefusalNoticesAreTrue, [Next]_vars,
           owed' \subseteq owed, noticed' = noticed
    PROVE  RefusalNoticesAreTrue'
<1>1. \A r \in Rows : row[r].st = "refused" => row'[r].st = "refused"
  BY StepKeepsPromise, OutcomesStay DEF Terminal
<1>2. QED
  BY <1>1 DEF RefusalNoticesAreTrue

(* A row that has been decided just now owes at most its first notice.      *)
LEMMA NewNoticesAreTrue ==
    ASSUME TypeOK, LedgerInv, RefusalNoticesAreTrue, [Next]_vars,
           NEW R \in SUBSET Rows, owed' \subseteq owed \cup R, noticed' = noticed,
           \A r \in R : row[r].st \in Open /\ row'[r].st = "refused"
    PROVE  RefusalNoticesAreTrue'
<1>1. \A r \in Rows : row[r].st = "refused" => row'[r].st = "refused"
  BY StepKeepsPromise, OutcomesStay DEF Terminal
<1>2. \A r \in R : row[r].st # "refused"
  BY DEF Open
<1>3. \A r \in R : r \notin owed /\ noticed[r] \in Nat /\ ~(noticed[r] > 0)
  BY <1>2 DEF RefusalNoticesAreTrue, TypeOK
<1>4. ASSUME NEW r \in Rows
      PROVE  /\ r \in owed' \/ noticed'[r] > 0 => row'[r].st = "refused"
             /\ r \in owed' => noticed'[r] = 0
             /\ noticed'[r] <= 1
  <2>1. CASE r \in R
    BY <1>3, <2>1
  <2>2. CASE r \notin R
    BY <1>1, <2>2 DEF RefusalNoticesAreTrue
  <2>3. QED
    BY <2>1, <2>2
<1>5. QED
  BY <1>4 DEF RefusalNoticesAreTrue

(* Refusal facts: the sender is told "refused" only of a message that ended *)
(* refused, and at most once (disposition and sweepMessageDeliveries).      *)
THEOREM RefusalNoticesHold == Spec => []RefusalNoticesAreTrue
<1>1. Init => RefusalNoticesAreTrue
  BY DEF Init, RefusalNoticesAreTrue
<1>2. TypeOK /\ LedgerInv /\ RefusalNoticesAreTrue /\ [Next]_vars
         => RefusalNoticesAreTrue'
  <2> SUFFICES ASSUME TypeOK, LedgerInv, RefusalNoticesAreTrue, [Next]_vars
               PROVE  RefusalNoticesAreTrue'
    OBVIOUS
  <2>1. CASE owed' \subseteq owed /\ noticed' = noticed
    BY <2>1, NoticesStayTrue
  <2>2. ASSUME NEW s \in Subs, NEW m \in Msgs,
               NEW d \in {"acted", "handled", "refused"}, Settle(s, m, d)
        PROVE  RefusalNoticesAreTrue'
    <3> DEFINE q == <<m, MemberOf[s]>>
    <3>1. CASE d = "refused"
      <4>1. row'[q].st = "refused"
        BY <2>2, <3>1, SettleChanges
      <4>2. row[q].st \in Open
        BY <2>2 DEF Settle, MaySettle, Leased, IsPending, Open
      <4>3. {q} \in SUBSET Rows
        BY RowOf
      <4>4. owed' \subseteq owed \cup {q} /\ noticed' = noticed
        BY <2>2 DEF Settle, NoticesFor
      <4>5. QED
        BY <4>1, <4>2, <4>3, <4>4, NewNoticesAreTrue
    <3>2. CASE d # "refused"
      BY <2>1, <2>2, <3>2 DEF Settle
    <3>3. QED
      BY <3>1, <3>2
  <2>3. ASSUME SweepExpired PROVE RefusalNoticesAreTrue'
    <3> DEFINE R == {r \in Rows : r[1] \in late /\ row[r].kept /\ row[r].st \in Open}
    <3>1. \A r \in R : row'[r].st = "refused"
      BY <2>3 DEF SweepExpired, TypeOK, RowRecord
    <3>2. owed' \subseteq owed \cup R /\ noticed' = noticed
      BY <2>3 DEF SweepExpired, NoticesFor
    <3>3. \A r \in R : row[r].st \in Open
      OBVIOUS
    <3>4. R \in SUBSET Rows
      OBVIOUS
    <3> HIDE DEF R
    <3>5. QED
      BY <3>1, <3>2, <3>3, <3>4, NewNoticesAreTrue
  <2>4. ASSUME NEW r \in Rows, NotifySender(r) PROVE RefusalNoticesAreTrue'
    <3>1. r \in owed /\ owed' = owed \ {r} /\ noticed' = [noticed EXCEPT ![r] = @ + 1]
          /\ row' = row
      BY <2>4 DEF NotifySender
    <3>2. noticed[r] = 0 /\ row[r].st = "refused"
      BY <3>1 DEF RefusalNoticesAreTrue
    <3>3. QED
      BY <3>1, <3>2 DEF RefusalNoticesAreTrue, TypeOK
  <2>5. CASE UNCHANGED vars
    BY <2>1, <2>5 DEF vars
  <2>6. QED
    BY ZenonT(60), <2>1, <2>2, <2>3, <2>4, <2>5
    DEF Next, sessionVars, PushAppend, PushDeliver, Age, Subscribe, Close, CloseDrained,
        ConditionDegraded, ConditionReady, TurnStarted, AgeTurn, TurnCompleted,
        Accept, Defer, ResendOne, BlockToken, SweepOpenTurns, Shutdown, Halt, Restart
<1>3. QED
  BY <1>1, <1>2, TypeCorrect, LedgerInOrder, PTL DEF Spec
-----------------------------------------------------------------------------
(* Only a live subscription has a reported condition or a turn.             *)
StateOfLiveOnly ==
    \A s \in Subs : conn[s] # "live" => cond[s] = "none" /\ turns[s] = NoTurns

LEMMA OnlyLiveHaveState == Spec => []StateOfLiveOnly
<1>1. Init => StateOfLiveOnly
  BY DEF Init, StateOfLiveOnly
<1>2. TypeOK /\ StateOfLiveOnly /\ [Next]_vars => StateOfLiveOnly'
  <2> SUFFICES ASSUME TypeOK, StateOfLiveOnly, [Next]_vars PROVE StateOfLiveOnly'
    OBVIOUS
  <2> USE DEF sessionVars
  <2>1. CASE UNCHANGED <<conn, cond, turns>>
    BY <2>1 DEF StateOfLiveOnly
  <2>2. ASSUME NEW s \in Subs,
               Subscribe(s) \/ Close(s) \/ CloseDrained(s) \/ ConditionReady(s)
        PROVE  StateOfLiveOnly'
    BY <2>2 DEF Subscribe, Close, CloseDrained, ConditionReady, ForgetSubs,
                StateOfLiveOnly, TypeOK
  <2>3. CASE Shutdown \/ Halt \/ Restart
    BY <2>3 DEF Shutdown, Halt, Restart, ForgetSubs, Live, StateOfLiveOnly, TypeOK
  <2>4. ASSUME NEW s \in Subs, conn[s] = "live", conn' = conn,
               \A x \in Subs : x # s => cond'[x] = cond[x] /\ turns'[x] = turns[x]
        PROVE  StateOfLiveOnly'
    BY <2>4 DEF StateOfLiveOnly
  <2>5. ASSUME NEW s \in Subs, ConditionDegraded(s) PROVE StateOfLiveOnly'
    BY <2>4, <2>5 DEF ConditionDegraded, DegradeInOrder
  <2>6. ASSUME NEW s \in Subs, NEW t \in Turns, NEW failed \in BOOLEAN,
               TurnCompleted(s, t, failed)
        PROVE  StateOfLiveOnly'
    <3>1. \A x \in Subs : x # s => turns'[x] = turns[x]
      BY <2>6 DEF TurnCompleted, TypeOK
    <3>2. \A x \in Subs : x # s => cond'[x] = cond[x]
      BY <2>6 DEF TurnCompleted, DegradeInOrder
    <3>3. QED
      BY <2>4, <2>6, <3>1, <3>2 DEF TurnCompleted
  <2>7. ASSUME NEW s \in Subs, NEW t \in Turns, TurnStarted(s, t) PROVE StateOfLiveOnly'
    BY <2>4, <2>7 DEF TurnStarted, TypeOK
  <2>8. ASSUME NEW s \in Subs, NEW t \in Turns, AgeTurn(s, t) PROVE StateOfLiveOnly'
    <3>1. conn[s] = "live"
      BY <2>8 DEF AgeTurn, StateOfLiveOnly, NoTurns
    <3>2. QED
      BY <2>4, <2>8, <3>1 DEF AgeTurn, TypeOK
  <2>9. CASE SweepOpenTurns
    <3>1. PICK order \in Orders(Overdue) : DegradeInOrder(order)
      BY <2>9 DEF SweepOpenTurns
    <3>2. \A s \in Overdue : conn[s] = "live"
      BY DEF Overdue, StateOfLiveOnly, NoTurns
    <3>3. \A i \in DOMAIN order : order[i] \in Overdue
      BY <3>1 DEF Orders
    <3>4. \A s \in Subs : conn[s] # "live" => cond'[s] = cond[s]
      BY <3>1, <3>2, <3>3 DEF DegradeInOrder
    <3>5. \A s \in Subs : conn[s] # "live" => turns'[s] = NoTurns
      BY <2>9 DEF SweepOpenTurns, StateOfLiveOnly, NoTurns
    <3>6. QED
      BY <2>9, <3>4, <3>5 DEF SweepOpenTurns, StateOfLiveOnly
  <2>10. QED
    BY ZenonT(60), <2>1, <2>2, <2>3, <2>5, <2>6, <2>7, <2>8, <2>9
    DEF Next, vars, PushAppend, PushDeliver, Age, Accept, Defer, ResendOne,
        Settle, NotifySender, BlockToken, SweepExpired
<1>3. QED
  BY <1>1, <1>2, TypeCorrect, PTL DEF Spec

(* Every ready runner of a member has, or will have, what awaits that       *)
(* member, unless some runner of the member has it.                         *)
EveryReadyIsServed ==
    server = "up" =>
        \A n \in Members : \A m \in PendingOf(n), x \in ReadySubs(n) :
            \/ m \in got[x] \cup resend[x]
            \/ \E s \in Subs : MemberOf[s] = n /\ m \in got[s]

LEMMA ServedImpliesNotPassedOver == EveryReadyIsServed => NotPassedOver
BY DEF EveryReadyIsServed, NotPassedOver, ReadySubs, SubsOf, PendingOf

(* What can make it false: a message that becomes pending, a runner that    *)
(* becomes ready, or something sent that is lost to a ready runner.         *)
LEMMA ServedStays ==
    ASSUME EveryReadyIsServed, server = "up",
           \A s \in Subs : got[s] \subseteq got'[s],
           \A n \in Members : ReadySubs(n)' \subseteq ReadySubs(n),
           \A n \in Members, x \in Subs :
              x \in ReadySubs(n) => resend[x] \subseteq resend'[x] \cup got'[x],
           \A n \in Members, m \in Msgs :
              m \in PendingOf(n)' => \/ m \in PendingOf(n)
                                     \/ \E s \in Subs : MemberOf[s] = n /\ m \in got'[s]
    PROVE  EveryReadyIsServed'
<1> SUFFICES ASSUME NEW n \in Members, NEW m \in PendingOf(n)', NEW x \in ReadySubs(n)'
             PROVE  \/ m \in got'[x] \cup resend'[x]
                    \/ \E s \in Subs : MemberOf[s] = n /\ m \in got'[s]
  BY DEF EveryReadyIsServed
<1>1. m \in Msgs
  BY DEF PendingOf
<1>2. x \in Subs /\ x \in ReadySubs(n)
  BY DEF ReadySubs, SubsOf
<1>3. CASE m \in PendingOf(n)
  <2>1. \/ m \in got[x] \cup resend[x]
        \/ \E s \in Subs : MemberOf[s] = n /\ m \in got[s]
    BY <1>2, <1>3 DEF EveryReadyIsServed
  <2>2. QED
    BY <1>2, <2>1
<1>4. QED
  BY <1>1, <1>3

(* Releasing a lease makes pending only what its owner was sent.            *)
LEMMA ReleasedWasSent ==
    ASSUME TypeOK, LeaseOwnerIsLive, server = "up", NEW S \in SUBSET Subs,
           ReleaseOwners(S), late \subseteq late',
           NEW n \in Members, NEW m \in Msgs, m \in PendingOf(n)'
    PROVE  m \in PendingOf(n) \/ \E s \in Subs : MemberOf[s] = n /\ m \in got[s]
<1> DEFINE r == <<m, n>>
<1>1. r \in Rows /\ r[1] = m /\ r[2] = n
  BY DEF Rows
<1>2. m \notin late /\ row'[r].kept /\ row'[r].st = "pending"
  BY DEF PendingOf, IsPending
<1>3. row'[r] = ReleasedRow(r, S)
  BY <1>1 DEF ReleaseOwners
<1>4. CASE row'[r] = row[r]
  BY <1>2, <1>4 DEF PendingOf, IsPending
<1>5. CASE row'[r] # row[r]
  <2>1. HasLease(r)
    BY <1>3, <1>5 DEF ReleasedRow, Leased, HasLease
  <2>2. OwnerIsLive(r)
    BY <1>1, <2>1 DEF LeaseOwnerIsLive
  <2>3. QED
    BY <1>1, <2>2 DEF OwnerIsLive
<1>6. QED
  BY <1>4, <1>5

LEMMA DegradeServes ==
    ASSUME TypeOK, LeaseOwnerIsLive, EveryReadyIsServed, server = "up",
           NEW k, NEW order \in [k -> Subs], DegradeInOrder(order),
           UNCHANGED <<conn, revoked, got, late>>
    PROVE  EveryReadyIsServed'
<1> DEFINE gone == {order[i] : i \in DOMAIN order}
<1>1. gone \in SUBSET Subs /\ ReleaseOwners(gone)
  BY DEF DegradeInOrder
<1>2. cond' = [s \in Subs |-> IF s \in gone THEN "degraded" ELSE cond[s]]
  BY DEF DegradeInOrder
<1>3. \A s \in Subs : resend[s] \subseteq resend'[s]
  <2>1. PICK to : resend' = [s \in Subs |-> resend[s] \cup Redelivered(order, to, s)]
    BY DEF DegradeInOrder
  <2>2. QED
    BY <2>1
<1> HIDE DEF gone
<1>4. \A n \in Members : ReadySubs(n)' \subseteq ReadySubs(n)
  BY <1>2 DEF ReadySubs, SubsOf, SubscriberReady, SupportsDisposition
<1>5. \A n \in Members, m \in Msgs :
         m \in PendingOf(n)' => \/ m \in PendingOf(n)
                                \/ \E s \in Subs : MemberOf[s] = n /\ m \in got[s]
  BY <1>1, ReleasedWasSent
<1>6. QED
  BY <1>3, <1>4, <1>5, ServedStays

(* Redelivery: while a member has a ready runner, what awaits the member    *)
(* has been sent, or is being sent, to a runner of that member (broker.push *)
(* and every caller of redeliverPending).                                   *)
THEOREM NothingIsPassedOver == Spec => []NotPassedOver
<1>1. Init => EveryReadyIsServed
  BY DEF Init, EveryReadyIsServed, PendingOf, IsPending, NoRow, Rows
<1>2. TypeOK /\ SocketsFollowServer /\ LeaseOwnerIsLive /\ StateOfLiveOnly
         /\ EveryReadyIsServed /\ [Next]_vars => EveryReadyIsServed'
  <2> SUFFICES ASSUME TypeOK, SocketsFollowServer, LeaseOwnerIsLive, StateOfLiveOnly,
                      EveryReadyIsServed, [Next]_vars, server' = "up"
               PROVE  EveryReadyIsServed'
    BY DEF EveryReadyIsServed
  <2> USE DEF sessionVars
  <2>1. ASSUME server = "up", UNCHANGED <<conn, cond, revoked>>, late \subseteq late',
               \A s \in Subs : /\ got[s] \subseteq got'[s]
                               /\ resend[s] \subseteq resend'[s] \cup got'[s],
               \A r \in Rows : IsPending(r)' => IsPending(r)
        PROVE  EveryReadyIsServed'
    <3>1. \A n \in Members : ReadySubs(n)' = ReadySubs(n)
      BY <2>1 DEF ReadySubs, SubsOf, SubscriberReady, SupportsDisposition
    <3>2. \A n \in Members, m \in Msgs : m \in PendingOf(n)' => m \in PendingOf(n)
      <4>1. \A n \in Members, m \in Msgs : <<m, n>> \in Rows
        BY DEF Rows
      <4>2. QED
        BY <2>1, <4>1 DEF PendingOf
    <3>3. QED
      BY <2>1, <3>1, <3>2, ServedStays
  <2>2. ASSUME NEW m \in Msgs, PushAppend(m) \/ Age(m) PROVE EveryReadyIsServed'
    BY <2>1, <2>2 DEF PushAppend, Age, IsPending
  <2>3. ASSUME NEW m \in Msgs, PushDeliver(m) PROVE EveryReadyIsServed'
    <3>1. PICK pick \in [AudienceOf[m] -> Subs \cup {NoSub}] :
             /\ \A n \in AudienceOf[m] : pick[n] \in SelectedRunner(n)
             /\ got' = [s \in Subs |-> IF FanoutReaches(m, s, pick)
                                       THEN got[s] \cup {m} ELSE got[s]]
      BY <2>3 DEF PushDeliver
    <3>2. \A s \in Subs : got[s] \subseteq got'[s]
      BY <3>1
    <3>3. \A n \in Members : ReadySubs(n)' = ReadySubs(n)
      BY <2>3 DEF PushDeliver, ReadySubs, SubsOf, SubscriberReady, SupportsDisposition
    <3>4. SUFFICES ASSUME NEW n \in Members, NEW x \in PendingOf(n)', NEW y \in ReadySubs(n)
                   PROVE  \/ x \in got'[y] \cup resend'[y]
                          \/ \E s \in Subs : MemberOf[s] = n /\ x \in got'[s]
      BY <3>3 DEF EveryReadyIsServed
    <3>5. /\ x \in Msgs /\ <<x, n>> \in Rows /\ y \in Subs
          /\ <<x, n>>[1] = x /\ <<x, n>>[2] = n
      BY DEF PendingOf, Rows, ReadySubs, SubsOf
    <3>6. CASE row'[<<x, n>>] = row[<<x, n>>]
      <4>1. x \in PendingOf(n)
        BY <2>3, <3>5, <3>6 DEF PushDeliver, PendingOf, IsPending
      <4>2. \/ x \in got[y] \cup resend[y]
            \/ \E s \in Subs : MemberOf[s] = n /\ x \in got[s]
        BY <2>3, <4>1 DEF PushDeliver, EveryReadyIsServed
      <4>3. QED
        BY <2>3, <3>2, <3>5, <4>2 DEF PushDeliver
    <3>7. CASE row'[<<x, n>>] # row[<<x, n>>]
      <4>1. x = m /\ n \in AudienceOf[m]
        BY <2>3, <3>5, <3>7 DEF PushDeliver
      <4>2. pick[n] \in ReadySubs(n)
        BY <3>1, <4>1 DEF SelectedRunner
      <4>3. pick[n] \in Subs /\ MemberOf[pick[n]] = n /\ conn[pick[n]] = "live"
        BY <4>2 DEF ReadySubs, SubsOf
      <4>4. FanoutReaches(m, pick[n], pick)
        BY <4>1, <4>3 DEF FanoutReaches
      <4>5. QED
        BY <3>1, <4>1, <4>3, <4>4
    <3>8. QED
      BY <3>6, <3>7
  <2>4. ASSUME NEW s \in Subs, Subscribe(s) PROVE EveryReadyIsServed'
    <3>1. conn[s] = "new" /\ cond[s] = "none"
      BY <2>4 DEF Subscribe, StateOfLiveOnly
    <3>2. \A n \in Members : ReadySubs(n)' \subseteq ReadySubs(n) /\ s \notin ReadySubs(n)
      BY <2>4, <3>1 DEF Subscribe, ReadySubs, SubsOf, SubscriberReady,
                        SupportsDisposition, TypeOK
    <3>3. \A x \in Subs : x # s => resend'[x] = resend[x]
      BY <2>4 DEF Subscribe, TypeOK
    <3>4. \A n \in Members : PendingOf(n)' = PendingOf(n)
      BY <2>4 DEF Subscribe, PendingOf, IsPending
    <3>5. server = "up" /\ got' = got
      BY <2>4 DEF Subscribe
    <3>6. QED
      BY <3>2, <3>3, <3>4, <3>5, ServedStays
  <2>5. ASSUME NEW s \in Subs, Close(s) PROVE EveryReadyIsServed'
    <3>1. {s} \in SUBSET Subs /\ ReleaseOwners({s}) /\ UNCHANGED <<late, got, resend, revoked>>
          /\ server = "up"
      BY <2>5 DEF Close, ForgetSubs
    <3>2. \A n \in Members : ReadySubs(n)' \subseteq ReadySubs(n)
      BY <2>5, <3>1 DEF Close, ForgetSubs, ReadySubs, SubsOf, SubscriberReady,
                        SupportsDisposition
    <3>3. \A n \in Members, m \in Msgs :
             m \in PendingOf(n)' => \/ m \in PendingOf(n)
                                    \/ \E c \in Subs : MemberOf[c] = n /\ m \in got[c]
      BY <3>1, ReleasedWasSent
    <3>4. QED
      BY <3>1, <3>2, <3>3, ServedStays
  <2>6. ASSUME NEW s \in Subs, CloseDrained(s) PROVE EveryReadyIsServed'
    BY <2>6 DEF CloseDrained, SocketsFollowServer
  <2>7. ASSUME NEW s \in Subs, ConditionDegraded(s) PROVE EveryReadyIsServed'
    <3>1. [i \in {1} |-> s] \in [{1} -> Subs]
      OBVIOUS
    <3>2. QED
      BY <2>7, <3>1, DegradeServes DEF ConditionDegraded
  <2>8. ASSUME NEW s \in Subs, ConditionReady(s) PROVE EveryReadyIsServed'
    <3>1. /\ \A x \in Subs : x # s => cond'[x] = cond[x]
          /\ \A x \in Subs : resend[x] \subseteq resend'[x]
          /\ PendingOf(MemberOf[s]) \subseteq resend'[s]
          /\ server = "up" /\ UNCHANGED <<conn, revoked, row, late, got>>
      BY <2>8 DEF ConditionReady, TypeOK
    <3>2. SUFFICES ASSUME NEW n \in Members, NEW m \in PendingOf(n)',
                          NEW x \in ReadySubs(n)'
                   PROVE  \/ m \in got'[x] \cup resend'[x]
                          \/ \E c \in Subs : MemberOf[c] = n /\ m \in got'[c]
      BY DEF EveryReadyIsServed
    <3>3. m \in PendingOf(n) /\ x \in Subs /\ MemberOf[x] = n
      BY <3>1 DEF PendingOf, IsPending, ReadySubs, SubsOf
    <3>4. CASE x = s
      BY <3>1, <3>3, <3>4
    <3>5. CASE x # s
      <4>1. x \in ReadySubs(n)
        BY <3>1, <3>5 DEF ReadySubs, SubsOf, SubscriberReady, SupportsDisposition
      <4>2. QED
        BY <3>1, <3>3, <4>1 DEF EveryReadyIsServed
    <3>6. QED
      BY <3>4, <3>5
  <2>9. ASSUME NEW s \in Subs, NEW t \in Turns, TurnStarted(s, t) \/ AgeTurn(s, t)
        PROVE  EveryReadyIsServed'
    BY <2>1, <2>9 DEF TurnStarted, AgeTurn, IsPending
  <2>10. ASSUME NEW s \in Subs, NEW t \in Turns, NEW failed \in BOOLEAN,
                TurnCompleted(s, t, failed)
         PROVE  EveryReadyIsServed'
    <3>1. [i \in {1} |-> s] \in [{1} -> Subs]
      OBVIOUS
    <3>2. CASE DegradeInOrder([i \in {1} |-> s])
      BY <2>10, <3>1, <3>2, DegradeServes DEF TurnCompleted
    <3>3. CASE UNCHANGED <<cond, row, resend>>
      BY <2>1, <2>10, <3>3 DEF TurnCompleted, IsPending
    <3>4. QED
      BY <2>10, <3>2, <3>3 DEF TurnCompleted
  <2>11. ASSUME NEW s \in Subs, NEW m \in Msgs, Accept(s, m) PROVE EveryReadyIsServed'
    <3> DEFINE q == <<m, MemberOf[s]>>
    <3>1. IsPending(q) /\ server = "up" /\ UNCHANGED <<conn, cond, revoked, late, got, resend>>
      BY <2>11 DEF Accept
    <3>2. \A x \in Rows : x # q => row'[x] = row[x]
      BY <2>11, AcceptChanges
    <3> HIDE DEF q
    <3>3. \A r \in Rows : IsPending(r)' => IsPending(r)
      BY <3>1, <3>2 DEF IsPending
    <3>4. QED
      BY <2>1, <3>1, <3>3
  <2>12. ASSUME NEW s \in Subs, NEW m \in Msgs, Defer(s, m) PROVE EveryReadyIsServed'
    <3> DEFINE q == <<m, MemberOf[s]>>
    <3>1. \A x \in Rows : x # q => row'[x] = row[x]
      BY <2>12, DeferChanges
    <3>2. /\ m \in got[s] /\ server = "up"
          /\ UNCHANGED <<conn, cond, revoked, late, got, resend>>
      BY <2>12 DEF Defer, FrameFrom
    <3>3. \A n \in Members : ReadySubs(n)' = ReadySubs(n)
      BY <3>2 DEF ReadySubs, SubsOf, SubscriberReady, SupportsDisposition
    <3>4. \A n \in Members, x \in Msgs :
             x \in PendingOf(n)' => \/ x \in PendingOf(n)
                                    \/ \E c \in Subs : MemberOf[c] = n /\ x \in got[c]
      <4>1. SUFFICES ASSUME NEW n \in Members, NEW x \in Msgs, x \in PendingOf(n)'
                     PROVE  \/ x \in PendingOf(n)
                            \/ \E c \in Subs : MemberOf[c] = n /\ x \in got[c]
        OBVIOUS
      <4>2. CASE <<x, n>> = q
        BY <3>2, <4>2
      <4>3. CASE <<x, n>> # q
        <5>1. row'[<<x, n>>] = row[<<x, n>>]
          BY <3>1, <4>3 DEF Rows
        <5>2. QED
          BY <3>2, <4>1, <5>1 DEF PendingOf, IsPending
      <4>4. QED
        BY <4>2, <4>3
    <3>5. QED
      BY <3>2, <3>3, <3>4, ServedStays
  <2>13. ASSUME NEW s \in Subs, NEW m \in Msgs, ResendOne(s, m) PROVE EveryReadyIsServed'
    <3>1. server = "up" /\ UNCHANGED <<conn, cond, revoked, late>>
      BY <2>13 DEF ResendOne
    <3>2. \A n \in Members : ReadySubs(n)' = ReadySubs(n)
      BY <3>1 DEF ReadySubs, SubsOf, SubscriberReady, SupportsDisposition
    <3>3. \A x \in Subs : got[x] \subseteq got'[x]
      BY <2>13 DEF ResendOne, TypeOK
    <3>4. \A n \in Members, x \in Subs :
             x \in ReadySubs(n) => resend[x] \subseteq resend'[x] \cup got'[x]
      BY <2>13 DEF ResendOne, ReadySubs, SubsOf, TypeOK
    <3>5. \A r \in Rows : IsPending(r)' => IsPending(r)
      <4> DEFINE q == <<m, MemberOf[s]>>
                 x == [row[q] EXCEPT !.st = "unreported", !.by = s]
      <4>1. row' = row \/ row' = [row EXCEPT ![q] = x]
        BY <2>13 DEF ResendOne
      <4>2. q \in Rows /\ x.st = "unreported"
        BY RowOf DEF RowRecord
      <4> HIDE DEF q, x
      <4>3. row' = row \/ (row'[q] = x /\ \A r \in Rows : r # q => row'[r] = row[r])
        BY <4>1, <4>2, OneRowChanged
      <4>4. QED
        BY <4>2, <4>3 DEF IsPending
    <3>6. \A n \in Members, x \in Msgs : x \in PendingOf(n)' => x \in PendingOf(n)
      <4>1. \A n \in Members, x \in Msgs : <<x, n>> \in Rows
        BY DEF Rows
      <4>2. QED
        BY <3>1, <3>5, <4>1 DEF PendingOf
    <3>7. QED
      BY <3>1, <3>2, <3>3, <3>4, <3>6, ServedStays
  <2>14. ASSUME NEW s \in Subs, NEW m \in Msgs,
                NEW d \in {"acted", "handled", "refused"}, Settle(s, m, d)
         PROVE  EveryReadyIsServed'
    <3> DEFINE q == <<m, MemberOf[s]>>
    <3>1. row'[q].st = d /\ \A x \in Rows : x # q => row'[x] = row[x]
      BY <2>14, SettleChanges
    <3>2. server = "up" /\ UNCHANGED <<conn, cond, revoked, late, got, resend>>
      BY <2>14 DEF Settle
    <3> HIDE DEF q
    <3>3. \A r \in Rows : IsPending(r)' => IsPending(r)
      BY <3>1 DEF IsPending
    <3>4. QED
      BY <2>1, <3>2, <3>3
  <2>15. ASSUME NEW r \in Rows, NotifySender(r) PROVE EveryReadyIsServed'
    BY <2>1, <2>15 DEF NotifySender, IsPending
  <2>16. ASSUME NEW k \in Tokens, BlockToken(k) PROVE EveryReadyIsServed'
    <3> DEFINE hit == {s \in Subs : conn[s] = "live" /\ TokenOf[s] \in revoked \cup {k}}
    <3>1. /\ hit \in SUBSET Subs /\ ReleaseOwners(hit) /\ server = "up"
          /\ UNCHANGED <<conn, cond, late, got>> /\ revoked \subseteq revoked'
      BY <2>16 DEF BlockToken
    <3>2. \A s \in Subs : resend[s] \subseteq resend'[s]
      <4> DEFINE members == {MemberOf[s] : s \in hit}
      <4>1. PICK to : resend' = [s \in Subs |->
                    IF MemberOf[s] \in members /\ to[MemberOf[s]] = s
                    THEN resend[s] \cup PendingAfter(MemberOf[s], hit)
                    ELSE resend[s]]
        BY <2>16 DEF BlockToken
      <4> HIDE DEF hit, members
      <4>2. QED
        BY <4>1
    <3> HIDE DEF hit
    <3>3. \A n \in Members : ReadySubs(n)' \subseteq ReadySubs(n)
      BY <3>1 DEF ReadySubs, SubsOf, SubscriberReady, SupportsDisposition
    <3>4. \A n \in Members, m \in Msgs :
             m \in PendingOf(n)' => \/ m \in PendingOf(n)
                                    \/ \E s \in Subs : MemberOf[s] = n /\ m \in got[s]
      BY <3>1, ReleasedWasSent
    <3>5. QED
      BY <3>1, <3>2, <3>3, <3>4, ServedStays
  <2>17. ASSUME SweepOpenTurns PROVE EveryReadyIsServed'
    <3>1. PICK order \in Orders(Overdue) : DegradeInOrder(order)
      BY <2>17 DEF SweepOpenTurns
    <3>2. order \in [1..Cardinality(Overdue) -> Subs]
      BY <3>1 DEF Orders, Overdue
    <3>3. QED
      BY <2>17, <3>1, <3>2, DegradeServes DEF SweepOpenTurns
  <2>18. ASSUME SweepExpired PROVE EveryReadyIsServed'
    <3>1. \A r \in Rows : IsPending(r)' => IsPending(r)
      BY <2>18 DEF SweepExpired, IsPending, TypeOK, RowRecord
    <3>2. server = "up" /\ UNCHANGED <<conn, cond, revoked, late, got, resend>>
      BY <2>18 DEF SweepExpired
    <3>3. QED
      BY <2>1, <3>1, <3>2
  <2>19. ASSUME Restart PROVE EveryReadyIsServed'
    <3>1. \A n \in Members : ReadySubs(n)' = {}
      BY <2>19 DEF Restart, SocketsFollowServer, ReadySubs, SubsOf
    <3>2. QED
      BY <3>1 DEF EveryReadyIsServed
  <2>20. ASSUME Shutdown \/ Halt PROVE FALSE
    BY <2>20 DEF Shutdown, Halt
  <2>21. CASE UNCHANGED vars
    BY <2>1, <2>21 DEF vars, IsPending
  <2>22. QED
    BY <2>2, <2>3, <2>4, <2>5, <2>6, <2>7, <2>8, <2>9, <2>10, <2>11, <2>12, <2>13,
       <2>14, <2>15, <2>16, <2>17, <2>18, <2>19, <2>20, <2>21 DEF Next
<1>3. QED
  BY <1>1, <1>2, ServedImpliesNotPassedOver, TypeCorrect, SocketsFollow,
     LeasesHaveLiveOwners, OnlyLiveHaveState, PTL DEF Spec
-----------------------------------------------------------------------------
(* A non-empty set of positions has a last one.                             *)
LEMMA LastIndex ==
    ASSUME NEW N \in Nat, NEW I \in SUBSET (1..N), I # {}
    PROVE  \E i \in I : \A j \in I : j <= i
<1> DEFINE T == {N - i : i \in I}
<1>1. \A i \in I : i \in 1..N /\ N - i \in Nat
  OBVIOUS
<1>2. T \subseteq Nat /\ T # {}
  BY <1>1
<1>3. PICK t \in T : \A u \in T : ~(<<u, t>> \in OpToRel(<, Nat))
  BY <1>2, NatLessThanWellFounded, WFMin
<1>4. \A u \in T : ~(u < t)
  BY <1>2, <1>3 DEF OpToRel
<1>5. PICK i \in I : t = N - i
  BY <1>3
<1>6. \A j \in I : ~(N - j < N - i)
  BY <1>4, <1>5
<1>7. QED
  BY <1>1, <1>5, <1>6

(* Turns become overdue one by one, so the sweep has finitely many to do.   *)
OverdueFinite == IsFiniteSet(Overdue)

LEMMA OverdueIsFinite == Spec => []OverdueFinite
<1>1. Init => OverdueFinite
  <2>1. Init => Overdue = {}
    BY DEF Init, Overdue, NoTurns
  <2>2. QED
    BY <2>1, FS_EmptySet DEF OverdueFinite
<1>2. TypeOK /\ OverdueFinite /\ [Next]_vars => OverdueFinite'
  <2> SUFFICES ASSUME TypeOK, OverdueFinite, [Next]_vars PROVE OverdueFinite'
    OBVIOUS
  <2> USE DEF sessionVars
  <2>1. ASSUME \A s \in Subs, t \in Turns :
                  turns'[s][t] = "overdue" => turns[s][t] = "overdue"
        PROVE  OverdueFinite'
    <3>1. Overdue' \subseteq Overdue
      BY <2>1 DEF Overdue
    <3>2. QED
      BY <3>1, FS_Subset DEF OverdueFinite
  <2>2. CASE UNCHANGED turns
    BY <2>1, <2>2
  <2>3. ASSUME NEW S \in SUBSET Subs, NEW next, ForgetSubs(S, next)
        PROVE  OverdueFinite'
    BY <2>1, <2>3 DEF ForgetSubs, NoTurns
  <2>4. ASSUME NEW s \in Subs, Close(s) PROVE OverdueFinite'
    BY <2>3, <2>4 DEF Close
  <2>5. ASSUME NEW s \in Subs, NEW t \in Turns, TurnStarted(s, t) PROVE OverdueFinite'
    BY <2>1, <2>5 DEF TurnStarted, TypeOK
  <2>6. ASSUME NEW s \in Subs, NEW t \in Turns, AgeTurn(s, t) PROVE OverdueFinite'
    <3>1. Overdue' \subseteq Overdue \cup {s}
      BY <2>6 DEF AgeTurn, Overdue, TypeOK
    <3>2. IsFiniteSet(Overdue \cup {s})
      BY FS_AddElement DEF OverdueFinite
    <3>3. QED
      BY <3>1, <3>2, FS_Subset DEF OverdueFinite
  <2>7. ASSUME NEW s \in Subs, NEW t \in Turns, NEW failed \in BOOLEAN,
               TurnCompleted(s, t, failed)
        PROVE  OverdueFinite'
    BY <2>1, <2>7 DEF TurnCompleted, TypeOK
  <2>8. CASE SweepOpenTurns
    BY <2>1, <2>8 DEF SweepOpenTurns
  <2>9. CASE Shutdown
    BY <2>3, <2>9 DEF Shutdown, Live
  <2>10. CASE Halt
    BY <2>1, <2>10 DEF Halt, NoTurns
  <2>11. QED
    BY ZenonT(60), <2>2, <2>4, <2>5, <2>6, <2>7, <2>8, <2>9, <2>10
    DEF Next, vars, PushAppend, PushDeliver, Age, Subscribe, CloseDrained,
        ConditionDegraded, ConditionReady, Accept, Defer, ResendOne, Settle,
        NotifySender, BlockToken, SweepExpired, Restart
<1>3. QED
  BY <1>1, <1>2, TypeCorrect, PTL DEF Spec

(* A lease that is released was held by one of those who let go.            *)
LEMMA ReleasedWasHeld ==
    ASSUME TypeOK, NEW S \in SUBSET Subs, ReleaseOwners(S), NEW r \in Rows,
           NEW s \in Subs, Leased(r, s), ~Leased(r, s)'
    PROVE  s \in S
<1>1. row'[r] = ReleasedRow(r, S)
  BY DEF ReleaseOwners
<1>2. row'[r] # row[r]
  BY DEF Leased
<1>3. QED
  BY <1>1, <1>2, ReleasedRowCases DEF Leased

(* Degrading runners one after the other: what the last of a member's       *)
(* runners held is offered to one that stays ready.                         *)
LEMMA DegradeReassigns ==
    ASSUME TypeOK, NEW N \in Nat, NEW order \in [1..N -> Subs],
           DegradeInOrder(order), UNCHANGED <<conn, revoked>>,
           NEW s \in Subs, NEW m \in Msgs \ late,
           Leased(<<m, MemberOf[s]>>, s), ~Leased(<<m, MemberOf[s]>>, s)',
           ReadySubs(MemberOf[s])' # {}
    PROVE  \E x \in ReadySubs(MemberOf[s])' : m \in resend'[x]
<1> DEFINE n == MemberOf[s]
           gone == {order[i] : i \in DOMAIN order}
           I == {i \in 1..N : MemberOf[order[i]] = n}
<1>1. gone \in SUBSET Subs /\ ReleaseOwners(gone)
      /\ cond' = [x \in Subs |-> IF x \in gone THEN "degraded" ELSE cond[x]]
  BY DEF DegradeInOrder
<1>2. PICK to : /\ \A i \in DOMAIN order :
                      to[i] \in Target(ReadySubs(MemberOf[order[i]]) \ UpTo(order, i))
                /\ resend' = [x \in Subs |-> resend[x] \cup Redelivered(order, to, x)]
  BY DEF DegradeInOrder
<1>3. s \in gone
  <2> HIDE DEF gone
  <2>1. QED
    BY <1>1, RowOf, ReleasedWasHeld
<1>4. PICK i0 \in 1..N : order[i0] = s
  BY <1>3
<1>5. I \in SUBSET (1..N) /\ I # {}
  BY <1>4
<1>6. PICK i \in I : \A j \in I : j <= i
  <2> HIDE DEF I
  <2>1. QED
    BY <1>5, LastIndex
<1>7. i \in DOMAIN order /\ MemberOf[order[i]] = n
  BY <1>6
<1>8. s \in UpTo(order, i)
  BY <1>4, <1>6 DEF UpTo
<1>9. \A x \in gone : MemberOf[x] = n => x \in UpTo(order, i)
  BY <1>6 DEF UpTo
<1>10. UpTo(order, i) \subseteq gone
  BY DEF UpTo
<1> HIDE DEF gone, I
<1>11. ReadySubs(n)' = ReadySubs(n) \ gone
  BY <1>1 DEF ReadySubs, SubsOf, SubscriberReady, SupportsDisposition
<1>12. ReadySubs(n) \ UpTo(order, i) = ReadySubs(n)'
  BY <1>9, <1>10, <1>11 DEF ReadySubs, SubsOf
<1>13. to[i] \in ReadySubs(n)'
  BY <1>2, <1>7, <1>12 DEF Target
<1>14. m \in PendingAfter(MemberOf[order[i]], UpTo(order, i))
  BY <1>7, <1>8 DEF PendingAfter
<1>15. m \in Redelivered(order, to, to[i])
  BY <1>7, <1>14 DEF Redelivered
<1>16. to[i] \in Subs
  BY <1>13 DEF ReadySubs, SubsOf
<1>17. QED
  BY <1>2, <1>13, <1>15, <1>16

(* The body of ReassignedAtOnce for one message of one subscription.        *)
Reassigned(s, m) ==
    LET r == <<m, MemberOf[s]>>
    IN  /\ Leased(r, s)
        /\ ~Leased(r, s)' /\ IsPending(r)'
        /\ conn'[s] = "live"
        /\ ~Deferred(r)
        /\ ReadySubs(MemberOf[s])' # {}
        => \E x \in ReadySubs(MemberOf[s])' : m \in resend'[x]

(* Reassignment: a lease taken from a subscription that stays connected is  *)
(* offered at once to a subscription that is ready afterwards               *)
(* (runnerCondition, runnerTurn, sweepOpenTurnBackstops, blockTokens).      *)
THEOREM LeasesAreReassigned == Spec => ReassignedAtOnce
<1>1. TypeOK /\ SocketsFollowServer /\ OverdueFinite /\ [Next]_vars
         => [\A s \in Subs : \A m \in Msgs \ late : Reassigned(s, m)]_vars
  <2> SUFFICES ASSUME TypeOK, SocketsFollowServer, OverdueFinite, Next,
                      NEW c \in Subs, NEW x \in Msgs \ late
               PROVE  Reassigned(c, x)
    OBVIOUS
  <2> DEFINE r == <<x, MemberOf[c]>>
  <2> SUFFICES ASSUME Leased(r, c), ~Leased(r, c)', IsPending(r)', conn'[c] = "live",
                      ~Deferred(r), ReadySubs(MemberOf[c])' # {}
               PROVE  \E y \in ReadySubs(MemberOf[c])' : x \in resend'[y]
    BY DEF Reassigned
  <2> DEFINE Goal == \E y \in ReadySubs(MemberOf[c])' : x \in resend'[y]
  <2> USE DEF sessionVars
  <2> HIDE DEF Goal
  <2>1. r \in Rows /\ r[1] = x /\ r[2] = MemberOf[c]
    BY RowOf
  <2>2. row'[r] # row[r]
    BY DEF Leased
  <2>3. row[r].st = "accepted" /\ row[r].owner = c /\ row[r].kept /\ row'[r].st = "pending"
    BY DEF Leased, IsPending
  <2> HIDE DEF r
  <2>4. ASSUME UNCHANGED row PROVE Goal
    BY <2>2, <2>4
  <2>5. ASSUME NEW N \in Nat, NEW order \in [1..N -> Subs], DegradeInOrder(order),
               UNCHANGED <<conn, revoked>>
        PROVE  Goal
    BY <2>5, DegradeReassigns DEF Goal, r
  <2>6. ASSUME NEW m \in Msgs, PushDeliver(m) PROVE Goal
    <3>1. row'[r] = TrackedRow(r) \/ row'[r] = row[r]
      BY <2>1, <2>6 DEF PushDeliver
    <3>2. QED
      BY <2>2, <2>3, <3>1 DEF TrackedRow
  <2>7. ASSUME NEW s \in Subs, Close(s) PROVE Goal
    <3>1. {s} \in SUBSET Subs /\ ReleaseOwners({s}) /\ conn'[s] = "closed"
      BY <2>7 DEF Close, ForgetSubs
    <3>2. c \in {s}
      BY <2>1, <3>1, ReleasedWasHeld
    <3>3. QED
      BY <3>1, <3>2
  <2>8. ASSUME NEW s \in Subs, ConditionDegraded(s) PROVE Goal
    <3>1. [i \in {1} |-> s] \in [1..1 -> Subs]
      OBVIOUS
    <3>2. QED
      BY <2>5, <2>8, <3>1 DEF ConditionDegraded
  <2>9. ASSUME NEW s \in Subs, NEW t \in Turns, NEW failed \in BOOLEAN,
               TurnCompleted(s, t, failed)
        PROVE  Goal
    <3>1. [i \in {1} |-> s] \in [1..1 -> Subs]
      OBVIOUS
    <3>2. CASE DegradeInOrder([i \in {1} |-> s])
      BY <2>5, <2>9, <3>1, <3>2 DEF TurnCompleted
    <3>3. CASE UNCHANGED row
      BY <2>4, <3>3
    <3>4. QED
      BY <2>9, <3>2, <3>3 DEF TurnCompleted
  <2>10. ASSUME NEW s \in Subs, NEW m \in Msgs, Accept(s, m) PROVE Goal
    <3>1. row[<<m, MemberOf[s]>>].st = "pending"
      BY <2>10 DEF Accept, IsPending
    <3>2. r # <<m, MemberOf[s]>>
      BY <2>3, <3>1
    <3>3. \A y \in Rows : y # <<m, MemberOf[s]>> => row'[y] = row[y]
      BY <2>10, AcceptChanges
    <3>4. QED
      BY <2>1, <2>2, <3>2, <3>3
  <2>11. ASSUME NEW s \in Subs, NEW m \in Msgs, Defer(s, m) PROVE Goal
    <3>1. r = <<m, MemberOf[s]>>
      BY <2>1, <2>2, <2>11, DeferChanges
    <3>2. m = x /\ MemberOf[s] = r[2]
      BY <2>1, <3>1
    <3>3. Deferred(r)
      BY <2>1, <2>11, <3>2 DEF Deferred
    <3>4. QED
      BY <3>3
  <2>12. ASSUME NEW s \in Subs, NEW m \in Msgs, ResendOne(s, m) PROVE Goal
    <3> DEFINE q == <<m, MemberOf[s]>>
    <3>1. q # r => row'[r] = row[r]
      BY <2>1, <2>12 DEF ResendOne, TypeOK
    <3>2. row[q].st # "pending" => row' = row
      BY <2>12 DEF ResendOne, IsPending
    <3>3. QED
      BY <2>2, <2>3, <3>1, <3>2
  <2>13. ASSUME NEW s \in Subs, NEW m \in Msgs,
                NEW d \in {"acted", "handled", "refused"}, Settle(s, m, d)
         PROVE  Goal
    <3>1. row'[<<m, MemberOf[s]>>].st = d
          /\ \A y \in Rows : y # <<m, MemberOf[s]>> => row'[y] = row[y]
      BY <2>13, SettleChanges
    <3>2. QED
      BY <2>1, <2>2, <2>3, <3>1
  <2>14. ASSUME NEW k \in Tokens, BlockToken(k) PROVE Goal
    <3> DEFINE hit == {s \in Subs : conn[s] = "live" /\ TokenOf[s] \in revoked \cup {k}}
               members == {MemberOf[s] : s \in hit}
    <3>1. /\ hit \in SUBSET Subs /\ ReleaseOwners(hit)
          /\ revoked' = revoked \cup {k} /\ UNCHANGED <<conn, cond>>
      BY <2>14 DEF BlockToken
    <3>2. PICK to \in [members -> Subs \cup {NoSub}] :
             /\ \A n \in members : to[n] \in Target(ReadySubs(n) \ hit)
             /\ resend' = [s \in Subs |->
                    IF MemberOf[s] \in members /\ to[MemberOf[s]] = s
                    THEN resend[s] \cup PendingAfter(MemberOf[s], hit)
                    ELSE resend[s]]
      BY <2>14 DEF BlockToken
    <3>3. ReadySubs(MemberOf[c])' \subseteq ReadySubs(MemberOf[c]) \ hit
      BY <3>1 DEF ReadySubs, SubsOf, SubscriberReady, SupportsDisposition
    <3>4. ReadySubs(MemberOf[c]) \ hit \subseteq ReadySubs(MemberOf[c])'
      BY <3>1 DEF ReadySubs, SubsOf, SubscriberReady, SupportsDisposition
    <3>5. c \in hit
      <4> HIDE DEF hit, members
      <4>1. QED
        BY <2>1, <3>1, ReleasedWasHeld
    <3>6. MemberOf[c] \in members
      BY <3>5
    <3> HIDE DEF hit, members
    <3>7. to[MemberOf[c]] \in ReadySubs(MemberOf[c])'
      BY <3>2, <3>3, <3>4, <3>6 DEF Target
    <3>8. to[MemberOf[c]] \in Subs /\ MemberOf[to[MemberOf[c]]] = MemberOf[c]
      BY <3>7 DEF ReadySubs, SubsOf
    <3>9. x \in PendingAfter(MemberOf[c], hit)
      BY <2>3, <3>5 DEF PendingAfter, Leased, r
    <3>10. x \in resend'[to[MemberOf[c]]]
      BY <3>2, <3>6, <3>8, <3>9
    <3>11. QED
      BY <3>7, <3>10 DEF Goal
  <2>15. ASSUME SweepOpenTurns PROVE Goal
    <3>1. PICK order \in Orders(Overdue) : DegradeInOrder(order)
      BY <2>15 DEF SweepOpenTurns
    <3>2. order \in [1..Cardinality(Overdue) -> Subs]
      BY <3>1 DEF Orders, Overdue
    <3>3. Cardinality(Overdue) \in Nat
      BY FS_CardinalityType DEF OverdueFinite
    <3>4. QED
      BY <2>5, <2>15, <3>1, <3>2, <3>3 DEF SweepOpenTurns
  <2>16. ASSUME SweepExpired PROVE Goal
    <3>1. row'[r].st # "pending"
      BY <2>1, <2>3, <2>2, <2>16 DEF SweepExpired, TypeOK, RowRecord, Open
    <3>2. QED
      BY <2>3, <3>1
  <2>17. ASSUME Shutdown PROVE Goal
    <3>1. Live \in SUBSET Subs /\ ReleaseOwners(Live) /\ \A s \in Live : conn'[s] = "closing"
      BY <2>17 DEF Shutdown, ForgetSubs, Live
    <3>2. c \in Live
      BY <2>1, <3>1, ReleasedWasHeld
    <3>3. QED
      BY <3>1, <3>2
  <2>18. ASSUME Restart PROVE Goal
    BY <2>18 DEF Restart, SocketsFollowServer
  <2>19. Goal
    BY ZenonT(60), <2>4, <2>6, <2>7, <2>8, <2>9, <2>10, <2>11, <2>12, <2>13, <2>14,
       <2>15, <2>16, <2>17, <2>18
    DEF Next, PushAppend, Age, Subscribe, CloseDrained, ConditionReady, TurnStarted,
        AgeTurn, NotifySender, Halt
  <2>20. QED
    BY <2>19 DEF Goal
<1>2. QED
  BY <1>1, TypeCorrect, SocketsFollow, OverdueIsFinite, PTL
  DEF Spec, ReassignedAtOnce, Reassigned
=============================================================================
