-------------------------- MODULE EnrollmentProofs --------------------------
(***************************************************************************)
(* Proofs about Enrollment, for every set of devices, approvals and names  *)
(* and every bound on restarts and network errors.                         *)
(***************************************************************************)
EXTENDS Enrollment, FiniteSetTheorems, TLAPS

LEMMA RowTypes ==
    /\ NoRow \in RowRecord /\ Deleted \in RowRecord
    /\ \A a \in Approvals : Approved(a) \in RowRecord
BY DEF NoRow, Deleted, Approved, RowRecord

(* The types rest on this: an approved row carries a token, and so does the *)
(* answer `approved`.                                                       *)
TokensNamed ==
    /\ \A d \in Devices : row[d].st = "approved" => row[d].token # NoToken
    /\ \A d \in Devices : poll[d] = "approved" => held[d] # NoToken

TypeInv == TypeOK /\ TokensNamed

LEMMA TypeInvInit == Init => TypeInv
<1>1. NoReq \in ReqRecord
  BY DEF NoReq, ReqRecord
<1>2. Init => TypeOK
  BY <1>1, RowTypes, EnrollmentConstantsOK DEF Init, TypeOK
<1>3. Init => TokensNamed
  BY DEF Init, TokensNamed, NoRow
<1>4. QED
  BY <1>2, <1>3 DEF TypeInv

LEMMA ConsumeType ==
    ASSUME TypeInv, NEW d \in Devices, Consume(d)
    PROVE  /\ row' \in [Devices -> RowRecord]
           /\ \A e \in Devices :
                 row'[e].st = "approved" => row'[e].token # NoToken
<1>1. CASE UNCHANGED row
  BY <1>1 DEF TypeInv, TypeOK, TokensNamed
<1>2. CASE row' = [row EXCEPT ![d] = Deleted]
  BY <1>2, RowTypes DEF TypeInv, TypeOK, TokensNamed, Deleted
<1>3. QED
  BY <1>1, <1>2 DEF Consume

LEMMA TypeInvStep == TypeInv /\ [Next]_vars => TypeInv'
<1> SUFFICES ASSUME TypeInv, [Next]_vars PROVE TypeOK' /\ TokensNamed'
  BY DEF TypeInv
<1> USE DEF TypeInv, brokerVars, deviceVars, history
<1>1. ASSUME NEW d \in Devices, Mint(d) PROVE TypeOK' /\ TokensNamed'
  <2>1. [row[d] EXCEPT !.st = "pending"] \in RowRecord
    BY DEF TypeOK, RowRecord
  <2>2. TypeOK'
    BY <1>1, <2>1 DEF Mint, TypeOK, Ended
  <2>3. TokensNamed'
    BY <1>1 DEF Mint, TypeOK, TokensNamed
  <2>4. QED
    BY <2>2, <2>3
<1>2. ASSUME NEW d \in Devices, Reject(d) PROVE TypeOK' /\ TokensNamed'
  <2>1. [row[d] EXCEPT !.st = "rejected"] \in RowRecord
    BY DEF TypeOK, RowRecord
  <2>2. QED
    BY <1>2, <2>1 DEF Reject, TypeOK, TokensNamed
<1>3. ASSUME NEW d \in Devices, Age(d) PROVE TypeOK' /\ TokensNamed'
  BY <1>3 DEF Age, TypeOK, TokensNamed
<1>4. ASSUME NEW d \in Devices, Sleep(d) \/ Ask(d) \/ GiveUp(d) \/ Cancel(d)
      PROVE TypeOK' /\ TokensNamed'
  <2>1. CASE Sleep(d)
    BY <2>1 DEF Sleep, TypeOK, TokensNamed
  <2>2. CASE Ask(d)
    BY <2>2 DEF Ask, TypeOK, TokensNamed
  <2>3. CASE GiveUp(d)
    BY <2>3 DEF GiveUp, TypeOK, TokensNamed, Ended
  <2>4. CASE Cancel(d)
    BY <2>4 DEF Cancel, TypeOK, TokensNamed, Ended
  <2>5. QED
    BY <1>4, <2>1, <2>2, <2>3, <2>4
<1>5. ASSUME NEW d \in Devices, Answer(d) PROVE TypeOK' /\ TokensNamed'
  <2>1. PICK outcome \in {"waiting"} \cup Ended :
           /\ outcome = "failed" => poll[d] = "approved"
           /\ dev' = [dev EXCEPT ![d] = outcome]
           /\ lost' = IF outcome = "failed" THEN lost \cup {held[d]} ELSE lost
    BY <1>5 DEF Answer, Answers
  <2>2. lost' \in SUBSET Approvals
    BY <2>1 DEF TypeOK, TokensNamed
  <2>3. QED
    BY <1>5, <2>1, <2>2 DEF Answer, TypeOK, TokensNamed
<1>6. ASSUME NEW d \in Devices, Blip(d) PROVE TypeOK' /\ TokensNamed'
  <2>1. lost' \in SUBSET Approvals
    BY <1>6 DEF Blip, TypeOK, TokensNamed
  <2>2. QED
    BY <1>6, <2>1 DEF Blip, TypeOK, TokensNamed
<1>7. ASSUME NEW d \in Devices, WithdrawOrphan(d) PROVE TypeOK' /\ TokensNamed'
  <2>1. doomed' \in SUBSET Approvals
    BY <1>7 DEF WithdrawOrphan, MemberGone, Grantable, TypeOK, RowRecord,
                TokensNamed
  <2>2. Consume(d)
    BY <1>7 DEF WithdrawOrphan
  <2>3. QED
    BY <1>7, <2>1, <2>2, ConsumeType DEF WithdrawOrphan, TypeOK, TokensNamed
<1>8. ASSUME NEW d \in Devices, NEW listening \in BOOLEAN,
             HandlePoll(d, listening)
      PROVE TypeOK' /\ TokensNamed'
  <2>1. Consume(d)
    BY <1>8 DEF HandlePoll
  <2>2. Outcome(d) \in Answers
    BY DEF Outcome, Answers
  <2>3. row[d].st = "approved" => row[d].token \in Approvals
    BY DEF TypeOK, RowRecord, TokensNamed
  <2>4. Outcome(d) = "approved" => row[d].st = "approved"
    BY DEF Outcome, Grantable
  <2>5. sent' \in [Approvals -> Nat] /\ lost' \in SUBSET Approvals
    BY <1>8, <2>3, <2>4 DEF HandlePoll, TypeOK
  <2>6. /\ poll' \in [Devices -> {"none", "sleeping", "asked"} \cup Answers]
        /\ held' \in [Devices -> Approvals \cup {NoToken}]
        /\ strays' \in [Devices -> Nat]
    BY <1>8, <2>2, <2>3, <2>4 DEF HandlePoll, TypeOK
  <2>7. \A e \in Devices : poll'[e] = "approved" => held'[e] # NoToken
    BY <1>8, <2>3, <2>4, EnrollmentConstantsOK
    DEF HandlePoll, TypeOK, TokensNamed
  <2>8. QED
    BY <1>8, <2>1, <2>5, <2>6, <2>7, ConsumeType
    DEF HandlePoll, TypeOK, TokensNamed
<1>9. ASSUME NEW a \in Approvals, InsertToken(a) PROVE TypeOK' /\ TokensNamed'
  <2>1. [req[a] EXCEPT !.at = "inserted"] \in ReqRecord
    BY DEF TypeOK, ReqRecord
  <2>2. QED
    BY <1>9, <2>1 DEF InsertToken, TypeOK, TokensNamed
<1>10. ASSUME NEW a \in Approvals, Grant(a) PROVE TypeOK' /\ TokensNamed'
  <2>1. /\ [req[a] EXCEPT !.at = "granted"] \in ReqRecord
        /\ [req[a] EXCEPT !.at = "conflict"] \in ReqRecord
    BY DEF TypeOK, ReqRecord
  <2>2. row' \in [Devices -> RowRecord]
    BY <1>10, RowTypes DEF Grant, TypeOK
  <2>3. TypeOK'
    BY <1>10, <2>1, <2>2 DEF Grant, TypeOK
  <2>4. TokensNamed'
    BY <1>10, EnrollmentConstantsOK DEF Grant, Approved, TypeOK, TokensNamed
  <2>5. QED
    BY <2>3, <2>4
<1>11. ASSUME NEW a \in Approvals, RevokeToken(a) PROVE TypeOK' /\ TokensNamed'
  BY <1>11 DEF RevokeToken, TypeOK, TokensNamed
<1>12. ASSUME NEW a \in Approvals, NEW d \in Devices, NEW n \in Names,
              BeginApproval(a, d, n)
       PROVE TypeOK' /\ TokensNamed'
  <2>1. [at |-> "hashing", dev |-> d, name |-> n] \in ReqRecord
    BY DEF ReqRecord
  <2>2. QED
    BY <1>12, <2>1 DEF BeginApproval, TypeOK, TokensNamed
<1>13. ASSUME NEW n \in Names, RemoveMember(n) PROVE TypeOK' /\ TokensNamed'
  BY <1>13 DEF RemoveMember, TypeOK, TokensNamed
<1>14. CASE RevokeDoomed
  BY <1>14 DEF RevokeDoomed, TypeOK, TokensNamed
<1>15. CASE Halt
  <2>1. \A a \in Approvals : [req[a] EXCEPT !.at = "cut"] \in ReqRecord
    BY DEF TypeOK, ReqRecord
  <2>2. QED
    BY <1>15, <2>1 DEF Halt, TypeOK, TokensNamed
<1>16. CASE Restart
  BY <1>16, RowTypes DEF Restart, Deleted, TypeOK, TokensNamed
<1>17. CASE UNCHANGED vars
  BY <1>17 DEF vars, TypeOK, TokensNamed
<1>18. QED
  BY <1>1, <1>2, <1>3, <1>4, <1>5, <1>6, <1>7, <1>8, <1>9, <1>10, <1>11,
     <1>12, <1>13, <1>14, <1>15, <1>16, <1>17 DEF Next, DeviceStep

LEMMA TypeInvAlways == Spec => []TypeInv
BY TypeInvInit, TypeInvStep, PTL DEF Spec

(* Types: every variable keeps its shape in every reachable state.          *)
THEOREM EnrollmentTypeCorrect == Spec => []TypeOK
<1>1. TypeInv => TypeOK
  BY DEF TypeInv
<1>2. QED
  BY TypeInvAlways, <1>1, PTL
-----------------------------------------------------------------------------
(***************************************************************************)
(* One decision, one delivery. A row keeps who has been granted it: while  *)
(* the row is approved its token has not been sent, and once it is deleted *)
(* it is never approved again.                                             *)
(***************************************************************************)
FreshRows ==
    \A d \in Devices : /\ dev[d] = "new" => row[d].st = "none"
                       /\ d \in old => row[d].st # "none"

Deciders ==
    \A a \in Approvals :
        req[a].at \in {"hashing", "inserted", "granted"} =>
            req[a].dev \in Devices

GrantedRows ==
    /\ \A a \in Approvals, d \in Devices :
          Granted(a, d) => row[d].st \in {"approved", "deleted"}
    /\ \A a, b \in Approvals, d \in Devices :
          Granted(a, d) /\ Granted(b, d) => a = b

DeniedRows ==
    \A d \in denied : /\ row[d].st \in {"rejected", "deleted"}
                      /\ \A a \in Approvals : ~Granted(a, d)

ApprovedRows ==
    \A d \in Devices : row[d].st = "approved" =>
        Granted(row[d].token, d) /\ sent[row[d].token] = 0

SentTokens ==
    \A a \in Approvals : sent[a] <= 1 /\ (sent[a] # 0 => req[a].at = "granted")

DecisionInv ==
    TypeInv /\ FreshRows /\ Deciders /\ GrantedRows /\ DeniedRows
    /\ ApprovedRows /\ SentTokens

LEMMA DecisionInit == Init => DecisionInv
<1>1. Init => FreshRows /\ Deciders /\ GrantedRows /\ DeniedRows
              /\ ApprovedRows /\ SentTokens
  BY DEF Init, NoRow, NoReq, FreshRows, Deciders, GrantedRows, DeniedRows,
         ApprovedRows, SentTokens, Granted
<1>2. QED
  BY <1>1, TypeInvInit DEF DecisionInv

(* Where requests, sent answers and denials do not change, it is enough     *)
(* that rows stay as they are or are deleted, and none is deleted that has  *)
(* not been minted.                                                         *)
LEMMA RowsDeletedOnly ==
    ASSUME DecisionInv, TypeInv',
           UNCHANGED <<req, sent, denied, dev, old>>,
           \A d \in Devices : \/ row'[d] = row[d]
                              \/ row'[d] = Deleted /\ row[d].st # "none"
    PROVE  DecisionInv'
<1> USE DEF DecisionInv, Deleted
<1>1. FreshRows'
  BY DEF FreshRows
<1>2. Deciders'
  BY DEF Deciders
<1>3. GrantedRows'
  BY DEF GrantedRows, Granted
<1>4. DeniedRows'
  BY DEF DeniedRows, Granted, TypeInv, TypeOK
<1>5. ApprovedRows'
  BY DEF ApprovedRows, Granted
<1>6. SentTokens'
  BY DEF SentTokens
<1>7. QED
  BY <1>1, <1>2, <1>3, <1>4, <1>5, <1>6

(* What is polled has been minted, so that Consume deletes only such rows.  *)
LEMMA ConsumeDeletes ==
    ASSUME DecisionInv, NEW d \in Devices, Consume(d)
    PROVE  \A e \in Devices : \/ row'[e] = row[e]
                              \/ /\ e = d /\ row'[e] = Deleted
                                 /\ row[e].st # "none"
<1>1. row[d].st = "none" => Outcome(d) = "authorization_pending"
  BY DEF Outcome, Grantable, DecisionInv, FreshRows
<1>2. row \in [Devices -> RowRecord]
  BY DEF DecisionInv, TypeInv, TypeOK
<1>3. QED
  BY <1>1, <1>2 DEF Consume

LEMMA PollDecides ==
    ASSUME DecisionInv, TypeInv', NEW d \in Devices, NEW listening \in BOOLEAN,
           HandlePoll(d, listening)
    PROVE  DecisionInv'
<1> DEFINE a == row[d].token
<1>1. /\ UNCHANGED <<req, denied, dev, old>>
      /\ sent' = IF Outcome(d) = "approved" THEN [sent EXCEPT ![a] = @ + 1]
                 ELSE sent
      /\ Consume(d)
  BY DEF HandlePoll
<1>2. CASE Outcome(d) # "approved"
  BY <1>1, <1>2, ConsumeDeletes, RowsDeletedOnly
<1>3. CASE Outcome(d) = "approved"
  <2>1. row[d].st = "approved" /\ row' = [row EXCEPT ![d] = Deleted]
    BY <1>1, <1>3 DEF Consume, Outcome, Grantable
  <2>2. a \in Approvals
    BY <2>1 DEF DecisionInv, TypeInv, TypeOK, RowRecord, TokensNamed
  <2>3. Granted(a, d) /\ sent[a] = 0
    BY <2>1 DEF DecisionInv, ApprovedRows
  <2>4. \A b \in Approvals : sent'[b] = IF b = a THEN 1 ELSE sent[b]
    BY <1>1, <1>3, <2>2, <2>3 DEF DecisionInv, TypeInv, TypeOK
  <2>5. \A e \in Devices : row'[e] = IF e = d THEN Deleted ELSE row[e]
    BY <2>1 DEF DecisionInv, TypeInv, TypeOK
  <2> HIDE DEF a
  <2> USE <1>1 DEF DecisionInv
  <2>6. FreshRows' /\ Deciders'
    BY <2>1, <2>5 DEF FreshRows, Deciders, Deleted
  <2>7. GrantedRows'
    BY <2>5 DEF GrantedRows, Granted, Deleted
  <2>8. DeniedRows'
    BY <2>5 DEF DeniedRows, Granted, Deleted, TypeInv, TypeOK
  <2>9. ApprovedRows'
    <3>1. ASSUME NEW e \in Devices, row'[e].st = "approved"
          PROVE  (Granted(row[e].token, e) /\ sent[row[e].token] = 0)'
      <4>1. e # d /\ row'[e] = row[e]
        BY <2>5, <3>1 DEF Deleted
      <4>2. Granted(row[e].token, e) /\ sent[row[e].token] = 0
        BY <3>1, <4>1 DEF ApprovedRows
      <4>3. row[e].token \in Approvals
        BY <3>1, <4>1 DEF TypeInv, TypeOK, RowRecord, TokensNamed
      <4>4. row[e].token # a
        BY <2>3, <4>1, <4>2 DEF Granted
      <4>5. QED
        BY <2>4, <4>1, <4>2, <4>3, <4>4 DEF Granted
    <3>2. QED
      BY <3>1 DEF ApprovedRows
  <2>10. SentTokens'
    BY <2>3, <2>4 DEF SentTokens, Granted
  <2>11. QED
    BY <2>6, <2>7, <2>8, <2>9, <2>10
<1>4. QED
  BY <1>2, <1>3

LEMMA GrantDecides ==
    ASSUME DecisionInv, TypeInv', NEW a \in Approvals, Grant(a)
    PROVE  DecisionInv'
<1> DEFINE d == req[a].dev
<1>1. d \in Devices /\ req[a].at = "inserted"
  BY DEF DecisionInv, Deciders, Grant
<1>2. sent[a] = 0
  BY <1>1 DEF DecisionInv, SentTokens
<1>3. UNCHANGED <<dev, old, denied, sent>>
  BY DEF Grant, deviceVars, history
<1>4. CASE row[d].st = "pending"
  <2>1. \A e \in Devices : row'[e] = IF e = d THEN Approved(a) ELSE row[e]
    BY <1>1, <1>4 DEF Grant, DecisionInv, TypeInv, TypeOK
  <2>2. /\ \A b \in Approvals : b # a => req'[b] = req[b]
        /\ req'[a].at = "granted" /\ req'[a].dev = d
    BY <1>1, <1>4 DEF Grant, DecisionInv, TypeInv, TypeOK, ReqRecord
  <2>3. \A b \in Approvals : ~Granted(b, d)
    BY <1>1, <1>4 DEF DecisionInv, GrantedRows
  <2>4. d \notin denied
    BY <1>4 DEF DecisionInv, DeniedRows
  <2>5. \A b \in Approvals, e \in Devices :
           Granted(b, e)' <=> Granted(b, e) \/ (b = a /\ e = d)
    BY <1>1, <2>2 DEF Granted
  <2> HIDE DEF d
  <2> USE <1>3 DEF DecisionInv
  <2>6. FreshRows' /\ Deciders'
    BY <1>1, <1>4, <2>1, <2>2 DEF FreshRows, Deciders, Approved
  <2>7. GrantedRows'
    BY <2>1, <2>3, <2>5 DEF GrantedRows, Approved
  <2>8. DeniedRows'
    BY <2>1, <2>4, <2>5 DEF DeniedRows, TypeInv, TypeOK
  <2>9. ApprovedRows'
    <3>1. ASSUME NEW e \in Devices, row'[e].st = "approved"
          PROVE  (Granted(row[e].token, e) /\ sent[row[e].token] = 0)'
      <4>1. CASE e = d
        BY <1>2, <2>1, <2>5, <4>1 DEF Approved
      <4>2. CASE e # d
        <5>1. row'[e] = row[e] /\ row[e].token \in Approvals
          BY <2>1, <3>1, <4>2 DEF TypeInv, TypeOK, RowRecord, TokensNamed
        <5>2. QED
          BY <2>5, <3>1, <5>1 DEF ApprovedRows
      <4>3. QED
        BY <4>1, <4>2
    <3>2. QED
      BY <3>1 DEF ApprovedRows
  <2>10. SentTokens'
    BY <2>2 DEF SentTokens
  <2>11. QED
    BY <2>6, <2>7, <2>8, <2>9, <2>10
<1>5. CASE row[d].st # "pending"
  <2>1. row' = row
    BY <1>5 DEF Grant
  <2>2. /\ \A b \in Approvals : b # a => req'[b] = req[b]
        /\ req'[a].at = "conflict"
    BY <1>5 DEF Grant, DecisionInv, TypeInv, TypeOK, ReqRecord
  <2>3. \A b \in Approvals, e \in Devices : Granted(b, e)' <=> Granted(b, e)
    BY <1>1, <2>2 DEF Granted
  <2> HIDE DEF d
  <2> USE <1>3, <2>1 DEF DecisionInv
  <2>4. FreshRows' /\ Deciders'
    BY <2>2 DEF FreshRows, Deciders
  <2>5. GrantedRows' /\ DeniedRows'
    BY <2>3 DEF GrantedRows, DeniedRows, TypeInv, TypeOK
  <2>6. ApprovedRows'
    BY <2>3 DEF ApprovedRows, TypeInv, TypeOK, RowRecord, TokensNamed
  <2>7. SentTokens'
    BY <1>1, <2>2 DEF SentTokens
  <2>8. QED
    BY <2>4, <2>5, <2>6, <2>7
<1>6. QED
  BY <1>4, <1>5
LEMMA DecisionStep == DecisionInv /\ [Next]_vars => DecisionInv'
<1> SUFFICES ASSUME DecisionInv, [Next]_vars PROVE DecisionInv'
  OBVIOUS
<1>1. TypeInv'
  BY TypeInvStep DEF DecisionInv
<1> USE <1>1 DEF brokerVars, deviceVars, history
<1>2. ASSUME NEW d \in Devices, Mint(d) PROVE DecisionInv'
  <2>1. row[d].st = "none"
    BY <1>2 DEF Mint, DecisionInv, FreshRows
  <2>2. \A e \in Devices : /\ e # d => row'[e] = row[e] /\ dev'[e] = dev[e]
                           /\ e = d => row'[e].st = "pending" /\ dev'[e] # "new"
    BY <1>2 DEF Mint, DecisionInv, TypeInv, TypeOK, RowRecord
  <2>3. UNCHANGED <<req, sent, denied, old>>
    BY <1>2 DEF Mint
  <2> USE <2>3 DEF DecisionInv
  <2>4. FreshRows' /\ Deciders' /\ SentTokens'
    BY <2>2 DEF FreshRows, Deciders, SentTokens
  <2>5. GrantedRows'
    BY <2>1, <2>2 DEF GrantedRows, Granted
  <2>6. DeniedRows'
    BY <2>1, <2>2 DEF DeniedRows, Granted, TypeInv, TypeOK
  <2>7. ApprovedRows'
    BY <2>2 DEF ApprovedRows, Granted
  <2>8. QED
    BY <2>4, <2>5, <2>6, <2>7
<1>3. ASSUME NEW d \in Devices, Reject(d) PROVE DecisionInv'
  <2>1. row[d].st = "pending" /\ denied' = denied \cup {d}
    BY <1>3 DEF Reject
  <2>2. \A e \in Devices : /\ e # d => row'[e] = row[e]
                           /\ e = d => row'[e].st = "rejected"
    BY <1>3 DEF Reject, DecisionInv, TypeInv, TypeOK, RowRecord
  <2>3. UNCHANGED <<req, sent, dev, old>>
    BY <1>3 DEF Reject
  <2> USE <2>3 DEF DecisionInv
  <2>4. FreshRows' /\ Deciders' /\ SentTokens'
    BY <2>1, <2>2 DEF FreshRows, Deciders, SentTokens
  <2>5. GrantedRows'
    BY <2>1, <2>2 DEF GrantedRows, Granted
  <2>6. DeniedRows'
    BY <2>1, <2>2 DEF DeniedRows, GrantedRows, Granted, TypeInv, TypeOK
  <2>7. ApprovedRows'
    BY <2>2 DEF ApprovedRows, Granted
  <2>8. QED
    BY <2>4, <2>5, <2>6, <2>7
<1>4. ASSUME NEW d \in Devices, Age(d) PROVE DecisionInv'
  BY <1>4 DEF Age, DecisionInv, FreshRows, Deciders, GrantedRows, DeniedRows,
              ApprovedRows, SentTokens, Granted
<1>5. ASSUME NEW d \in Devices, DeviceStep(d) \/ Cancel(d) \/ Blip(d)
      PROVE DecisionInv'
  <2>1. UNCHANGED <<row, old, req, sent, denied>> /\ dev[d] = "waiting"
    BY <1>5 DEF DeviceStep, Sleep, Ask, GiveUp, Answer, Cancel, Blip
  <2>2. \/ dev' = dev
        \/ \E outcome \in {"waiting"} \cup Ended :
              dev' = [dev EXCEPT ![d] = outcome]
    BY <1>5 DEF DeviceStep, Sleep, Ask, GiveUp, Answer, Cancel, Blip, Ended
  <2>3. \A e \in Devices : dev'[e] = "new" => dev[e] = "new"
    BY <2>2 DEF DecisionInv, TypeInv, TypeOK, Ended
  <2>4. QED
    BY <2>1, <2>3 DEF DecisionInv, FreshRows, Deciders, GrantedRows,
                      DeniedRows, ApprovedRows, SentTokens, Granted
<1>6. ASSUME NEW d \in Devices, WithdrawOrphan(d) PROVE DecisionInv'
  <2>1. Consume(d) /\ UNCHANGED <<req, sent, denied, dev, old>>
    BY <1>6 DEF WithdrawOrphan
  <2>2. QED
    BY <2>1, ConsumeDeletes, RowsDeletedOnly
<1>7. ASSUME NEW d \in Devices, NEW listening \in BOOLEAN,
             HandlePoll(d, listening)
      PROVE DecisionInv'
  BY <1>7, PollDecides
<1>8. ASSUME NEW a \in Approvals, Grant(a) PROVE DecisionInv'
  BY <1>8, GrantDecides
<1>9. ASSUME UNCHANGED <<row, old, dev, sent, denied>>,
             \A a \in Approvals :
                /\ req'[a].at = "granted" <=> req[a].at = "granted"
                /\ req[a].at = "granted" => req'[a].dev = req[a].dev
                /\ req'[a].at \in {"hashing", "inserted", "granted"} =>
                      req'[a].dev \in Devices
      PROVE DecisionInv'
  <2>1. \A a \in Approvals, d \in Devices : Granted(a, d)' <=> Granted(a, d)
    BY <1>9 DEF Granted
  <2>2. FreshRows' /\ Deciders' /\ SentTokens'
    BY <1>9 DEF DecisionInv, FreshRows, Deciders, SentTokens
  <2>3. GrantedRows'
    BY <1>9, <2>1 DEF DecisionInv, GrantedRows
  <2>4. DeniedRows'
    BY <1>9, <2>1 DEF DecisionInv, DeniedRows, TypeInv, TypeOK
  <2>5. ApprovedRows'
    <3>1. \A d \in Devices :
             row[d].st = "approved" => row[d].token \in Approvals
      BY DEF DecisionInv, TypeInv, TypeOK, RowRecord, TokensNamed
    <3>2. QED
      BY <1>9, <2>1, <3>1 DEF DecisionInv, ApprovedRows
  <2>6. QED
    BY <2>2, <2>3, <2>4, <2>5 DEF DecisionInv
<1>10. ASSUME NEW a \in Approvals, InsertToken(a) PROVE DecisionInv'
  <2>1. \A b \in Approvals : IF b = a THEN /\ req[b].at = "hashing"
                                           /\ req'[b].at = "inserted"
                                           /\ req'[b].dev = req[b].dev
                             ELSE req'[b] = req[b]
    BY <1>10 DEF InsertToken, DecisionInv, TypeInv, TypeOK, ReqRecord
  <2>2. QED
    BY <1>9, <1>10, <2>1 DEF InsertToken, DecisionInv, Deciders
<1>11. ASSUME NEW a \in Approvals, NEW d \in Devices, NEW n \in Names,
              BeginApproval(a, d, n)
       PROVE DecisionInv'
  <2>1. \A b \in Approvals : IF b = a THEN /\ req[b].at = "new"
                                           /\ req'[b].at = "hashing"
                                           /\ req'[b].dev = d
                             ELSE req'[b] = req[b]
    BY <1>11 DEF BeginApproval, DecisionInv, TypeInv, TypeOK
  <2>2. QED
    BY <1>9, <1>11, <2>1 DEF BeginApproval, DecisionInv, Deciders
<1>12. CASE Halt
  <2>1. \A b \in Approvals : \/ req'[b] = req[b] /\ ~Interrupted(b)
                             \/ req'[b].at = "cut" /\ Interrupted(b)
    BY <1>12 DEF Halt, DecisionInv, TypeInv, TypeOK, ReqRecord
  <2>2. QED
    BY <1>9, <1>12, <2>1 DEF Halt, Interrupted, DecisionInv, Deciders
<1>13. CASE Restart
  <2>1. \A e \in Devices : row'[e] = IF e \in old THEN Deleted ELSE row[e]
    BY <1>13 DEF Restart
  <2>2. \A e \in Devices : e \in old => row[e].st # "none"
    BY DEF DecisionInv, FreshRows
  <2>3. UNCHANGED <<req, sent, denied, dev, old>>
    BY <1>13 DEF Restart
  <2>4. QED
    BY <2>1, <2>2, <2>3, RowsDeletedOnly
<1>14. CASE \/ \E a \in Approvals : RevokeToken(a)
            \/ \E n \in Names : RemoveMember(n)
            \/ RevokeDoomed
            \/ UNCHANGED vars
  <2>1. UNCHANGED <<row, req, old, dev, sent, denied>>
    BY <1>14 DEF RevokeToken, RemoveMember, RevokeDoomed, vars
  <2>2. QED
    BY <2>1, RowsDeletedOnly
<1>15. QED
  BY <1>2, <1>3, <1>4, <1>5, <1>6, <1>7, <1>8, <1>10, <1>11, <1>12, <1>13,
     <1>14 DEF Next

LEMMA DecisionAlways == Spec => []DecisionInv
BY DecisionInit, DecisionStep, PTL DEF Spec

(* However polls are repeated, delayed or answered to nobody, a token       *)
(* leaves the broker in one answer at most (pollByDeviceCode deletes the    *)
(* row before it answers, and a deleted row is never approved again).       *)
THEOREM TokenSentOnce == Spec => []SentOnce
<1>1. DecisionInv => SentOnce
  BY DEF DecisionInv, SentTokens, SentOnce
<1>2. QED
  BY DecisionAlways, <1>1, PTL

(* Approvers and a rejection that race for one enrollment: one prevails     *)
(* (approveStmt and rejectStmt update a row that is still pending).         *)
THEOREM OneDecisionAlways == Spec => []OneDecision
<1>1. DecisionInv => OneDecision
  <2> SUFFICES ASSUME DecisionInv, NEW d \in Devices
               PROVE  LET granted == {a \in Approvals : Granted(a, d)}
                      IN  /\ Cardinality(granted) <= 1
                          /\ d \in denied => granted = {}
    BY DEF OneDecision
  <2> DEFINE granted == {a \in Approvals : Granted(a, d)}
  <2>1. \A a, b \in granted : a = b
    BY DEF DecisionInv, GrantedRows
  <2>2. CASE granted = {}
    BY <2>2, FS_EmptySet
  <2>3. CASE granted # {}
    <3>1. PICK a \in granted : granted = {a}
      BY <2>1, <2>3
    <3>2. Cardinality(granted) = 1
      BY <3>1, FS_Singleton
    <3>3. d \notin denied
      BY <3>1 DEF DecisionInv, DeniedRows
    <3>4. QED
      BY <3>2, <3>3
  <2>4. QED
    BY <2>2, <2>3
<1>2. QED
  BY DecisionAlways, <1>1, PTL
-----------------------------------------------------------------------------
(***************************************************************************)
(* Custody. A device that still polls holds no token yet, so no answer can *)
(* push out another one.                                                   *)
(***************************************************************************)
HandsFree ==
    \A d \in Devices : held[d] # NoToken =>
        poll[d] = "approved" \/ (poll[d] = "none" /\ dev[d] \in Ended)

CustodyInv == DecisionInv /\ HandsFree /\ TokensAreAccountedFor

LEMMA CustodyInit == Init => CustodyInv
<1>1. Init => HandsFree /\ TokensAreAccountedFor
  BY DEF Init, HandsFree, TokensAreAccountedFor
<1>2. QED
  BY <1>1, DecisionInit DEF CustodyInv

(* A token stays accounted for while no list of those that account for it   *)
(* loses it.                                                                *)
LEMMA StillAccounted ==
    ASSUME TypeInv, NEW a \in Approvals, Accounted(a),
           a \in lost => a \in lost',
           a \in doomed => a \in lost' \cup doomed',
           req[a].at = "inserted" => req'[a].at = "inserted",
           \A d \in Devices :
              /\ row[d] = Approved(a) =>
                    \/ row'[d] = Approved(a) \/ held'[d] = a
                    \/ a \in lost' \cup doomed'
              /\ held[d] = a => held'[d] = a \/ a \in lost'
    PROVE  Accounted(a)'
BY DEF Accounted, Approved

LEMMA HandsFreeStep == CustodyInv /\ [Next]_vars => HandsFree'
<1> SUFFICES ASSUME CustodyInv, [Next]_vars PROVE HandsFree'
  OBVIOUS
<1> USE DEF CustodyInv, DecisionInv, TypeInv, brokerVars, deviceVars, history
<1>1. ASSUME NEW d \in Devices, Mint(d) PROVE HandsFree'
  BY <1>1 DEF Mint, TypeOK, HandsFree, Ended
<1>2. ASSUME NEW d \in Devices,
             Sleep(d) \/ Ask(d) \/ GiveUp(d) \/ Cancel(d) \/ Blip(d)
      PROVE HandsFree'
  <2>1. CASE Sleep(d) \/ Ask(d)
    BY <2>1 DEF Sleep, Ask, TypeOK, HandsFree, Ended
  <2>2. CASE GiveUp(d) \/ Cancel(d)
    BY <2>2 DEF GiveUp, Cancel, TypeOK, HandsFree, Ended
  <2>3. CASE Blip(d)
    BY <2>3 DEF Blip, TypeOK, HandsFree, Ended
  <2>4. QED
    BY <1>2, <2>1, <2>2, <2>3
<1>3. ASSUME NEW d \in Devices, Answer(d) PROVE HandsFree'
  <2>1. /\ held' = held /\ dev[d] = "waiting"
        /\ poll' = [poll EXCEPT ![d] = "none"]
    BY <1>3 DEF Answer
  <2>2. PICK outcome : /\ dev' = [dev EXCEPT ![d] = outcome]
                       /\ poll[d] = "approved" => outcome \in Ended
    BY <1>3 DEF Answer, Ended
  <2>3. QED
    BY <2>1, <2>2 DEF TypeOK, HandsFree, Ended
<1>4. ASSUME NEW d \in Devices, NEW listening \in BOOLEAN,
             HandlePoll(d, listening)
      PROVE HandsFree'
  BY <1>4 DEF HandlePoll, TypeOK, HandsFree, Ended
<1>5. CASE Halt
  BY <1>5 DEF Halt, TypeOK, HandsFree
<1>6. ASSUME UNCHANGED <<held, poll, dev>> PROVE HandsFree'
  BY <1>6 DEF HandsFree
<1>7. ASSUME NEW d \in Devices, Reject(d) \/ Age(d) \/ WithdrawOrphan(d)
      PROVE HandsFree'
  BY <1>6, <1>7 DEF Reject, Age, WithdrawOrphan
<1>8. ASSUME NEW a \in Approvals,
             InsertToken(a) \/ Grant(a) \/ RevokeToken(a)
                \/ \E d \in Devices, n \in Names : BeginApproval(a, d, n)
      PROVE HandsFree'
  BY <1>6, <1>8 DEF InsertToken, Grant, RevokeToken, BeginApproval
<1>9. CASE (\E n \in Names : RemoveMember(n)) \/ RevokeDoomed \/ Restart
              \/ UNCHANGED vars
  BY <1>6, <1>9 DEF RemoveMember, RevokeDoomed, Restart, vars
<1>10. QED
  BY <1>1, <1>2, <1>3, <1>4, <1>5, <1>7, <1>8, <1>9 DEF Next, DeviceStep

LEMMA CustodyStep == CustodyInv /\ [Next]_vars => CustodyInv'
<1> SUFFICES ASSUME CustodyInv, [Next]_vars PROVE TokensAreAccountedFor'
  BY DecisionStep, HandsFreeStep DEF CustodyInv
<1>1. TypeInv /\ HandsFree
  BY DEF CustodyInv, DecisionInv
<1>2. TypeOK
  BY <1>1 DEF TypeInv
<1>3. tokens \in SUBSET Approvals /\ \A a \in tokens : Accounted(a)
  BY <1>2 DEF CustodyInv, TokensAreAccountedFor, TypeOK
<1>4. ASSUME tokens' \subseteq tokens,
             \A a \in tokens' :
                /\ a \in lost => a \in lost'
                /\ a \in doomed => a \in lost' \cup doomed'
                /\ req[a].at = "inserted" => req'[a].at = "inserted"
                /\ \A d \in Devices :
                      /\ row[d] = Approved(a) =>
                            \/ row'[d] = Approved(a) \/ held'[d] = a
                            \/ a \in lost' \cup doomed'
                      /\ held[d] = a => held'[d] = a \/ a \in lost'
      PROVE TokensAreAccountedFor'
  BY <1>1, <1>3, <1>4, StillAccounted DEF TokensAreAccountedFor
<1> USE DEF brokerVars, deviceVars, history
<1>5. ASSUME NEW d \in Devices, Mint(d) \/ Reject(d)
      PROVE TokensAreAccountedFor'
  <2>1. UNCHANGED <<tokens, lost, doomed, req, held>>
    BY <1>5 DEF Mint, Reject
  <2>2. row[d].st # "approved"
    BY <1>5 DEF Mint, Reject, CustodyInv, DecisionInv, FreshRows
  <2>3. \A e \in Devices : row[e].st = "approved" => row'[e] = row[e]
    BY <1>2, <1>5, <2>2 DEF Mint, Reject, TypeOK
  <2>4. QED
    BY <1>4, <2>1, <2>3 DEF Approved
<1>6. ASSUME NEW d \in Devices, Sleep(d) \/ Ask(d) \/ GiveUp(d) \/ Cancel(d)
                                   \/ Answer(d) \/ Age(d)
      PROVE TokensAreAccountedFor'
  <2>1. UNCHANGED <<tokens, doomed, req, row, held>> /\ lost \subseteq lost'
    BY <1>6 DEF Sleep, Ask, GiveUp, Cancel, Answer, Age
  <2>2. QED
    BY <1>4, <2>1
<1>7. ASSUME NEW d \in Devices, Blip(d) PROVE TokensAreAccountedFor'
  <2>1. UNCHANGED <<tokens, doomed, req, row>> /\ lost \subseteq lost'
    BY <1>7 DEF Blip
  <2>2. ASSUME NEW a \in tokens, NEW e \in Devices, held[e] = a
        PROVE  held'[e] = a \/ a \in lost'
    <3>1. CASE e = d
      <4>1. held[d] # NoToken
        BY <1>3, <2>2, <3>1, EnrollmentConstantsOK
      <4>2. poll[d] = "approved"
        BY <1>1, <1>7, <4>1 DEF HandsFree, Blip, Ended
      <4>3. QED
        BY <1>7, <2>2, <3>1, <4>2 DEF Blip
    <3>2. CASE e # d
      BY <1>2, <1>7, <2>2, <3>2 DEF Blip, TypeOK
    <3>3. QED
      BY <3>1, <3>2
  <2>3. QED
    BY <1>4, <2>1, <2>2
<1>8. ASSUME NEW d \in Devices, WithdrawOrphan(d) PROVE TokensAreAccountedFor'
  <2>1. /\ UNCHANGED <<tokens, req, held, lost>> /\ doomed = {}
        /\ doomed' = {row[d].token} /\ Consume(d)
    BY <1>8 DEF WithdrawOrphan, Serving, Quiet
  <2>2. \A e \in Devices : row'[e] = row[e] \/ e = d
    BY <2>1, ConsumeDeletes DEF CustodyInv
  <2>3. QED
    BY <1>4, <2>1, <2>2 DEF Approved
<1>9. ASSUME NEW d \in Devices, NEW listening \in BOOLEAN,
             HandlePoll(d, listening)
      PROVE TokensAreAccountedFor'
  <2>1. UNCHANGED <<tokens, req, doomed>> /\ lost \subseteq lost' /\ Consume(d)
    BY <1>9 DEF HandlePoll
  <2>2. \A e \in Devices : row'[e] = row[e] \/ e = d
    BY <2>1, ConsumeDeletes DEF CustodyInv
  <2>3. ASSUME NEW a \in tokens, row[d] = Approved(a)
        PROVE  held'[d] = a \/ a \in lost'
    <3>1. row[d].st = "approved" /\ row[d].token = a
      BY <2>3 DEF Approved
    <3>2. CASE d \in old \/ ~listening
      BY <1>9, <3>1, <3>2 DEF HandlePoll
    <3>3. CASE d \notin old /\ listening
      <4>1. Outcome(d) = "approved"
        BY <3>1, <3>3 DEF Outcome, Grantable
      <4>2. held' = [held EXCEPT ![d] = a]
        BY <1>9, <3>1, <3>3, <4>1 DEF HandlePoll
      <4>3. QED
        BY <1>2, <4>2 DEF TypeOK
    <3>4. QED
      BY <3>2, <3>3
  <2>4. ASSUME NEW a \in tokens, NEW e \in Devices, held[e] = a
        PROVE  held'[e] = a
    <3>1. CASE e = d /\ listening
      <4>1. poll[d] = "asked"
        BY <1>9, <3>1 DEF HandlePoll
      <4>2. FALSE
        BY <1>1, <1>3, <2>4, <3>1, <4>1, EnrollmentConstantsOK DEF HandsFree
      <4>3. QED
        BY <4>2
    <3>2. CASE e # d \/ ~listening
      BY <1>2, <1>9, <2>4, <3>2 DEF HandlePoll, TypeOK
    <3>3. QED
      BY <3>1, <3>2
  <2>5. QED
    BY <1>4, <2>1, <2>2, <2>3, <2>4
<1>10. ASSUME NEW a \in Approvals, InsertToken(a) PROVE TokensAreAccountedFor'
  <2>1. tokens' = tokens \cup {a} /\ req'[a].at = "inserted"
    BY <1>2, <1>10 DEF InsertToken, TypeOK, ReqRecord
  <2>2. Accounted(a)'
    BY <2>1 DEF Accounted
  <2>3. ASSUME NEW b \in tokens, b # a PROVE Accounted(b)'
    BY <1>2, <1>3, <1>10, <2>3 DEF InsertToken, Accounted, TypeOK
  <2>4. QED
    BY <2>1, <2>2, <2>3 DEF TokensAreAccountedFor
<1>11. ASSUME NEW a \in Approvals, Grant(a) PROVE TokensAreAccountedFor'
  <2>1. /\ UNCHANGED <<tokens, held, lost>> /\ doomed \subseteq doomed'
        /\ \A b \in Approvals : b # a => req'[b] = req[b]
    BY <1>2, <1>11 DEF Grant, TypeOK
  <2>2. req[a].dev \in Devices
    BY <1>11 DEF Grant, CustodyInv, DecisionInv, Deciders
  <2>3. \A e \in Devices : row[e].st = "approved" => row'[e] = row[e]
    BY <1>2, <1>11 DEF Grant, TypeOK
  <2>4. Accounted(a)'
    BY <1>2, <1>11, <2>2 DEF Grant, Accounted, TypeOK
  <2>5. ASSUME NEW b \in tokens, b # a PROVE Accounted(b)'
    <3>1. b \in Approvals /\ Accounted(b)
      BY <1>3, <2>5
    <3>2. /\ b \in lost => b \in lost'
          /\ b \in doomed => b \in lost' \cup doomed'
          /\ req[b].at = "inserted" => req'[b].at = "inserted"
      BY <2>1, <2>5, <3>1
    <3>3. ASSUME NEW e \in Devices
          PROVE  row[e] = Approved(b) => row'[e] = Approved(b)
      BY <2>3 DEF Approved
    <3>4. QED
      BY <1>1, <2>1, <3>1, <3>2, <3>3, StillAccounted
  <2>6. QED
    BY <2>1, <2>4, <2>5 DEF TokensAreAccountedFor
<1>12. ASSUME NEW a \in Approvals,
              RevokeToken(a)
                 \/ \E d \in Devices, n \in Names : BeginApproval(a, d, n)
       PROVE TokensAreAccountedFor'
  <2>1. UNCHANGED <<row, held, lost, doomed>> /\ tokens' \subseteq tokens
    BY <1>12 DEF RevokeToken, BeginApproval
  <2>2. \A b \in Approvals : req[b].at = "inserted" => req'[b].at = "inserted"
    BY <1>2, <1>12 DEF RevokeToken, BeginApproval, TypeOK
  <2>3. QED
    BY <1>3, <1>4, <2>1, <2>2
<1>13. CASE \E n \in Names : RemoveMember(n)
  BY <1>4, <1>13 DEF RemoveMember, Serving, Quiet
<1>14. CASE RevokeDoomed
  <2>1. UNCHANGED <<row, held, lost, req>> /\ tokens' = tokens \ doomed
    BY <1>14 DEF RevokeDoomed
  <2>2. QED
    BY <1>4, <2>1
<1>15. CASE Halt
  <2>1. /\ UNCHANGED <<tokens, row, held>> /\ doomed \subseteq lost'
        /\ lost \subseteq lost'
        /\ \A a \in tokens : Interrupted(a) => a \in lost'
    BY <1>15 DEF Halt
  <2>2. ASSUME NEW a \in tokens PROVE Accounted(a)'
    BY <1>3, <2>1 DEF Accounted, Interrupted
  <2>3. QED
    BY <2>1, <2>2 DEF TokensAreAccountedFor
<1>16. CASE Restart
  <2>1. UNCHANGED <<tokens, held, doomed, req>> /\ lost \subseteq lost'
    BY <1>16 DEF Restart
  <2>2. ASSUME NEW a \in tokens, NEW e \in Devices, row[e] = Approved(a)
        PROVE  row'[e] = Approved(a) \/ a \in lost'
    BY <1>3, <1>16, <2>2 DEF Restart
  <2>3. QED
    BY <1>4, <2>1, <2>2
<1>17. CASE UNCHANGED vars
  BY <1>4, <1>17 DEF vars
<1>18. QED
  BY <1>5, <1>6, <1>7, <1>8, <1>9, <1>10, <1>11, <1>12, <1>13, <1>14, <1>15,
     <1>16, <1>17 DEF Next, DeviceStep

(* No approval, rejection, deletion or poll leaves a token nobody answers   *)
(* for (app.ts: "so we don't leave an orphan"); only a stopped process, a   *)
(* lost answer or an expired row does, and those are recorded as lost.      *)
THEOREM TokensAlwaysAccountedFor == Spec => []TokensAreAccountedFor
<1>1. CustodyInv => TokensAreAccountedFor
  BY DEF CustodyInv
<1>2. QED
  BY CustodyInit, CustodyStep, <1>1, PTL DEF Spec
-----------------------------------------------------------------------------
(***************************************************************************)
(* Early expiry. A row that is gone before its time was decided on; the    *)
(* answer that carried the decision is on its way to the device, was read  *)
(* by it, or was lost.                                                     *)
(***************************************************************************)
Explained(d) ==
    \/ d \in denied /\ blips > 0
    \/ \E a \in Approvals : Granted(a, d) /\ (a \in lost \/ a \notin tokens)

(* A poll is made by a device that waits, one given up on was a network     *)
(* error, and the token in hand was granted to the device that has it.      *)
AnswersTaken(d) ==
    /\ poll[d] = "asked" => dev[d] = "waiting"
    /\ strays[d] > 0 => blips > 0
    /\ held[d] # NoToken => Granted(held[d], d)

RowEnded(d) ==
    /\ row[d].st = "rejected" => d \in denied
    /\ row[d].st = "deleted" /\ d \notin old =>
          \/ d \in denied
          \/ \E a \in Approvals : Granted(a, d)
    /\ row[d].st = "deleted" /\ d \notin old /\ d \in denied =>
          blips > 0 \/ poll[d] = "access_denied" \/ dev[d] \in Ended

ExpiredAnswer(d) ==
    (poll[d] = "expired_token" \/ dev[d] = "expired") /\ d \notin old => Explained(d)

DeviceExpiry(d) == AnswersTaken(d) /\ RowEnded(d) /\ ExpiredAnswer(d)

ExpiryInv == CustodyInv /\ \A d \in Devices : DeviceExpiry(d)

(* What explains an expiry is never undone.                                 *)
Grows ==
    /\ old \subseteq old' /\ denied \subseteq denied' /\ lost \subseteq lost'
    /\ blips > 0 => blips' > 0
    /\ \A a \in Approvals, d \in Devices :
          Granted(a, d) => Granted(a, d)' /\ (a \notin tokens => a \notin tokens')

LEMMA HistoryGrows == TypeInv /\ [Next]_vars => Grows
<1> SUFFICES ASSUME TypeInv, [Next]_vars PROVE Grows
  OBVIOUS
<1> USE DEF brokerVars, deviceVars, history
<1>1. TypeOK
  BY DEF TypeInv
<1>2. old \subseteq old'
  BY DEF Next, vars, DeviceStep, Mint, Reject, Age, Sleep, Ask, GiveUp, Answer, Cancel,
     Blip, WithdrawOrphan, HandlePoll, InsertToken, Grant, RevokeToken, BeginApproval,
     RemoveMember, RevokeDoomed, Halt, Restart
<1>3. denied \subseteq denied'
  BY DEF Next, vars, DeviceStep, Mint, Reject, Age, Sleep, Ask, GiveUp, Answer, Cancel,
     Blip, WithdrawOrphan, HandlePoll, InsertToken, Grant, RevokeToken, BeginApproval,
     RemoveMember, RevokeDoomed, Halt, Restart
<1>4. lost \subseteq lost'
  BY DEF Next, vars, DeviceStep, Mint, Reject, Age, Sleep, Ask, GiveUp, Answer, Cancel,
     Blip, WithdrawOrphan, HandlePoll, InsertToken, Grant, RevokeToken, BeginApproval,
     RemoveMember, RevokeDoomed, Halt, Restart
<1>5. blips > 0 => blips' > 0
  <2>1. blips' = blips \/ blips' = blips + 1
    BY DEF Next, vars, DeviceStep, Mint, Reject, Age, Sleep, Ask, GiveUp, Answer, Cancel,
     Blip, WithdrawOrphan, HandlePoll, InsertToken, Grant, RevokeToken, BeginApproval,
     RemoveMember, RevokeDoomed, Halt, Restart
  <2>2. QED
    BY <1>1, <2>1 DEF TypeOK
<1>6. ASSUME NEW a \in Approvals, req[a].at = "granted"
      PROVE  req'[a] = req[a] /\ (a \notin tokens => a \notin tokens')
  <2>1. ASSUME NEW b \in Approvals,
               InsertToken(b) \/ Grant(b)
                  \/ \E d \in Devices, n \in Names : BeginApproval(b, d, n)
        PROVE  req'[a] = req[a] /\ (a \notin tokens => a \notin tokens')
    BY <1>1, <1>6, <2>1 DEF InsertToken, Grant, BeginApproval, TypeOK
  <2>2. CASE Halt
    BY <1>6, <2>2 DEF Halt, Interrupted
  <2>3. ASSUME ~Halt,
               ~\E b \in Approvals : InsertToken(b) \/ Grant(b)
                  \/ \E d \in Devices, n \in Names : BeginApproval(b, d, n)
        PROVE  req' = req /\ tokens' \subseteq tokens
    BY <2>3 DEF Next, vars, DeviceStep, Mint, Reject, Age, Sleep, Ask, GiveUp, Answer,
       Cancel, Blip, WithdrawOrphan, HandlePoll, RevokeToken, RemoveMember,
       RevokeDoomed, Restart
  <2>4. QED
    BY <2>1, <2>2, <2>3
<1>7. QED
  BY <1>2, <1>3, <1>4, <1>5, <1>6 DEF Grows, Granted

LEMMA StaysExplained ==
    ASSUME Grows, NEW d \in Devices, Explained(d) PROVE Explained(d)'
BY DEF Grows, Explained

(* A device whose row and loop a step does not touch.                       *)
LEMMA ExpiryFrame ==
    ASSUME TypeInv, Grows, NEW d \in Devices, DeviceExpiry(d),
           row'[d] = row[d], dev'[d] = dev[d], poll'[d] = poll[d],
           held'[d] = held[d], strays'[d] = strays[d],
           d \in denied' => d \in denied
    PROVE  DeviceExpiry(d)'
<1>1. held[d] \in Approvals \cup {NoToken}
  BY DEF TypeInv, TypeOK
<1>2. AnswersTaken(d)'
  BY <1>1 DEF DeviceExpiry, AnswersTaken, Grows
<1>3. RowEnded(d)'
  <2>1. RowEnded(d) /\ old \subseteq old' /\ denied \subseteq denied'
        /\ (blips > 0 => blips' > 0)
    BY DEF DeviceExpiry, Grows
  <2>2. (\E a \in Approvals : Granted(a, d)) => \E a \in Approvals : Granted(a, d)'
    BY DEF Grows
  <2>3. QED
    BY <2>1, <2>2 DEF RowEnded
<1>4. ExpiredAnswer(d)'
  BY StaysExplained DEF DeviceExpiry, ExpiredAnswer, Grows
<1>5. QED
  BY <1>2, <1>3, <1>4 DEF DeviceExpiry

LEMMA PollExpiry ==
    ASSUME ExpiryInv, TypeInv', Grows, NEW d \in Devices, NEW listening \in BOOLEAN,
           HandlePoll(d, listening)
    PROVE  DeviceExpiry(d)'
<1> DEFINE a == row[d].token
<1> USE DEF deviceVars, history
<1>1. /\ TypeInv /\ DecisionInv /\ HandsFree /\ TokensAreAccountedFor
      /\ \A e \in Devices : AnswersTaken(e) /\ RowEnded(e) /\ ExpiredAnswer(e)
  BY DEF ExpiryInv, CustodyInv, DecisionInv, DeviceExpiry
<1>2. /\ Quiet /\ Consume(d)
      /\ UNCHANGED <<old, tokens, req, doomed, dev, blips, denied>>
      /\ listening => /\ poll[d] = "asked"
                      /\ poll' = [poll EXCEPT ![d] = Outcome(d)]
                      /\ strays' = strays
                      /\ held' = IF Outcome(d) = "approved" THEN [held EXCEPT ![d] = a]
                                 ELSE held
      /\ ~listening => /\ strays[d] > 0
                       /\ strays' = [strays EXCEPT ![d] = @ - 1]
                       /\ UNCHANGED <<poll, held>>
  BY DEF HandlePoll, Serving
<1>3. /\ row \in [Devices -> RowRecord] /\ strays \in [Devices -> Nat]
      /\ poll \in [Devices -> {"none", "sleeping", "asked"} \cup Answers]
      /\ held \in [Devices -> Approvals \cup {NoToken}]
      /\ row[d].st = "approved" => a \in Approvals
  BY <1>1 DEF TypeInv, TypeOK, RowRecord, TokensNamed
<1>4. Outcome(d) = "approved" => row[d].st = "approved" /\ d \notin old
  BY DEF Outcome, Grantable
<1>5. Outcome(d) = "access_denied" => row[d].st = "rejected"
  BY DEF Outcome
<1>6. Outcome(d) = "expired_token" => row[d].st = "deleted" \/ d \in old
  BY DEF Outcome, Grantable
<1>7. row'[d] = row[d] \/ row'[d] = Deleted
  BY <1>2, <1>3 DEF Consume
<1>8. listening => poll'[d] = Outcome(d) /\ dev[d] = "waiting"
  BY <1>1, <1>2, <1>3 DEF AnswersTaken
<1>9. ~listening => blips > 0
  BY <1>1, <1>2 DEF AnswersTaken
<1>10. AnswersTaken(d)'
  <2>1. poll'[d] = "asked" => dev'[d] = "waiting"
    <3>1. Outcome(d) # "asked"
      BY DEF Outcome
    <3>2. QED
      BY <1>1, <1>2, <1>8, <3>1 DEF AnswersTaken
  <2>2. strays'[d] > 0 => blips' > 0
    BY <1>1, <1>2, <1>3, <1>9 DEF AnswersTaken
  <2>3. ASSUME held'[d] # NoToken PROVE Granted(held[d], d)'
    <3>1. CASE held' = held
      BY <1>1, <1>2, <2>3, <3>1 DEF AnswersTaken, Granted
    <3>2. CASE held' # held
      <4>1. held' = [held EXCEPT ![d] = a] /\ row[d].st = "approved"
        BY <1>2, <1>4, <3>2
      <4>2. Granted(a, d) /\ held'[d] = a
        BY <1>1, <1>3, <4>1 DEF DecisionInv, ApprovedRows
      <4>3. QED
        BY <1>2, <4>2 DEF Granted
    <3>3. QED
      BY <3>1, <3>2
  <2>4. QED
    BY <2>1, <2>2, <2>3 DEF AnswersTaken
<1>11. RowEnded(d)'
  <2>1. row'[d].st = "rejected" => d \in denied'
    BY <1>1, <1>2, <1>7 DEF RowEnded, Deleted
  <2>2. ASSUME row'[d].st = "deleted", d \notin old
        PROVE  d \in denied \/ \E b \in Approvals : Granted(b, d)
    <3>1. CASE row'[d] = row[d]
      BY <1>1, <2>2, <3>1 DEF RowEnded
    <3>2. CASE row'[d] # row[d]
      <4>1. Outcome(d) \in {"expired_token", "access_denied", "approved"}
        BY <1>2, <3>2 DEF Consume, Outcome
      <4>2. CASE row[d].st = "deleted" \/ row[d].st = "rejected"
        BY <1>1, <2>2, <4>2 DEF RowEnded
      <4>3. CASE row[d].st = "approved"
        BY <1>1, <1>3, <4>3 DEF DecisionInv, ApprovedRows
      <4>4. QED
        BY <1>4, <1>5, <1>6, <2>2, <4>1, <4>2, <4>3
    <3>3. QED
      BY <3>1, <3>2
  <2>3. ASSUME row'[d].st = "deleted", d \notin old, d \in denied
        PROVE  blips > 0 \/ poll'[d] = "access_denied" \/ dev[d] \in Ended
    <3>1. CASE ~listening
      BY <1>9, <3>1
    <3>2. CASE listening /\ row[d].st = "deleted"
      BY <1>1, <1>2, <1>8, <2>3, <3>2 DEF RowEnded
    <3>3. CASE listening /\ row[d].st # "deleted"
      <4>1. row[d].st = "rejected"
        BY <1>1, <2>3, <3>3 DEF DecisionInv, DeniedRows
      <4>2. Outcome(d) = "access_denied"
        BY <2>3, <4>1 DEF Outcome, Grantable
      <4>3. QED
        BY <1>8, <3>3, <4>2
    <3>4. QED
      BY <3>1, <3>2, <3>3
  <2>4. QED
    BY <1>2, <2>1, <2>2, <2>3 DEF RowEnded, Granted
<1>12. ExpiredAnswer(d)'
  <2>1. SUFFICES ASSUME d \notin old, poll'[d] = "expired_token" \/ dev[d] = "expired"
                 PROVE  Explained(d)
    BY <1>2, StaysExplained DEF ExpiredAnswer
  <2>2. CASE dev[d] = "expired" \/ ~listening
    BY <1>1, <1>2, <2>1, <2>2 DEF ExpiredAnswer
  <2>3. CASE listening /\ dev[d] # "expired"
    <3>1. row[d].st = "deleted" /\ dev[d] = "waiting" /\ poll[d] = "asked"
      BY <1>2, <1>6, <1>8, <2>1, <2>3
    <3>2. CASE d \in denied
      BY <1>1, <2>1, <3>1, <3>2 DEF RowEnded, Ended, Explained
    <3>3. CASE d \notin denied
      <4>1. PICK b \in Approvals : Granted(b, d)
        BY <1>1, <2>1, <3>1, <3>3 DEF RowEnded
      <4>2. ASSUME b \in tokens PROVE b \in lost
        <5>1. Accounted(b) /\ doomed = {} /\ req[b].at = "granted"
          BY <1>1, <1>2, <4>1, <4>2 DEF TokensAreAccountedFor, Quiet, Granted
        <5>2. ASSUME NEW e \in Devices, row[e] = Approved(b) PROVE FALSE
          <6>1. Granted(b, e) /\ row[e].st = "approved"
            BY <1>1, <5>2 DEF DecisionInv, ApprovedRows, Approved
          <6>2. QED
            BY <3>1, <4>1, <6>1 DEF Granted
        <5>3. ASSUME NEW e \in Devices, held[e] = b PROVE FALSE
          <6>1. held[e] # NoToken
            BY <5>3, EnrollmentConstantsOK
          <6>2. Granted(b, e)
            BY <1>1, <5>3, <6>1 DEF AnswersTaken
          <6>3. e = d
            BY <4>1, <6>2 DEF Granted
          <6>4. QED
            BY <1>1, <3>1, <6>1, <6>3 DEF HandsFree
        <5>4. QED
          BY <5>1, <5>2, <5>3 DEF Accounted
      <4>3. QED
        BY <4>1, <4>2 DEF Explained
    <3>4. QED
      BY <3>2, <3>3
  <2>4. QED
    BY <2>2, <2>3
<1>13. QED
  BY <1>10, <1>11, <1>12 DEF DeviceExpiry

LEMMA ExpiryStep == ExpiryInv /\ [Next]_vars => ExpiryInv'
<1> SUFFICES ASSUME ExpiryInv, [Next]_vars, NEW e \in Devices PROVE DeviceExpiry(e)'
  BY CustodyStep DEF ExpiryInv
<1> USE DEF brokerVars, deviceVars, history
<1>1. TypeInv /\ TypeInv' /\ DecisionInv /\ DeviceExpiry(e) /\ Grows
  BY TypeInvStep, HistoryGrows DEF ExpiryInv, CustodyInv, DecisionInv
<1>2. TypeOK
  BY <1>1 DEF TypeInv
<1>3. ASSUME row'[e] = row[e], dev'[e] = dev[e], poll'[e] = poll[e],
             held'[e] = held[e], strays'[e] = strays[e],
             e \in denied' => e \in denied
      PROVE  DeviceExpiry(e)'
  BY <1>1, <1>3, ExpiryFrame
<1>4. ASSUME NEW d \in Devices, d # e,
             \/ Mint(d) \/ Reject(d) \/ Age(d)
             \/ DeviceStep(d) \/ Cancel(d) \/ Blip(d) \/ WithdrawOrphan(d)
             \/ \E listening \in BOOLEAN : HandlePoll(d, listening)
      PROVE  DeviceExpiry(e)'
  <2>1. CASE Mint(d) \/ Reject(d) \/ Age(d)
    BY <1>2, <1>3, <1>4, <2>1 DEF Mint, Reject, Age, TypeOK
  <2>2. CASE DeviceStep(d) \/ Cancel(d) \/ Blip(d)
    BY <1>2, <1>3, <1>4, <2>2 DEF DeviceStep, Sleep, Ask, GiveUp, Answer, Cancel, Blip,
       TypeOK
  <2>3. CASE WithdrawOrphan(d)
    BY <1>2, <1>3, <1>4, <2>3 DEF WithdrawOrphan, Consume, TypeOK
  <2>4. ASSUME NEW listening \in BOOLEAN, HandlePoll(d, listening)
        PROVE  DeviceExpiry(e)'
    <3>1. row'[e] = row[e]
      BY <1>2, <1>4, <2>4 DEF HandlePoll, Consume, TypeOK
    <3>2. poll'[e] = poll[e] /\ held'[e] = held[e] /\ strays'[e] = strays[e]
      BY <1>2, <1>4, <2>4 DEF HandlePoll, TypeOK
    <3>3. QED
      BY <1>3, <2>4, <3>1, <3>2 DEF HandlePoll
  <2>5. QED
    BY <1>4, <2>1, <2>2, <2>3, <2>4
<1>5. CASE Mint(e)
  <2>1. row[e].st = "none" /\ row'[e].st = "pending"
    BY <1>1, <1>2, <1>5 DEF Mint, DecisionInv, FreshRows, TypeOK
  <2>2. e \notin denied /\ dev'[e] # "expired" /\ held' = held
    BY <1>1, <1>2, <1>5, <2>1 DEF Mint, DecisionInv, DeniedRows, TypeOK
  <2>3. UNCHANGED <<poll, strays, held, req, old, denied, blips>>
    BY <1>5 DEF Mint
  <2>4. poll[e] # "asked"
    BY <1>1, <1>5 DEF DeviceExpiry, AnswersTaken, Mint
  <2>5. AnswersTaken(e)'
    BY <1>1, <2>3, <2>4 DEF DeviceExpiry, AnswersTaken, Granted
  <2>6. RowEnded(e)'
    BY <2>1 DEF RowEnded
  <2>7. ExpiredAnswer(e)'
    BY <1>1, <2>2, <2>3, StaysExplained DEF DeviceExpiry, ExpiredAnswer
  <2>8. QED
    BY <2>5, <2>6, <2>7 DEF DeviceExpiry
<1>6. CASE Reject(e)
  <2>1. /\ UNCHANGED <<poll, strays, held, req, old, dev, blips>>
        /\ row'[e].st = "rejected" /\ e \in denied'
    BY <1>2, <1>6 DEF Reject, TypeOK
  <2>2. AnswersTaken(e)'
    BY <1>1, <2>1 DEF DeviceExpiry, AnswersTaken, Granted
  <2>3. RowEnded(e)'
    BY <2>1 DEF RowEnded
  <2>4. ExpiredAnswer(e)'
    BY <1>1, <2>1, StaysExplained DEF DeviceExpiry, ExpiredAnswer
  <2>5. QED
    BY <2>2, <2>3, <2>4 DEF DeviceExpiry
<1>7. CASE Age(e)
  BY <1>3, <1>7 DEF Age
<1>8. CASE DeviceStep(e) \/ Cancel(e) \/ Blip(e)
  <2>1. UNCHANGED <<row, req, old, denied, tokens>> /\ dev[e] = "waiting"
    BY <1>8 DEF DeviceStep, Sleep, Ask, GiveUp, Answer, Cancel, Blip
  <2>2. CASE Sleep(e) \/ Ask(e)
    <3>1. /\ UNCHANGED <<held, strays, dev, blips>>
          /\ poll[e] \in {"none", "sleeping"}
          /\ poll'[e] \in {"none", "sleeping", "asked"}
      BY <1>2, <2>2 DEF Sleep, Ask, TypeOK
    <3>2. QED
      BY <1>1, <2>1, <3>1 DEF DeviceExpiry, AnswersTaken, RowEnded, ExpiredAnswer, Granted
  <2>3. CASE GiveUp(e) \/ Cancel(e)
    <3>1. /\ UNCHANGED <<held, strays, poll, blips>>
          /\ poll[e] \in {"none", "sleeping"}
          /\ dev'[e] \in Ended
          /\ dev'[e] = "expired" => e \in old
      BY <1>2, <2>3 DEF GiveUp, Cancel, TypeOK, Ended
    <3>2. QED
      BY <1>1, <2>1, <3>1 DEF DeviceExpiry, AnswersTaken, RowEnded, ExpiredAnswer, Granted
  <2>4. CASE Answer(e)
    <3>1. UNCHANGED <<held, strays, blips>> /\ poll'[e] = "none"
      BY <1>2, <2>4 DEF Answer, TypeOK
    <3>2. /\ dev'[e] = "expired" => poll[e] = "expired_token"
          /\ poll[e] = "access_denied" => dev'[e] \in Ended
      <4>1. PICK outcome \in {"waiting"} \cup Ended :
               /\ outcome \in CASE poll[e] = "authorization_pending" -> {"waiting"}
                                [] poll[e] = "expired_token" -> {"expired"}
                                [] poll[e] = "access_denied" -> {"denied"}
                                [] poll[e] = "approved" -> {"saved", "failed"}
               /\ dev' = [dev EXCEPT ![e] = outcome]
        BY <2>4 DEF Answer
      <4>2. poll[e] \in Answers
        BY <2>4 DEF Answer
      <4>3. QED
        BY <1>2, <4>1, <4>2 DEF TypeOK, Answers, Ended
    <3>3. AnswersTaken(e)'
      BY <1>1, <2>1, <3>1 DEF DeviceExpiry, AnswersTaken, Granted
    <3>4. RowEnded(e)'
      BY <1>1, <2>1, <3>1, <3>2 DEF DeviceExpiry, RowEnded, Granted, Ended
    <3>5. ExpiredAnswer(e)'
      BY <1>1, <2>1, <3>1, <3>2, StaysExplained DEF DeviceExpiry, ExpiredAnswer
    <3>6. QED
      BY <3>3, <3>4, <3>5 DEF DeviceExpiry
  <2>5. CASE Blip(e)
    <3>1. /\ dev' = dev /\ poll'[e] = "none" /\ held'[e] = NoToken /\ blips' > 0
      BY <1>2, <2>5 DEF Blip, TypeOK
    <3>2. AnswersTaken(e)'
      BY <3>1 DEF AnswersTaken
    <3>3. RowEnded(e)'
      BY <1>1, <2>1, <3>1 DEF DeviceExpiry, RowEnded, Granted
    <3>4. ExpiredAnswer(e)'
      BY <2>1, <3>1 DEF ExpiredAnswer
    <3>5. QED
      BY <3>2, <3>3, <3>4 DEF DeviceExpiry
  <2>6. QED
    BY <1>8, <2>2, <2>3, <2>4, <2>5 DEF DeviceStep
<1>9. CASE WithdrawOrphan(e)
  <2>1. UNCHANGED <<poll, strays, held, req, old, dev, blips, denied>>
    BY <1>9 DEF WithdrawOrphan
  <2>2. row[e].st = "approved" /\ row[e].token \in Approvals
    BY <1>1, <1>2, <1>9 DEF WithdrawOrphan, MemberGone, Grantable, TypeInv, TokensNamed,
       TypeOK, RowRecord
  <2>3. Granted(row[e].token, e) /\ e \notin denied
    BY <1>1, <2>2 DEF DecisionInv, ApprovedRows, DeniedRows
  <2>4. row'[e].st # "rejected"
    <3>1. row'[e] = row[e] \/ row'[e] = Deleted
      BY <1>2, <1>9 DEF WithdrawOrphan, Consume, TypeOK
    <3>2. QED
      BY <2>2, <3>1 DEF Deleted
  <2>5. AnswersTaken(e)'
    BY <1>1, <2>1 DEF DeviceExpiry, AnswersTaken, Granted
  <2>6. RowEnded(e)'
    BY <2>1, <2>2, <2>3, <2>4 DEF RowEnded, Granted
  <2>7. ExpiredAnswer(e)'
    BY <1>1, <2>1, StaysExplained DEF DeviceExpiry, ExpiredAnswer
  <2>8. QED
    BY <2>5, <2>6, <2>7 DEF DeviceExpiry
<1>10. CASE \E listening \in BOOLEAN : HandlePoll(e, listening)
  BY <1>1, <1>10, PollExpiry
<1>11. ASSUME NEW a \in Approvals, Grant(a) PROVE DeviceExpiry(e)'
  <2>1. UNCHANGED <<poll, strays, held, dev, old, denied, blips>>
    BY <1>11 DEF Grant
  <2>2. row'[e] = row[e] \/ row'[e].st = "approved"
    BY <1>2, <1>11 DEF Grant, TypeOK, Approved
  <2>3. CASE row'[e] = row[e]
    BY <1>3, <2>1, <2>3
  <2>4. CASE row'[e].st = "approved"
    <3>1. AnswersTaken(e)'
      <4>1. held[e] \in Approvals \cup {NoToken}
        BY <1>2 DEF TypeOK
      <4>2. QED
        BY <1>1, <2>1, <4>1 DEF DeviceExpiry, AnswersTaken, Grows
    <3>2. RowEnded(e)'
      BY <2>4 DEF RowEnded
    <3>3. ExpiredAnswer(e)'
      BY <1>1, <2>1, StaysExplained DEF DeviceExpiry, ExpiredAnswer
    <3>4. QED
      BY <3>1, <3>2, <3>3 DEF DeviceExpiry
  <2>5. QED
    BY <2>2, <2>3, <2>4
<1>12. CASE Halt
  <2>1. /\ UNCHANGED <<row, old, dev, held, blips, denied>>
        /\ poll'[e] = IF poll[e] = "asked" THEN "none" ELSE poll[e]
        /\ strays'[e] = 0
    BY <1>12 DEF Halt
  <2>2. held[e] \in Approvals \cup {NoToken}
    BY <1>2 DEF TypeOK
  <2>3. AnswersTaken(e)'
    BY <1>1, <2>1, <2>2 DEF DeviceExpiry, AnswersTaken, Grows
  <2>4. RowEnded(e)'
    <3>1. (\E a \in Approvals : Granted(a, e)) => \E a \in Approvals : Granted(a, e)'
      BY <1>1 DEF Grows
    <3>2. QED
      BY <1>1, <2>1, <3>1 DEF DeviceExpiry, RowEnded
  <2>5. ExpiredAnswer(e)'
    BY <1>1, <2>1, StaysExplained DEF DeviceExpiry, ExpiredAnswer
  <2>6. QED
    BY <2>3, <2>4, <2>5 DEF DeviceExpiry
<1>13. CASE Restart
  <2>1. UNCHANGED <<poll, strays, held, dev, old, denied, blips, req>>
    BY <1>13 DEF Restart
  <2>2. row'[e] = IF e \in old THEN Deleted ELSE row[e]
    BY <1>13 DEF Restart
  <2>3. CASE e \notin old
    BY <1>3, <2>1, <2>2, <2>3
  <2>4. CASE e \in old
    BY <1>1, <2>1, <2>2, <2>4
    DEF DeviceExpiry, AnswersTaken, RowEnded, ExpiredAnswer, Granted, Deleted
  <2>5. QED
    BY <2>3, <2>4
<1>14. ASSUME NEW a \in Approvals,
              InsertToken(a) \/ RevokeToken(a)
                 \/ \E d \in Devices, n \in Names : BeginApproval(a, d, n)
       PROVE  DeviceExpiry(e)'
  BY <1>3, <1>14 DEF InsertToken, RevokeToken, BeginApproval
<1>15. CASE (\E n \in Names : RemoveMember(n)) \/ RevokeDoomed \/ UNCHANGED vars
  BY <1>3, <1>15 DEF RemoveMember, RevokeDoomed, vars
<1>16. QED
  <2>1. ASSUME NEW d \in Devices,
               \/ Mint(d) \/ Reject(d) \/ Age(d)
               \/ DeviceStep(d) \/ Cancel(d) \/ Blip(d) \/ WithdrawOrphan(d)
               \/ \E listening \in BOOLEAN : HandlePoll(d, listening)
        PROVE  DeviceExpiry(e)'
    BY <1>4, <1>5, <1>6, <1>7, <1>8, <1>9, <1>10, <2>1
  <2>2. ASSUME NEW a \in Approvals,
               \/ InsertToken(a) \/ Grant(a) \/ RevokeToken(a)
               \/ \E d \in Devices, n \in Names : BeginApproval(a, d, n)
        PROVE  DeviceExpiry(e)'
    BY <1>11, <1>14, <2>2
  <2>3. QED
    BY <1>12, <1>13, <1>15, <2>1, <2>2 DEF Next

(* For any number of devices, approvals, restarts and network errors, a     *)
(* device is told early that its enrollment expired only when its denial    *)
(* or its token was lost or withdrawn (pollByDeviceCode answers `expired`   *)
(* for a row that is gone): never while approval is open.                   *)
THEOREM EarlyExpiryExplained == Spec => []ExpiryIsExplained
<1>1. Init => ExpiryInv
  <2>1. Init => \A d \in Devices : DeviceExpiry(d)
    BY DEF Init, DeviceExpiry, AnswersTaken, RowEnded, ExpiredAnswer, NoRow, NoReq
  <2>2. QED
    BY <2>1, CustodyInit DEF ExpiryInv
<1>2. ExpiryInv => ExpiryIsExplained
  BY DEF ExpiryInv, DeviceExpiry, ExpiredAnswer, Explained, ExpiryIsExplained
<1>3. QED
  BY <1>1, <1>2, ExpiryStep, PTL DEF Spec
=============================================================================
