------------------------------ MODULE Enrollment ------------------------------
(***************************************************************************)
(* The device-code flow: the enrollment store of the broker                *)
(* (packages/core/src/enrollments.ts) under the routes that drive it       *)
(* (app.ts), the tokens and members those routes change, and the device    *)
(* that polls (packages/cli/src/commands/connect.ts), with requests and    *)
(* answers that get lost, and the broker stopping and starting again.      *)
(*                                                                         *)
(* A step is what runs between two awaits of I/O; Quiet gives a handler's  *)
(* own continuations precedence, so that only the end of the process comes *)
(* between them. A token is known by the approval request that issues it.  *)
(* Time is one fact for each enrollment: whether its five minutes are over.*)
(***************************************************************************)
EXTENDS Naturals, FiniteSets

CONSTANTS
    Devices,         \* runs of `csuite connect`, each with codes of its own
    Approvals,       \* approval requests, each with the token it may issue
    Names,           \* member names approvals bind or create
    InitialMembers,  \* those of them that exist at first
    NoToken, NoDevice, NoName,
    MaxStarts,       \* bound: how many times the broker starts
    MaxBlips         \* bound: polls that end in a network error

ASSUME EnrollmentConstantsOK ==
    /\ NoToken \notin Approvals
    /\ NoDevice \notin Devices
    /\ NoName \notin Names
    /\ InitialMembers \subseteq Names
    /\ MaxStarts \in Nat /\ MaxBlips \in Nat

VARIABLES
    server, starts,
    row,      \* the table: per device the state and the stashed token
    old,      \* enrollments whose expires_at has passed
    members,  \* the member store
    tokens,   \* the token table, as far as approvals filled it
    req,      \* per approval: where it stands, its enrollment and member
    doomed,   \* tokens the running handler revokes next (in memory)
    dev,      \* how each device fares
    poll,     \* per device: its loop, and the answer on its connection
    held,     \* the token in that answer, then the one the device has saved
    strays,   \* polls the device gave up on that may still reach the broker
    blips,    \* network errors so far (bounded by MaxBlips)
    sent,     \* history: answers that carried each token
    lost,     \* history: tokens that slipped out of everybody's hands
    denied    \* history: devices whose enrollment was rejected

brokerVars == <<row, members, tokens, req, doomed>>
deviceVars == <<dev, poll, held, strays, blips>>
vars == <<server, starts, row, old, members, tokens, req, doomed, dev, poll,
          held, strays, blips, sent, lost, denied>>
history == <<sent, lost, denied>>

Answers ==
    {"authorization_pending", "expired_token", "access_denied", "approved"}
Ended == {"saved", "expired", "denied", "cancelled", "failed"}

RowRecord ==
    [st : {"none", "pending", "approved", "rejected", "deleted"},
     token : Approvals \cup {NoToken}]
ReqRecord ==
    [at : {"new", "hashing", "inserted", "granted", "conflict", "cut"},
     dev : Devices \cup {NoDevice}, name : Names \cup {NoName}]

TypeOK ==
    /\ server \in {"up", "down"} /\ starts \in Nat
    /\ row \in [Devices -> RowRecord]
    /\ old \in SUBSET Devices
    /\ members \in SUBSET Names
    /\ tokens \in SUBSET Approvals
    /\ req \in [Approvals -> ReqRecord]
    /\ doomed \in SUBSET Approvals
    /\ dev \in [Devices -> {"new", "waiting"} \cup Ended]
    /\ poll \in [Devices -> {"none", "sleeping", "asked"} \cup Answers]
    /\ held \in [Devices -> Approvals \cup {NoToken}]
    /\ strays \in [Devices -> Nat]
    /\ blips \in Nat
    /\ sent \in [Approvals -> Nat]
    /\ lost \in SUBSET Approvals
    /\ denied \in SUBSET Devices

NoRow == [st |-> "none", token |-> NoToken]
NoReq == [at |-> "new", dev |-> NoDevice, name |-> NoName]
Deleted == [st |-> "deleted", token |-> NoToken]
Approved(a) == [st |-> "approved", token |-> a]

Init ==
    /\ server = "up" /\ starts = 1
    /\ row = [d \in Devices |-> NoRow]
    /\ old = {}
    /\ members = InitialMembers
    /\ tokens = {}
    /\ req = [a \in Approvals |-> NoReq]
    /\ doomed = {}
    /\ dev = [d \in Devices |-> "new"]
    /\ poll = [d \in Devices |-> "none"]
    /\ held = [d \in Devices |-> NoToken]
    /\ strays = [d \in Devices |-> 0]
    /\ blips = 0
    /\ sent = [a \in Approvals |-> 0]
    /\ lost = {}
    /\ denied = {}
-----------------------------------------------------------------------------
(* No handler is between two of its own statements. *)
Quiet == doomed = {} /\ \A a \in Approvals : req[a].at # "inserted"
Serving == server = "up" /\ Quiet

(* POST /enroll; when the answer is lost the device has no codes to use. *)
Mint(d) ==
    /\ Serving
    /\ dev[d] = "new"
    /\ row' = [row EXCEPT ![d].st = "pending"]
    /\ \E outcome \in {"waiting", "failed"} : dev' = [dev EXCEPT ![d] = outcome]
    /\ UNCHANGED <<server, starts, old, members, tokens, req, doomed, poll,
                   held, strays, blips, history>>

(* POST /enroll/approve up to the await of the token's hash: the code is    *)
(* looked up, then a new member is created or an existing one found.        *)
BeginApproval(a, d, n) ==
    /\ Serving
    /\ req[a].at = "new"
    /\ row[d].st = "pending" /\ d \notin old
    /\ members' = members \cup {n}
    /\ req' = [req EXCEPT ![a] = [at |-> "hashing", dev |-> d, name |-> n]]
    /\ UNCHANGED <<server, starts, row, old, tokens, doomed, deviceVars,
                   history>>

(* tokens.insert after its await *)
InsertToken(a) ==
    /\ Serving
    /\ req[a].at = "hashing"
    /\ req' = [req EXCEPT ![a].at = "inserted"]
    /\ tokens' = tokens \cup {a}
    /\ UNCHANGED <<server, starts, row, old, members, doomed, deviceVars,
                   history>>

(* Slips: the state of the row is not asked; the conflict is only reported. *)
GrantAnyRow(a) ==
    /\ server = "up"
    /\ req[a].at = "inserted"
    /\ req' = [req EXCEPT ![a].at = "granted"]
    /\ row' = [row EXCEPT ![req[a].dev] = Approved(a)]
    /\ UNCHANGED <<server, starts, old, members, tokens, doomed, deviceVars,
                   history>>

GrantNoRollback(a) ==
    /\ server = "up"
    /\ req[a].at = "inserted"
    /\ IF row[req[a].dev].st = "pending"
       THEN /\ req' = [req EXCEPT ![a].at = "granted"]
            /\ row' = [row EXCEPT ![req[a].dev] = Approved(a)]
       ELSE /\ req' = [req EXCEPT ![a].at = "conflict"]
            /\ UNCHANGED row
    /\ UNCHANGED <<server, starts, old, members, tokens, doomed, deviceVars,
                   history>>

(* approve(): the row is granted if it is still pending, expired or not;    *)
(* else the token is to be revoked again. A member created stays.           *)
Grant(a) ==
    /\ server = "up"
    /\ req[a].at = "inserted"
    /\ IF row[req[a].dev].st = "pending"
       THEN /\ req' = [req EXCEPT ![a].at = "granted"]
            /\ row' = [row EXCEPT ![req[a].dev] = Approved(a)]
            /\ UNCHANGED doomed
       ELSE /\ req' = [req EXCEPT ![a].at = "conflict"]
            /\ doomed' = doomed \cup {a}
            /\ UNCHANGED row
    /\ UNCHANGED <<server, starts, old, members, tokens, deviceVars, history>>

(* tokens.revoke, or revokeAllForMember, as the handler's next statement *)
RevokeDoomed ==
    /\ server = "up"
    /\ doomed # {}
    /\ tokens' = tokens \ doomed
    /\ doomed' = {}
    /\ UNCHANGED <<server, starts, row, old, members, req, deviceVars, history>>

(* POST /enroll/reject *)
Reject(d) ==
    /\ Serving
    /\ row[d].st = "pending"
    /\ row' = [row EXCEPT ![d].st = "rejected"]
    /\ denied' = denied \cup {d}
    /\ UNCHANGED <<server, starts, old, members, tokens, req, doomed,
                   deviceVars, sent, lost>>

(* The members and tokens routes: a member is deleted, then its tokens; a   *)
(* single token is revoked.                                                 *)
RemoveMember(n) ==
    /\ Serving
    /\ n \in members
    /\ members' = members \ {n}
    /\ doomed' = {a \in tokens : req[a].name = n}
    /\ UNCHANGED <<server, starts, row, old, tokens, req, deviceVars, history>>

RevokeToken(a) ==
    /\ Serving
    /\ a \in tokens
    /\ tokens' = tokens \ {a}
    /\ UNCHANGED <<server, starts, row, old, members, req, doomed, deviceVars,
                   history>>
-----------------------------------------------------------------------------
(* POST /enroll/poll *)
Grantable(d) == row[d].st = "approved" /\ d \notin old
MemberGone(d) == Grantable(d) /\ req[row[d].token].name \notin members

Outcome(d) ==
    CASE row[d].st = "deleted" \/ d \in old -> "expired_token"
      [] row[d].st = "rejected" /\ d \notin old -> "access_denied"
      [] Grantable(d) -> "approved"
      [] OTHER -> "authorization_pending"

(* Slips: the row of a delivered token stays; every poll deletes the row. *)
KeepConsumed(d) ==
    IF Outcome(d) \in {"authorization_pending", "approved"} THEN UNCHANGED row
    ELSE row' = [row EXCEPT ![d] = Deleted]
ConsumeAlways(d) == row' = [row EXCEPT ![d] = Deleted]

(* pollByDeviceCode: every outcome but `pending` deletes the row. *)
Consume(d) ==
    IF Outcome(d) = "authorization_pending" THEN UNCHANGED row
    ELSE row' = [row EXCEPT ![d] = Deleted]

(* The answer to one poll, after the await of the device code's hash; the   *)
(* device may no longer be listening.                                       *)
HandlePoll(d, listening) ==
    LET a == row[d].token
        sends == Outcome(d) = "approved"
    IN  /\ Serving
        /\ ~MemberGone(d)
        /\ Consume(d)
        /\ sent' = IF sends THEN [sent EXCEPT ![a] = @ + 1] ELSE sent
        /\ lost' = IF row[d].st = "approved" /\ (d \in old \/ ~listening)
                   THEN lost \cup {a} ELSE lost
        /\ IF listening
           THEN /\ poll[d] = "asked"
                /\ poll' = [poll EXCEPT ![d] = Outcome(d)]
                /\ held' = IF sends THEN [held EXCEPT ![d] = a] ELSE held
                /\ UNCHANGED strays
           ELSE /\ strays[d] > 0
                /\ strays' = [strays EXCEPT ![d] = @ - 1]
                /\ UNCHANGED <<poll, held>>
        /\ UNCHANGED <<server, starts, old, members, tokens, req, doomed, dev,
                       blips, denied>>

(* The member was deleted since the approval: the token is revoked, and the *)
(* poll answered as for any row that is gone.                               *)
WithdrawOrphan(d) ==
    /\ Serving
    /\ poll[d] = "asked" \/ strays[d] > 0
    /\ MemberGone(d)
    /\ Consume(d)
    /\ doomed' = {row[d].token}
    /\ UNCHANGED <<server, starts, old, members, tokens, req, deviceVars,
                   history>>
-----------------------------------------------------------------------------
(* The loop of runConnectCommand: its deadline is looked at before each     *)
(* sleep, and a poll follows every sleep.                                   *)
Sleep(d) ==
    /\ dev[d] = "waiting" /\ poll[d] = "none"
    /\ d \notin old
    /\ poll' = [poll EXCEPT ![d] = "sleeping"]
    /\ UNCHANGED <<server, starts, brokerVars, old, dev, held, strays, blips,
                   history>>

Ask(d) ==
    /\ dev[d] = "waiting" /\ poll[d] = "sleeping"
    /\ poll' = [poll EXCEPT ![d] = IF server = "up" THEN "asked" ELSE "none"]
    /\ UNCHANGED <<server, starts, brokerVars, old, dev, held, strays, blips,
                   history>>

GiveUp(d) ==
    /\ dev[d] = "waiting" /\ poll[d] = "none"
    /\ d \in old
    /\ dev' = [dev EXCEPT ![d] = "expired"]
    /\ UNCHANGED <<server, starts, brokerVars, old, poll, held, strays, blips,
                   history>>

(* Ctrl-C is looked at before and during a sleep. *)
Cancel(d) ==
    /\ dev[d] = "waiting" /\ poll[d] \in {"none", "sleeping"}
    /\ dev' = [dev EXCEPT ![d] = "cancelled"]
    /\ UNCHANGED <<server, starts, brokerVars, old, poll, held, strays, blips,
                   history>>

(* The device reads the answer; saving the token may fail. *)
Answer(d) ==
    /\ dev[d] = "waiting" /\ poll[d] \in Answers
    /\ poll' = [poll EXCEPT ![d] = "none"]
    /\ \E outcome \in {"waiting"} \cup Ended :
          /\ outcome \in CASE poll[d] = "authorization_pending" -> {"waiting"}
                           [] poll[d] = "expired_token" -> {"expired"}
                           [] poll[d] = "access_denied" -> {"denied"}
                           [] poll[d] = "approved" -> {"saved", "failed"}
          /\ dev' = [dev EXCEPT ![d] = outcome]
          /\ lost' = IF outcome = "failed" THEN lost \cup {held[d]} ELSE lost
    /\ UNCHANGED <<server, starts, brokerVars, old, held, strays, blips,
                   sent, denied>>

(* Slip: a poll that fails leaves the loop waiting for it. *)
BlipHangs(d) ==
    /\ dev[d] = "waiting" /\ poll[d] \in {"asked"} \cup Answers
    /\ blips < MaxBlips
    /\ blips' = blips + 1
    /\ strays' = strays
    /\ held' = [held EXCEPT ![d] = NoToken]
    /\ lost' = IF poll[d] = "approved" THEN lost \cup {held[d]} ELSE lost
    /\ poll' = [poll EXCEPT ![d] = "hung"]
    /\ UNCHANGED <<server, starts, brokerVars, old, dev, sent, denied>>

(* A network error on the way there, after which the poll may still reach   *)
(* the broker, or on the way back: the loop carries on.                     *)
Blip(d) ==
    /\ dev[d] = "waiting" /\ poll[d] \in {"asked"} \cup Answers
    /\ blips < MaxBlips
    /\ blips' = blips + 1
    /\ strays' = IF poll[d] = "asked" THEN [strays EXCEPT ![d] = @ + 1]
                 ELSE strays
    /\ held' = [held EXCEPT ![d] = NoToken]
    /\ lost' = IF poll[d] = "approved" THEN lost \cup {held[d]} ELSE lost
    /\ poll' = [poll EXCEPT ![d] = "none"]
    /\ UNCHANGED <<server, starts, brokerVars, old, dev, sent, denied>>
-----------------------------------------------------------------------------
(* Five minutes pass. *)
Age(d) ==
    /\ row[d].st # "none" /\ d \notin old
    /\ old' = old \cup {d}
    /\ UNCHANGED <<server, starts, brokerVars, deviceVars, history>>

(* The process ends: requests in flight fail, and what a handler was about  *)
(* to do is not done. An answer on its way may still arrive.                *)
Interrupted(a) == req[a].at \in {"hashing", "inserted"}

Halt ==
    /\ server = "up"
    /\ starts < MaxStarts
    /\ server' = "down"
    /\ req' = [a \in Approvals |-> IF Interrupted(a)
                                   THEN [req[a] EXCEPT !.at = "cut"]
                                   ELSE req[a]]
    /\ doomed' = {}
    /\ lost' = lost \cup doomed \cup {a \in tokens : Interrupted(a)}
    /\ poll' = [d \in Devices |-> IF poll[d] = "asked" THEN "none" ELSE poll[d]]
    /\ strays' = [d \in Devices |-> 0]
    /\ UNCHANGED <<starts, row, old, members, tokens, dev, held, blips,
                   sent, denied>>

(* A new process purges the expired rows. *)
Restart ==
    /\ server = "down"
    /\ server' = "up"
    /\ starts' = starts + 1
    /\ row' = [d \in Devices |-> IF d \in old THEN Deleted ELSE row[d]]
    /\ lost' = lost \cup {a \in Approvals : \E d \in old : row[d] = Approved(a)}
    /\ UNCHANGED <<old, members, tokens, req, doomed, deviceVars, sent,
                   denied>>
-----------------------------------------------------------------------------
DeviceStep(d) == Sleep(d) \/ Ask(d) \/ GiveUp(d) \/ Answer(d)

Next ==
    \/ \E d \in Devices :
          \/ Mint(d) \/ Reject(d) \/ Age(d)
          \/ DeviceStep(d) \/ Cancel(d) \/ Blip(d) \/ WithdrawOrphan(d)
          \/ \E listening \in BOOLEAN : HandlePoll(d, listening)
    \/ \E a \in Approvals :
          \/ InsertToken(a) \/ Grant(a) \/ RevokeToken(a)
          \/ \E d \in Devices, n \in Names : BeginApproval(a, d, n)
    \/ \E n \in Names : RemoveMember(n)
    \/ RevokeDoomed \/ Halt \/ Restart

Spec == Init /\ [][Next]_vars

(* Fairness: time passes, handlers finish, the device's loop goes on and a  *)
(* stopped broker is started again. Nobody has to approve or reject.        *)
FairSpec ==
    /\ Spec
    /\ \A d \in Devices : /\ WF_vars(Age(d))
                          /\ WF_vars(DeviceStep(d))
                          /\ WF_vars(HandlePoll(d, TRUE))
    /\ \A a \in Approvals : WF_vars(Grant(a))
    /\ WF_vars(RevokeDoomed) /\ WF_vars(Restart)
-----------------------------------------------------------------------------
(* A token leaves the broker in one answer at most, however polls are       *)
(* repeated, delayed or answered to nobody (pollByDeviceCode deletes the    *)
(* row before it answers).                                                  *)
SentOnce == \A a \in Approvals : sent[a] <= 1

Granted(a, d) == req[a].at = "granted" /\ req[a].dev = d

(* Of the approvers who race for one code and the one who rejects it, one   *)
(* prevails (approve, reject: both ask that the row is still pending).      *)
OneDecision ==
    \A d \in Devices :
        LET granted == {a \in Approvals : Granted(a, d)}
        IN  /\ Cardinality(granted) <= 1
            /\ d \in denied => granted = {}

(* Every token in the table has somebody who is about to decide on it, an   *)
(* approved row it waits in, or a device it is on its way to or saved by,   *)
(* unless it is one of those that were lost: sent to a device that was not  *)
(* there or could not save it, never polled for in time, or caught between  *)
(* two statements by the end of the process. A race between approvers, a    *)
(* rejection or a deleted member leaves none behind (app.ts: "so we don't   *)
(* leave an orphan").                                                       *)
Accounted(a) ==
    \/ a \in lost \cup doomed
    \/ req[a].at = "inserted"
    \/ \E d \in Devices : row[d] = Approved(a) \/ held[d] = a

TokensAreAccountedFor == \A a \in tokens : Accounted(a)

(* A device is told that its enrollment expired before its time is over     *)
(* only after a decision: the answer with its denial or its token was lost, *)
(* or the token was withdrawn. It is never told so while approval is open,  *)
(* which would send it away from a code that is still good.                 *)
ExpiryIsExplained ==
    \A d \in Devices :
        dev[d] = "expired" /\ d \notin old =>
            \/ d \in denied /\ blips > 0
            \/ \E a \in Approvals :
                  Granted(a, d) /\ (a \in lost \/ a \notin tokens)

(* Every run of `csuite connect` ends, whatever becomes of its polls.       *)
DevicesStop == \A d \in Devices : dev[d] = "waiting" ~> dev[d] \in Ended
=============================================================================
