--------------------------- MODULE MessageDelivery ---------------------------
(***************************************************************************)
(* The broker's message-disposition ledger together with the subscriptions *)
(* that lease from it: packages/core/src/message-delivery.ts (the SQLite   *)
(* ledger), broker.ts (push, subscribe, disposition, runner conditions and *)
(* turns, redelivery, sweeps, blocked tokens), the WebSocket route of      *)
(* app.ts that drives them, and the process stopping and starting again.   *)
(*                                                                         *)
(* Time is untimed: a message is "late" once 24 hours have passed since    *)
(* its push, an open turn is "overdue" once eight hours have passed since  *)
(* it started; both may happen at any moment.                              *)
(***************************************************************************)
EXTENDS Naturals, FiniteSets

CONSTANTS
    Members,     \* the team; every member is seeded in the registry at boot
    Msgs,        \* messages pushed with a tracked disposition
    Subs,        \* subscription ids: one fresh UUID for each WebSocket
    Turns,       \* turn ids a runner may report
    Tokens,      \* bearer-token ids
    NoSub, NoMember, NoToken,
    MemberOf,    \* Subs -> Members, the authenticated name of the socket
    KindOf,      \* Subs -> Kinds, the client identity it declared
    TokenOf,     \* Subs -> Tokens, or NoToken for a session without one
    SenderOf,    \* Msgs -> Members or NoMember: the push context's `from`
    AudienceOf,  \* Msgs -> sets of Members: target, recipients or everybody
    MaxStarts    \* bound: how many times the server process starts

(* "state": disposition-v1 with runner-state-v1; "ack": disposition-v1      *)
(* alone; "legacy": a runner with neither; "observer": browser or CLI.      *)
Kinds == {"state", "ack", "legacy", "observer"}

ASSUME ConstantsOK ==
    /\ NoSub \notin Subs
    /\ NoMember \notin Members
    /\ NoToken \notin Tokens
    /\ MemberOf \in [Subs -> Members]
    /\ KindOf \in [Subs -> Kinds]
    /\ TokenOf \in [Subs -> Tokens \cup {NoToken}]
    /\ SenderOf \in [Msgs -> Members \cup {NoMember}]
    /\ AudienceOf \in [Msgs -> SUBSET Members]
    /\ MaxStarts \in Nat

VARIABLES
    server,    \* "up", "draining" after the shutdown signal, or "down"
    starts,    \* starts so far (bounded by MaxStarts)
    conn,      \* per subscription: "new", "live", "closing", "closed"
    cond,      \* per subscription: last runner condition, or "none"
    turns,     \* per subscription and turn: "none", "open", "overdue"
    revoked,   \* revoked tokens: the token store and blockedTokenIds
    row,       \* the ledger: one record for each (message, recipient)
    pushing,   \* pushes past eventLog.append, not yet tracked (in memory)
    appended,  \* messages in the durable event log
    late,      \* messages older than MESSAGE_DELIVERY_TTL_MS
    got,       \* messages written to each subscription's socket
    resend,    \* rows a running redeliverPending has still to send to it
    owed,      \* refusal facts a handler has still to push (in memory)
    noticed    \* refusal facts pushed, counted for each row

sessionVars == <<conn, cond, turns, revoked>>
vars == <<server, starts, conn, cond, turns, revoked, row, pushing, appended,
          late, got, resend, owed, noticed>>

Rows == Msgs \X Members
Terminal == {"acted", "handled", "refused", "unreported"}
Open == {"pending", "accepted"}
RowStates == Open \cup Terminal \cup {"none"}

(* A row of the table. `kept` is FALSE before the insert and again after    *)
(* the purge; `st` of a purged row is history. `released` is the in-memory  *)
(* releasedOwner set of the row, `by` a history of whose frame decided it.  *)
RowRecord == [st : RowStates, owner : Subs \cup {NoSub}, kept : BOOLEAN,
              released : SUBSET Subs, by : Subs \cup {NoSub}]
NoRow == [st |-> "none", owner |-> NoSub, kept |-> FALSE, released |-> {},
          by |-> NoSub]

TypeOK ==
    /\ server \in {"up", "draining", "down"}
    /\ starts \in Nat
    /\ conn \in [Subs -> {"new", "live", "closing", "closed"}]
    /\ cond \in [Subs -> {"none", "ready", "degraded"}]
    /\ turns \in [Subs -> [Turns -> {"none", "open", "overdue"}]]
    /\ revoked \in SUBSET Tokens
    /\ row \in [Rows -> RowRecord]
    /\ pushing \in SUBSET Msgs
    /\ appended \in SUBSET Msgs
    /\ late \in SUBSET Msgs
    /\ got \in [Subs -> SUBSET Msgs]
    /\ resend \in [Subs -> SUBSET Msgs]
    /\ owed \in SUBSET Rows
    /\ noticed \in [Rows -> Nat]

NoTurns == [t \in Turns |-> "none"]

Init ==
    /\ server = "up"
    /\ starts = 1
    /\ conn = [s \in Subs |-> "new"]
    /\ cond = [s \in Subs |-> "none"]
    /\ turns = [s \in Subs |-> NoTurns]
    /\ revoked = {}
    /\ row = [r \in Rows |-> NoRow]
    /\ pushing = {}
    /\ appended = {}
    /\ late = {}
    /\ got = [s \in Subs |-> {}]
    /\ resend = [s \in Subs |-> {}]
    /\ owed = {}
    /\ noticed = [r \in Rows |-> 0]
-----------------------------------------------------------------------------
Running == server # "down"

(* Runner: a client identity of kind `runner`; SupportsDisposition: one     *)
(* that advertised disposition-v1.                                          *)
Runner(s) == KindOf[s] \in {"state", "ack", "legacy"}
SupportsDisposition(s) == KindOf[s] \in {"state", "ack"}
RequiresAcceptance(s) == KindOf[s] = "state"

SubsOf(n) == {s \in Subs : MemberOf[s] = n /\ conn[s] = "live"}
Capable(n) == {s \in SubsOf(n) : SupportsDisposition(s)}
LegacyOnly(n) == Capable(n) = {} /\ \E s \in SubsOf(n) : Runner(s)

SubscriberReady(s) ==
    /\ conn[s] = "live"
    /\ SupportsDisposition(s)
    /\ TokenOf[s] \notin revoked
    /\ cond[s] = "ready"

ReadySubs(n) == {s \in SubsOf(n) : SubscriberReady(s)}

Leased(r, s) == row[r].kept /\ row[r].st = "accepted" /\ row[r].owner = s
IsPending(r) == row[r].kept /\ row[r].st = "pending"

(* ledger.pending(n, now) *)
PendingOf(n) == {m \in Msgs : IsPending(<<m, n>>) /\ m \notin late}

(* ledger.pending(n, now) once the leases of the subscriptions S are gone *)
PendingAfter(n, S) ==
    PendingOf(n) \cup
    {m \in Msgs \ late : \E s \in S : Leased(<<m, n>>, s)}

(* ledger.releaseOwner for each subscription of S *)
ReleasedRow(r, S) ==
    IF \E s \in S : MemberOf[s] = r[2] /\ Leased(r, s)
    THEN [row[r] EXCEPT !.st = "pending", !.owner = NoSub,
                        !.released = @ \cup {row[r].owner}]
    ELSE row[r]

ReleaseOwners(S) == row' = [r \in Rows |-> ReleasedRow(r, S)]

(* The subscriber redeliverToReady picks: the first ready one in the order  *)
(* of the Set, which the model leaves open, or nobody.                      *)
Target(ready) == IF ready = {} THEN {NoSub} ELSE ready
-----------------------------------------------------------------------------
(* broker.push, up to the await of eventLog.append *)
PushAppend(m) ==
    /\ Running
    /\ m \notin appended
    /\ appended' = appended \cup {m}
    /\ pushing' = pushing \cup {m}
    /\ UNCHANGED <<server, starts, sessionVars, row, late, got, resend, owed,
                   noticed>>

(* Slip: readiness is not consulted. *)
SelectedUnmanaged(n) == Target({s \in Capable(n) : KindOf[s] = "ack"})

(* The one runner a tracked message goes to: the first ready one, else the  *)
(* first that never reports readiness, else none.                           *)
SelectedRunner(n) ==
    LET unmanaged == {s \in Capable(n) : KindOf[s] = "ack"}
    IN  IF ReadySubs(n) # {} THEN ReadySubs(n) ELSE Target(unmanaged)

(* Whether the fan-out of m writes to s, given the selected runners. *)
FanoutReaches(m, s, pick) ==
    /\ conn[s] = "live"
    /\ MemberOf[s] \in AudienceOf[m] \cup {SenderOf[m]}
    /\ \/ ~Runner(s)
       \/ MemberOf[s] \notin AudienceOf[m]
       \/ Capable(MemberOf[s]) = {}
       \/ s = pick[MemberOf[s]]

TrackedRow(r) ==
    IF row[r].kept THEN row[r]
    ELSE [NoRow EXCEPT !.st = "pending", !.kept = TRUE]

(* broker.push, from the append's continuation to the end of the fan-out:   *)
(* track every addressed member unless only legacy runners are attached,    *)
(* then write to the sockets.                                               *)
PushDeliver(m) ==
    /\ Running
    /\ m \in pushing
    /\ \E pick \in [AudienceOf[m] -> Subs \cup {NoSub}] :
          /\ \A n \in AudienceOf[m] : pick[n] \in SelectedRunner(n)
          /\ got' = [s \in Subs |-> IF FanoutReaches(m, s, pick)
                                    THEN got[s] \cup {m} ELSE got[s]]
    /\ row' = [r \in Rows |->
                  IF r[1] = m /\ r[2] \in AudienceOf[m] /\ ~LegacyOnly(r[2])
                  THEN TrackedRow(r) ELSE row[r]]
    /\ pushing' = pushing \ {m}
    /\ UNCHANGED <<server, starts, sessionVars, appended, late, resend, owed,
                   noticed>>

(* onOpen of the WebSocket route: subscribe, then redeliver what is pending *)
(* unless the runner will report its readiness itself. A revoked token no   *)
(* longer authenticates.                                                    *)
Subscribe(s) ==
    /\ server = "up"
    /\ conn[s] = "new"
    /\ TokenOf[s] \notin revoked
    /\ conn' = [conn EXCEPT ![s] = "live"]
    /\ resend' = IF KindOf[s] \in {"ack", "legacy"}
                 THEN [resend EXCEPT ![s] = PendingOf(MemberOf[s])]
                 ELSE resend
    /\ UNCHANGED <<server, starts, cond, turns, revoked, row, pushing,
                   appended, late, got, owed, noticed>>

(* Slip: the unsubscribe function forgets the leases. *)
ForgetSubsOnly(S, next) ==
    /\ conn' = [s \in Subs |-> IF s \in S THEN next ELSE conn[s]]
    /\ cond' = [s \in Subs |-> IF s \in S THEN "none" ELSE cond[s]]
    /\ turns' = [s \in Subs |-> IF s \in S THEN NoTurns ELSE turns[s]]
    /\ UNCHANGED row

(* What the unsubscribe function clears: leases, condition and turns. *)
ForgetSubs(S, next) ==
    /\ ReleaseOwners(S)
    /\ conn' = [s \in Subs |-> IF s \in S THEN next ELSE conn[s]]
    /\ cond' = [s \in Subs |-> IF s \in S THEN "none" ELSE cond[s]]
    /\ turns' = [s \in Subs |-> IF s \in S THEN NoTurns ELSE turns[s]]

(* onClose of a live socket *)
Close(s) ==
    /\ Running
    /\ conn[s] = "live"
    /\ ForgetSubs({s}, "closed")
    /\ UNCHANGED <<server, starts, revoked, pushing, appended, late, got,
                   resend, owed, noticed>>

(* onClose of a socket the shutdown signal has already unsubscribed *)
CloseDrained(s) ==
    /\ Running
    /\ conn[s] = "closing"
    /\ conn' = [conn EXCEPT ![s] = "closed"]
    /\ UNCHANGED <<server, starts, cond, turns, revoked, row, pushing,
                   appended, late, got, resend, owed, noticed>>
-----------------------------------------------------------------------------
(* A disposition frame for (m, member of s) arrives on the socket of s. The *)
(* broker does not ask whether the subscription is still registered, so a   *)
(* socket the shutdown signal unsubscribed is still heard.                  *)
FrameFrom(s, m) ==
    /\ Running
    /\ conn[s] \in {"live", "closing"}
    /\ SupportsDisposition(s)
    /\ m \in got[s]
    /\ row[<<m, MemberOf[s]>>].kept

(* settle, disposition `accepted` *)
Accept(s, m) ==
    LET r == <<m, MemberOf[s]>>
    IN  /\ FrameFrom(s, m)
        /\ IsPending(r)
        /\ row' = [row EXCEPT ![r] = [@ EXCEPT !.st = "accepted", !.owner = s]]
        /\ UNCHANGED <<server, starts, sessionVars, pushing, appended, late,
                       got, resend, owed, noticed>>

(* settle, disposition `deferred`; of a pending row only the reason changes *)
Defer(s, m) ==
    LET r == <<m, MemberOf[s]>>
    IN  /\ FrameFrom(s, m)
        /\ Leased(r, s)
        /\ row' = [row EXCEPT ![r] = [@ EXCEPT !.st = "pending", !.owner = NoSub,
                                               !.released = row[r].released \cup {s}]]
        /\ UNCHANGED <<server, starts, sessionVars, pushing, appended, late,
                       got, resend, owed, noticed>>

(* Slip: also a row on which the lease was lost. *)
MaySettleReleased(r, s) ==
    Leased(r, s) \/ (IsPending(r) /\ ~RequiresAcceptance(s))

(* Who may settle the row r: its lease holder, or a runner without the      *)
(* lease protocol that has not lost a lease on it.                          *)
MaySettle(r, s) ==
    \/ Leased(r, s)
    \/ IsPending(r) /\ ~RequiresAcceptance(s) /\ s \notin row[r].released

(* The refusal facts a set of refused rows owes: one for each sender. *)
NoticesFor(R) == {r \in R : SenderOf[r[1]] # NoMember}

(* settle, disposition `acted`, `handled` or `refused` *)
Settle(s, m, d) ==
    LET r == <<m, MemberOf[s]>>
    IN  /\ FrameFrom(s, m)
        /\ MaySettle(r, s)
        /\ row' = [row EXCEPT ![r] = [@ EXCEPT !.st = d, !.owner = NoSub, !.by = s]]
        /\ owed' = IF d = "refused" THEN owed \cup NoticesFor({r}) ELSE owed
        /\ UNCHANGED <<server, starts, sessionVars, pushing, appended, late,
                       got, resend, noticed>>

(* The push of a refusal fact, itself untracked: the rest of disposition()  *)
(* or of one turn of the loop in sweepMessageDeliveries.                    *)
NotifySender(r) ==
    /\ Running
    /\ r \in owed
    /\ owed' = owed \ {r}
    /\ noticed' = [noticed EXCEPT ![r] = @ + 1]
    /\ UNCHANGED <<server, starts, sessionVars, row, pushing, appended, late,
                   got, resend>>
-----------------------------------------------------------------------------
(* Slip: leases are released and offered to nobody. *)
ReleaseInOrder(order) ==
    LET gone == {order[i] : i \in DOMAIN order}
    IN  /\ cond' = [s \in Subs |-> IF s \in gone THEN "degraded" ELSE cond[s]]
        /\ ReleaseOwners(gone)
        /\ UNCHANGED resend

(* projectDegraded then redeliverToReady for the subscriptions order[1],    *)
(* order[2], ... one after the other: each step releases the leases of its  *)
(* subscription and starts one redelivery to some ready subscription other  *)
(* than those already degraded, with what is pending at that moment.        *)
UpTo(order, i) == {order[j] : j \in {x \in DOMAIN order : x <= i}}

Redelivered(order, to, s) ==
    {m \in Msgs : \E i \in DOMAIN order :
        to[i] = s /\ m \in PendingAfter(MemberOf[order[i]], UpTo(order, i))}

DegradeInOrder(order) ==
    LET gone == {order[i] : i \in DOMAIN order}
    IN  /\ cond' = [s \in Subs |-> IF s \in gone THEN "degraded" ELSE cond[s]]
        /\ ReleaseOwners(gone)
        /\ \E to \in [DOMAIN order -> Subs \cup {NoSub}] :
              /\ \A i \in DOMAIN order :
                    to[i] \in Target(ReadySubs(MemberOf[order[i]]) \ UpTo(order, i))
              /\ resend' = [s \in Subs |-> resend[s] \cup Redelivered(order, to, s)]

(* runnerCondition, state `degraded` *)
ConditionDegraded(s) ==
    /\ Running
    /\ conn[s] = "live"
    /\ KindOf[s] = "state"
    /\ DegradeInOrder([i \in {1} |-> s])
    /\ UNCHANGED <<server, starts, conn, turns, revoked, pushing, appended,
                   late, got, owed, noticed>>

(* runnerCondition, state `ready`: becoming ready starts a redelivery *)
ConditionReady(s) ==
    /\ Running
    /\ conn[s] = "live"
    /\ KindOf[s] = "state"
    /\ cond[s] # "ready"
    /\ cond' = [cond EXCEPT ![s] = "ready"]
    /\ resend' = [resend EXCEPT ![s] = @ \cup PendingOf(MemberOf[s])]
    /\ UNCHANGED <<server, starts, conn, turns, revoked, row, pushing,
                   appended, late, got, owed, noticed>>

(* runnerTurn, phase `started` *)
TurnStarted(s, t) ==
    /\ Running
    /\ conn[s] = "live"
    /\ KindOf[s] = "state"
    /\ turns' = [turns EXCEPT ![s][t] = "open"]
    /\ UNCHANGED <<server, starts, conn, cond, revoked, row, pushing,
                   appended, late, got, resend, owed, noticed>>

(* runnerTurn, phase `completed`: a failed turn degrades a subscription     *)
(* that is not degraded already.                                            *)
TurnCompleted(s, t, failed) ==
    /\ Running
    /\ conn[s] = "live"
    /\ KindOf[s] = "state"
    /\ turns[s][t] # "none"
    /\ turns' = [turns EXCEPT ![s][t] = "none"]
    /\ IF failed /\ cond[s] # "degraded"
       THEN DegradeInOrder([i \in {1} |-> s])
       ELSE UNCHANGED <<cond, row, resend>>
    /\ UNCHANGED <<server, starts, conn, revoked, pushing, appended, late,
                   got, owed, noticed>>

Overdue == {s \in Subs : \E t \in Turns : turns[s][t] = "overdue"}

(* The sequences without repetition of all of S. *)
Orders(S) == {f \in [1..Cardinality(S) -> S] : \A x \in S : \E i \in DOMAIN f : f[i] = x}

(* sweepOpenTurnBackstops: every subscription with an overdue turn *)
SweepOpenTurns ==
    /\ Running
    /\ Overdue # {}
    /\ \E order \in Orders(Overdue) : DegradeInOrder(order)
    /\ turns' = [s \in Subs |-> [t \in Turns |->
                    IF turns[s][t] = "overdue" THEN "none" ELSE turns[s][t]]]
    /\ UNCHANGED <<server, starts, conn, revoked, pushing, appended, late,
                   got, owed, noticed>>

(* tokens.revoke then blockTokens: the leases of every live subscription    *)
(* of a blocked token are released and offered to a ready subscription.     *)
BlockToken(k) ==
    LET hit == {s \in Subs : conn[s] = "live" /\ TokenOf[s] \in revoked \cup {k}}
        members == {MemberOf[s] : s \in hit}
    IN  /\ Running
        /\ k \notin revoked
        /\ revoked' = revoked \cup {k}
        /\ ReleaseOwners(hit)
        /\ \E to \in [members -> Subs \cup {NoSub}] :
              /\ \A n \in members : to[n] \in Target(ReadySubs(n) \ hit)
              /\ resend' = [s \in Subs |->
                    IF MemberOf[s] \in members /\ to[MemberOf[s]] = s
                    THEN resend[s] \cup PendingAfter(MemberOf[s], hit)
                    ELSE resend[s]]
        /\ UNCHANGED <<server, starts, conn, cond, turns, pushing, appended,
                       late, got, owed, noticed>>

(* One turn of the loop of redeliverPending, after the await of the one     *)
(* before: the row is sent from the snapshot, whatever became of it since;  *)
(* to a legacy runner it is then marked unreported if it is still pending.  *)
ResendOne(s, m) ==
    LET r == <<m, MemberOf[s]>>
    IN  /\ Running
        /\ m \in resend[s]
        /\ resend' = [resend EXCEPT ![s] = @ \ {m}]
        /\ got' = IF conn[s] = "live" THEN [got EXCEPT ![s] = @ \cup {m}] ELSE got
        /\ row' = IF KindOf[s] = "legacy" /\ IsPending(r)
                  THEN [row EXCEPT ![r] = [@ EXCEPT !.st = "unreported", !.by = s]]
                  ELSE row
        /\ UNCHANGED <<server, starts, sessionVars, pushing, appended, late,
                       owed, noticed>>

(* Slips: the sweep reports every purged row; it overlooks leased rows. *)
SweepReportsPurged ==
    LET purged == {r \in Rows : r[1] \in late /\ row[r].kept}
    IN  /\ server = "up"
        /\ purged # {}
        /\ row' = [r \in Rows |->
                      IF r \in purged /\ row[r].st \in Open
                      THEN [row[r] EXCEPT !.st = "refused", !.owner = NoSub, !.kept = FALSE]
                      ELSE IF r \in purged THEN [row[r] EXCEPT !.kept = FALSE]
                      ELSE row[r]]
        /\ owed' = owed \cup NoticesFor(purged)
        /\ UNCHANGED <<server, starts, sessionVars, pushing, appended, late,
                       got, resend, noticed>>

SweepPendingOnly ==
    LET expired == {r \in Rows : r[1] \in late /\ IsPending(r)}
    IN  /\ server = "up"
        /\ expired # {}
        /\ row' = [r \in Rows |->
                      IF r \in expired
                      THEN [row[r] EXCEPT !.st = "refused", !.kept = FALSE]
                      ELSE row[r]]
        /\ owed' = owed \cup NoticesFor(expired)
        /\ UNCHANGED <<server, starts, sessionVars, pushing, appended, late,
                       got, resend, noticed>>

(* sweepMessageDeliveries up to its first await: ledger.expire refuses the  *)
(* late open rows and purges every late row that is no longer open; each    *)
(* expired row with a sender owes a refusal fact.                           *)
SweepExpired ==
    LET expired == {r \in Rows : r[1] \in late /\ row[r].kept /\ row[r].st \in Open}
        purged == {r \in Rows : r[1] \in late /\ row[r].kept}
    IN  /\ server = "up"
        /\ purged # {}
        /\ row' = [r \in Rows |->
                      IF r \in expired
                      THEN [row[r] EXCEPT !.st = "refused", !.owner = NoSub, !.kept = FALSE]
                      ELSE IF r \in purged THEN [row[r] EXCEPT !.kept = FALSE]
                      ELSE row[r]]
        /\ owed' = owed \cup NoticesFor(expired)
        /\ UNCHANGED <<server, starts, sessionVars, pushing, appended, late,
                       got, resend, noticed>>
-----------------------------------------------------------------------------
(* The passing of time *)
Age(m) ==
    /\ m \in appended \ late
    /\ late' = late \cup {m}
    /\ UNCHANGED <<server, starts, sessionVars, row, pushing, appended, got,
                   resend, owed, noticed>>

AgeTurn(s, t) ==
    /\ turns[s][t] = "open"
    /\ turns' = [turns EXCEPT ![s][t] = "overdue"]
    /\ UNCHANGED <<server, starts, conn, cond, revoked, row, pushing,
                   appended, late, got, resend, owed, noticed>>

Live == {s \in Subs : conn[s] = "live"}

(* stop(): the shutdown signal unsubscribes every live socket while the     *)
(* database is still open, and stops the sweeps.                            *)
Shutdown ==
    /\ server = "up"
    /\ starts < MaxStarts
    /\ server' = "draining"
    /\ ForgetSubs(Live, "closing")
    /\ UNCHANGED <<starts, revoked, pushing, appended, late, got, resend, owed,
                   noticed>>

(* The process ends, after a drain or by a crash: sockets, conditions,      *)
(* turns, running pushes, redeliveries and sweeps are gone.                 *)
Halt ==
    /\ Running
    /\ starts < MaxStarts
    /\ server' = "down"
    /\ conn' = [s \in Subs |-> IF conn[s] = "new" THEN "new" ELSE "closed"]
    /\ cond' = [s \in Subs |-> "none"]
    /\ turns' = [s \in Subs |-> NoTurns]
    /\ pushing' = {}
    /\ resend' = [s \in Subs |-> {}]
    /\ owed' = {}
    /\ UNCHANGED <<starts, revoked, row, appended, late, got, noticed>>

(* A new process opens the ledger: accepted rows go back to pending *)
RecoveredRow(r) ==
    IF row[r].kept /\ row[r].st = "accepted"
    THEN [row[r] EXCEPT !.st = "pending", !.owner = NoSub, !.released = {}]
    ELSE [row[r] EXCEPT !.released = {}]

Restart ==
    /\ server = "down"
    /\ server' = "up"
    /\ starts' = starts + 1
    /\ row' = [r \in Rows |-> RecoveredRow(r)]
    /\ UNCHANGED <<sessionVars, pushing, appended, late, got, resend, owed,
                   noticed>>
-----------------------------------------------------------------------------
Next ==
    \/ \E m \in Msgs : PushAppend(m) \/ PushDeliver(m) \/ Age(m)
    \/ \E s \in Subs : \/ Subscribe(s) \/ Close(s) \/ CloseDrained(s)
                       \/ ConditionDegraded(s) \/ ConditionReady(s)
    \/ \E s \in Subs, t \in Turns :
          \/ TurnStarted(s, t) \/ AgeTurn(s, t)
          \/ \E failed \in BOOLEAN : TurnCompleted(s, t, failed)
    \/ \E s \in Subs, m \in Msgs :
          \/ Accept(s, m) \/ Defer(s, m) \/ ResendOne(s, m)
          \/ \E d \in {"acted", "handled", "refused"} : Settle(s, m, d)
    \/ \E r \in Rows : NotifySender(r)
    \/ \E k \in Tokens : BlockToken(k)
    \/ SweepOpenTurns \/ SweepExpired
    \/ Shutdown \/ Halt \/ Restart

Spec == Init /\ [][Next]_vars

(* Fairness: time passes, the 5-second sweep runs while the process is up,  *)
(* a stopped process exits, and whoever operates it starts it again.        *)
FairSpec ==
    /\ Spec
    /\ \A m \in Msgs : WF_vars(Age(m))
    /\ WF_vars(SweepExpired)
    /\ WF_vars(server = "draining" /\ Halt)
    /\ WF_vars(Restart)
-----------------------------------------------------------------------------
(* The lease of a running server always belongs to a live subscription of   *)
(* the addressed member that has been sent the message: close, degradation, *)
(* blocked tokens, shutdown and the recovery at start leave no lease with   *)
(* an owner that can no longer answer for it (projectSubscriberGone, the    *)
(* UPDATE in the ledger's constructor).                                     *)
HasLease(r) == row[r].kept /\ row[r].st = "accepted"
OwnerIsLive(r) ==
    \E s \in Subs : /\ row[r].owner = s
                    /\ conn[s] = "live"
                    /\ MemberOf[s] = r[2]
                    /\ SupportsDisposition(s)
                    /\ r[1] \in got[s]

LeaseOwnerIsLive ==
    server = "up" => \A r \in Rows : HasLease(r) => OwnerIsLive(r)

(* A sender is told "refused" only of a message that ended refused, and at  *)
(* most once, however expiry, late frames, sweeps and restarts interleave.  *)
RefusalNoticesAreTrue ==
    \A r \in Rows :
        /\ r \in owed \/ noticed[r] > 0 => row[r].st = "refused"
        /\ r \in owed => noticed[r] = 0
        /\ noticed[r] <= 1

(* While the addressed member has a ready runner, a message awaiting a      *)
(* disposition has been sent, or is being sent, to some runner of that      *)
(* member: neither push nor any recovery passes it over.                    *)
NotPassedOver ==
    \A m \in Msgs, n \in Members :
        /\ server = "up"
        /\ m \in PendingOf(n)
        /\ ReadySubs(n) # {}
        => \E s \in Subs : MemberOf[s] = n /\ m \in got[s] \cup resend[s]

(* When a lease is taken from a subscription that stays connected and has   *)
(* not deferred the message, some subscription that is ready afterwards is  *)
(* on its way to receive it: degraded frames, failed turns, the open-turn   *)
(* backstop and blocked tokens all reassign at once.                        *)
Deferred(r) == \E s \in Subs : r[2] = MemberOf[s] /\ Defer(s, r[1])

ReassignedAtOnce ==
    [][ \A s \in Subs : \A m \in Msgs \ late :
          LET r == <<m, MemberOf[s]>>
          IN  /\ Leased(r, s)
              /\ ~Leased(r, s)' /\ IsPending(r)'
              /\ conn'[s] = "live"
              /\ ~Deferred(r)
              /\ ReadySubs(MemberOf[s])' # {}
              => \E x \in ReadySubs(MemberOf[s])' : m \in resend'[x]
      ]_vars

(* Stated by the presence documentation: the sender of a message that is    *)
(* refused or expires receives an explicit refusal fact.                    *)
SenderIsTold ==
    \A r \in Rows : row[r].st = "refused" /\ SenderOf[r[1]] # NoMember
                    => r \in owed \/ noticed[r] > 0

(* Every step of the ledger is a step, or a stutter, of the promise: one    *)
(* holder at a time, an outcome decided once, by whoever may, and a         *)
(* completion from a stale, released owner refused (ledger.settle).         *)
Promise == INSTANCE MessageLease WITH
    Holders <- Subs, NoHolder <- NoSub,
    MustHold <- {s \in Subs : RequiresAcceptance(s)},
    outcome <- [r \in Rows |-> IF row[r].st \in Open THEN "open" ELSE row[r].st],
    holder <- [r \in Rows |-> row[r].owner],
    letGo <- [r \in Rows |-> IF row[r].st \in Open
                             THEN row[r].released \ {row[r].owner} ELSE {}],
    decider <- [r \in Rows |-> row[r].by]

KeepsPromise == Promise!Spec

(* No tracked message stays open for ever: a runner settles it or, once 24  *)
(* hours have passed, the sweep refuses it.                                 *)
EveryMessageSettles ==
    \A r \in Rows : row[r].st \in Open ~> row[r].st \in Terminal
=============================================================================
