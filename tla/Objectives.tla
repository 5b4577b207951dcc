------------------------------- MODULE Objectives -------------------------------
(***************************************************************************)
(* One objective: its row and its audit log (packages/core/src/            *)
(* objectives.ts), the routes that read the row, await the request's body  *)
(* and then change it (packages/core/src/app.ts), the events they publish, *)
(* and the runner of one member, which keeps a copy of its open objectives *)
(* (packages/cli/src/runtime/objectives-tracker.ts).                       *)
(*                                                                         *)
(* A store call is one transaction. What a route publishes goes out in     *)
(* microtasks behind it, so that only the end of the process comes in      *)
(* between; but the push of an event may throw, and so may what POST does  *)
(* with the attachments behind its own transaction. Titles, results,       *)
(* reasons, notes and attachments are left out but for that; a PATCH adds  *)
(* or removes at most one watcher.                                         *)
(***************************************************************************)
EXTENDS Naturals, Sequences, FiniteSets

CONSTANTS
    Members, Nobody,
    Creators, Cancellers, Reassigners, WatchKeepers, \* objectives.create, ...
    Managers,      \* members.manage
    Self,          \* the member whose runner is modelled
    Followers,     \* bound: who may be a watcher from the start
    MaxRequests,   \* bound: requests about the objective, its creation aside
    MaxHalts,      \* bound: how often the broker's process ends
    MaxLost        \* bound: once so many events are lost, no push and no
                   \* POST fails any more

ASSUME ObjectiveConstantsOK ==
    /\ Nobody \notin Members /\ Self \in Members
    /\ Creators \subseteq Members /\ Cancellers \subseteq Members
    /\ Reassigners \subseteq Members /\ WatchKeepers \subseteq Members
    /\ Managers \subseteq Members /\ Followers \subseteq Members
    /\ MaxRequests \in Nat /\ MaxHalts \in Nat /\ MaxLost \in Nat

VARIABLES
    row,       \* the row of the objective
    log,       \* its events; `told` is who each was pushed to
    req,       \* requests whose body is awaited, with what they have read
    outbox,    \* events to be published, by their places in the log
    halts,
    lost,      \* history: events dropped before they were pushed
    timer,     \* the tracker's debounce timer, the way of the event included
    fetch,     \* its two list requests: not asked, asked, or what was read
    plate,     \* the runner's copy: whether the objective is open for Self
    excused    \* history: since the tracker last began to refetch, a timer
               \* found a refetch under way, a refetch failed, news of the
               \* objective were dropped, or events died with the broker

storeVars == <<row, log>>
runnerVars == <<timer, fetch, plate, excused>>
vars == <<storeVars, req, outbox, halts, lost, runnerVars>>

Final == {"done", "cancelled"}
Statuses == {"none", "active", "blocked"} \cup Final
Kinds == {"assigned", "reassigned", "watcher_added", "watcher_removed",
          "blocked", "unblocked", "completed", "cancelled"}
Lists == {"active", "blocked"}
Answers == {"idle", "asked", "in", "out"}
Someone == Members \cup {Nobody}

Row == [status : Statuses, assignee : Someone, originator : Someone,
        watchers : SUBSET Members]
Event == [kind : Kinds, actor : Members, who : Someone, from : Someone,
          also : SUBSET Members, told : SUBSET Members]
(* `seen` is the assignee a request has read, `at` the length of the log   *)
(* then (a history).                                                       *)
Awaiting == {"patch", "complete", "cancel"}
Request == [route : Awaiting \cup {"unused", "over"},
            actor : Someone, seen : Someone, at : Nat]

TypeOK ==
    /\ row \in Row /\ log \in Seq(Event)
    /\ row.status # "none" => {row.assignee, row.originator} \subseteq Members
    /\ req \in [1 .. MaxRequests -> Request]
    /\ \A r \in DOMAIN req : req[r].route \in Awaiting => req[r].actor \in Members
    /\ outbox \in Seq(Nat \ {0})
    /\ halts \in 0 .. MaxHalts
    /\ lost \in SUBSET (Nat \ {0})
    /\ timer \in BOOLEAN
    /\ fetch \in [Lists -> Answers]
    /\ plate \in BOOLEAN /\ excused \in BOOLEAN

NoRow == [status |-> "none", assignee |-> Nobody, originator |-> Nobody,
          watchers |-> {}]
NoRequest == [route |-> "unused", actor |-> Nobody, seen |-> Nobody, at |-> 0]
Unasked == [l \in Lists |-> "idle"]

Init ==
    /\ row = NoRow /\ log = <<>>
    /\ req = [r \in 1 .. MaxRequests |-> NoRequest]
    /\ outbox = <<>> /\ halts = 0 /\ lost = {}
    /\ timer = FALSE /\ fetch = Unasked
    /\ plate = FALSE /\ excused = FALSE

-----------------------------------------------------------------------------
(* The store. A call takes the row o and makes [row, facts] of it: the new *)
(* row and the events it appends.                                          *)

Fact(kind, actor, who, from, also) ==
    [kind |-> kind, actor |-> actor, who |-> who, from |-> from,
     also |-> also, told |-> {}]
Nothing(o) == [row |-> o, facts |-> <<>>]

Terminal(o) == o.status \in Final

(* create. The assignee and the originator are no watchers.                *)
Created(m, a, ws) ==
    LET o == [status |-> "active", assignee |-> a, originator |-> m,
              watchers |-> ws \ {a, m}]
    IN  [row |-> o, facts |-> <<Fact("assigned", m, a, Nobody, o.watchers)>>]

(* Whether reassignment leaves the assignee a watcher.                     *)
Promoted(o) == o.assignee # o.originator /\ o.assignee \notin o.watchers

(* Slips: the previous assignee is not kept as a watcher; or is, and the   *)
(* log does not say so.                                                    *)
ReassignedOnly(o, to, actor) ==
    [row |-> [o EXCEPT !.assignee = to],
     facts |-> <<Fact("reassigned", actor, to, o.assignee, {})>>]
ReassignedQuietly(o, to, actor) ==
    [row |-> [o EXCEPT !.assignee = to,
                       !.watchers = IF Promoted(o) THEN @ \cup {o.assignee} ELSE @],
     facts |-> <<Fact("reassigned", actor, to, o.assignee, {})>>]

(* reassign, of an open objective to another member.                       *)
Reassigned(o, to, actor) ==
    IF Promoted(o)
       THEN [row |-> [o EXCEPT !.assignee = to, !.watchers = @ \cup {o.assignee}],
             facts |-> <<Fact("reassigned", actor, to, o.assignee, {}),
                         Fact("watcher_added", actor, o.assignee, Nobody, {})>>]
       ELSE [row |-> [o EXCEPT !.assignee = to],
             facts |-> <<Fact("reassigned", actor, to, o.assignee, {})>>]

(* updateWatchers, of an objective in any status.                          *)
Watched(o, add, remove, actor) ==
    LET plus == {add} \ ({Nobody, o.assignee, o.originator} \cup o.watchers)
        minus == {remove} \cap o.watchers
    IN  [row |-> [o EXCEPT !.watchers = (@ \ minus) \cup plus],
         facts |-> (IF plus = {} THEN <<>>
                      ELSE <<Fact("watcher_added", actor, add, Nobody, {})>>)
                   \o (IF minus = {} THEN <<>>
                         ELSE <<Fact("watcher_removed", actor, remove, Nobody, {})>>)]

(* update: the status of an open objective. A status it has already is no  *)
(* event.                                                                  *)
Updated(o, status, actor) ==
    [row |-> [o EXCEPT !.status = status],
     facts |-> IF status = o.status THEN <<>>
                 ELSE <<Fact(IF status = "blocked" THEN "blocked" ELSE "unblocked",
                             actor, Nobody, Nobody, {})>>]

(* complete and cancel.                                                    *)
Ended(o, status, actor) ==
    [row |-> [o EXCEPT !.status = status],
     facts |-> <<Fact(IF status = "done" THEN "completed" ELSE "cancelled",
                      actor, Nobody, Nobody, {})>>]

-----------------------------------------------------------------------------
(* The routes.                                                             *)

Quiet == outbox = <<>>

(* Slip: of several events only the first is published.                    *)
AnnounceFirst(res) ==
    outbox' = IF res.facts = <<>> THEN <<>> ELSE <<Len(log) + 1>>

(* A handler that did not throw publishes all it has appended.             *)
Announce(res) ==
    outbox' = [i \in 1 .. Len(res.facts) |-> Len(log) + i]

Store(res) == row' = res.row /\ log' = log \o res.facts

Over(r) == req' = [req EXCEPT ![r] = [NoRequest EXCEPT !.route = "over"]]

(* POST /objectives.                                                       *)
Create(m, a, ws) ==
    /\ Quiet /\ row.status = "none"
    /\ m \in Creators
    /\ Store(Created(m, a, ws)) /\ Announce(Created(m, a, ws))
    /\ UNCHANGED <<req, halts, lost, runnerVars>>

(* Whether something may still fail that drops an event.                   *)
MayLose == Cardinality(lost) < MaxLost

(* POST /objectives, where the row is stored and then an attachment cannot *)
(* be copied: the route answers with the error and publishes nothing.      *)
CreateFails(m, a, ws) ==
    /\ Quiet /\ row.status = "none"
    /\ m \in Creators /\ MayLose
    /\ Store(Created(m, a, ws))
    /\ lost' = {1}
    /\ excused' = (excused \/ a = Self)
    /\ UNCHANGED <<req, outbox, halts, timer, fetch, plate>>

(* A route reads the row and awaits the body.                              *)
Reads(r, m, route) ==
    /\ Quiet /\ row.status # "none"
    /\ req[r].route = "unused"
    /\ \A q \in 1 .. r - 1 : req[q].route # "unused"
    /\ req' = [req EXCEPT ![r] = [route |-> route, actor |-> m,
                                  seen |-> row.assignee, at |-> Len(log)]]
    /\ UNCHANGED <<storeVars, outbox, halts, lost, runnerVars>>

ReadPatch(r, m) == Reads(r, m, "patch")

(* Slip: completion is not for the assignee only.                          *)
ReadCompleteByAnyone(r, m) == Reads(r, m, "complete")

ReadComplete(r, m) == m = row.assignee /\ Reads(r, m, "complete")

ReadCancel(r, m) ==
    m \in Cancellers \cup {row.originator} /\ Reads(r, m, "cancel")

(* The gates of PATCH, with the assignee it has read.                      *)
PatchAllowed(r, to, add, remove, status) ==
    /\ status # "none" => req[r].actor \in Cancellers \cup {req[r].seen}
    /\ to # Nobody => req[r].actor \in Reassigners
    /\ {add, remove} # {Nobody} =>
           req[r].actor \in WatchKeepers \cup {row.originator}

(* Whether the PATCH reassigns, by the assignee it has read.               *)
Moves(r, to) == to \notin {Nobody, req[r].seen}

(* PATCH: reassignment first, which throws for an objective that is over   *)
(* and for the member who has become the assignee meanwhile; then the      *)
(* watchers; then the status, which throws for one that is over: the       *)
(* watchers then stay changed, and nothing is published.                   *)
Patch(r, to, add, remove, status) ==
    LET actor == req[r].actor
        moved == Moves(r, to)
        first == IF moved THEN Reassigned(row, to, actor) ELSE Nothing(row)
        second == Watched(first.row, add, remove, actor)
        third == IF status = "none" THEN Nothing(second.row)
                   ELSE Updated(second.row, status, actor)
    IN  /\ Quiet /\ req[r].route = "patch"
        /\ PatchAllowed(r, to, add, remove, status)
        /\ Over(r)
        /\ \/ /\ moved /\ (Terminal(row) \/ to = row.assignee)
              /\ UNCHANGED <<storeVars, outbox>>
           \/ /\ ~moved /\ status # "none" /\ Terminal(row)
              /\ Store(second)
              /\ UNCHANGED outbox
           \/ /\ moved => ~Terminal(row) /\ to # row.assignee
              /\ status # "none" => ~Terminal(row)
              /\ LET all == [row |-> third.row,
                             facts |-> first.facts \o second.facts \o third.facts]
                 IN  Store(all) /\ Announce(all)
        /\ UNCHANGED <<halts, lost, runnerVars>>

(* Slip: the store trusts the route to have looked at the status.          *)
EndAgain(r, route, status) ==
    LET res == Ended(row, status, req[r].actor)
    IN  /\ Quiet /\ req[r].route = route
        /\ Over(r)
        /\ Store(res) /\ Announce(res)
        /\ UNCHANGED <<halts, lost, runnerVars>>

(* Completion and cancellation, behind the await: the store looks at the   *)
(* status once more, but nobody looks at the assignee.                     *)
End(r, route, status) ==
    LET res == Ended(row, status, req[r].actor)
    IN  /\ Quiet /\ req[r].route = route
        /\ Over(r)
        /\ IF Terminal(row)
              THEN UNCHANGED <<storeVars, outbox>>
              ELSE Store(res) /\ Announce(res)
        /\ UNCHANGED <<halts, lost, runnerVars>>

Complete(r) == End(r, "complete", "done")
Cancel(r) == End(r, "cancel", "cancelled")

(* The body is missing or malformed, or a gate refuses it.                 *)
Refuse(r) ==
    /\ Quiet /\ req[r].route \in Awaiting
    /\ Over(r)
    /\ UNCHANGED <<storeVars, outbox, halts, lost, runnerVars>>

-----------------------------------------------------------------------------
(* Publication.                                                            *)

(* Slip: who an event removes from the thread is not told.                 *)
ThreadOnly(o, e) == ({o.assignee, o.originator} \cup o.watchers \cup Managers) \ {Nobody}

(* objectiveThreadMembers.                                                 *)
Thread(o, e) ==
    ({o.assignee, o.originator} \cup o.watchers \cup Managers
       \cup (IF e.kind = "reassigned" THEN {e.from} ELSE {})
       \cup (IF e.kind = "watcher_removed" THEN {e.who} ELSE {})) \ {Nobody}

(* publishObjectiveEvent; a push also reaches its sender.                  *)
Publish ==
    /\ outbox # <<>>
    /\ LET i == Head(outbox)
           told == Thread(row, log[i]) \cup {log[i].actor}
       IN  /\ log' = [log EXCEPT ![i].told = told]
           /\ timer' = (timer \/ Self \in told)
    /\ outbox' = Tail(outbox)
    /\ UNCHANGED <<row, req, halts, lost, fetch, plate, excused>>

(* The push throws, for a text that looks like a credential (it may stand  *)
(* in the title, the outcome, the body, the result or the reason) or since *)
(* the message cannot be stored; publishObjectiveEvent logs that.          *)
PublishFails ==
    /\ outbox # <<>> /\ MayLose
    /\ LET i == Head(outbox)
           told == Thread(row, log[i]) \cup {log[i].actor}
       IN  /\ lost' = lost \cup {i}
           /\ excused' = (excused \/ Self \in told)
    /\ outbox' = Tail(outbox)
    /\ UNCHANGED <<storeVars, req, halts, timer, fetch, plate>>

(* Lists the broker has been asked for and has not answered.               *)
Awaited == {l \in Lists : fetch[l] = "asked"}

(* The broker's process ends and is started again. What was pushed is in   *)
(* the ledger; what was about to be is not. (When no event is lost, this   *)
(* is a refusal of every request and a failure of the lists.)              *)
Halt ==
    /\ halts < MaxHalts
    /\ outbox # <<>>
    /\ halts' = halts + 1
    /\ lost' = lost \cup {outbox[k] : k \in DOMAIN outbox}
    /\ outbox' = <<>>
    /\ req' = [r \in 1 .. MaxRequests |->
                 IF req[r].route = "unused" THEN req[r]
                   ELSE [NoRequest EXCEPT !.route = "over"]]
    /\ excused' = TRUE
    /\ fetch' = IF Awaited # {} THEN Unasked ELSE fetch
    /\ UNCHANGED <<storeVars, timer, plate>>

-----------------------------------------------------------------------------
(* The tracker of Self's runner.                                           *)

(* The timer fires. With a refetch under way nothing else happens.         *)
TimerFires ==
    /\ Quiet /\ timer
    /\ timer' = FALSE
    /\ IF fetch # Unasked
          THEN excused' = TRUE /\ UNCHANGED fetch
          ELSE excused' = FALSE /\ fetch' = [l \in Lists |-> "asked"]
    /\ UNCHANGED <<storeVars, req, outbox, halts, lost, plate>>

(* The broker answers one of the two lists.                                *)
ReadList(l) ==
    /\ Quiet /\ fetch[l] = "asked"
    /\ fetch' = [fetch EXCEPT ![l] =
                   IF row.assignee = Self /\ row.status = l THEN "in" ELSE "out"]
    /\ UNCHANGED <<storeVars, req, outbox, halts, lost, timer, plate,
                   excused>>

(* Slip: only the list of active objectives counts.                        *)
RefreshFromActive ==
    /\ Quiet /\ \A l \in Lists : fetch[l] \in {"in", "out"}
    /\ plate' = (fetch["active"] = "in")
    /\ fetch' = Unasked
    /\ UNCHANGED <<storeVars, req, outbox, halts, lost, timer, excused>>

(* Both answers are there: onRefresh.                                      *)
Refresh ==
    /\ Quiet /\ \A l \in Lists : fetch[l] \in {"in", "out"}
    /\ plate' = (\E l \in Lists : fetch[l] = "in")
    /\ fetch' = Unasked
    /\ UNCHANGED <<storeVars, req, outbox, halts, lost, timer, excused>>

(* One of the requests fails: the copy stays as it is.                     *)
FetchFails ==
    /\ Quiet /\ fetch # Unasked
    /\ fetch' = Unasked
    /\ excused' = TRUE
    /\ UNCHANGED <<storeVars, req, outbox, halts, lost, timer, plate>>

-----------------------------------------------------------------------------
Next ==
    \/ \E m, a \in Members, ws \in SUBSET Followers :
         Create(m, a, ws) \/ CreateFails(m, a, ws)
    \/ \E r \in 1 .. MaxRequests :
         \/ \E m \in Members : ReadPatch(r, m) \/ ReadComplete(r, m) \/ ReadCancel(r, m)
         \/ \E to, who \in Someone, status \in {"none"} \cup Lists :
                Patch(r, to, who, Nobody, status) \/ Patch(r, to, Nobody, who, status)
         \/ Complete(r) \/ Cancel(r) \/ Refuse(r)
    \/ Publish \/ PublishFails \/ Halt
    \/ TimerFires \/ Refresh \/ FetchFails
    \/ \E l \in Lists : ReadList(l)

Spec == Init /\ [][Next]_vars

(* Microtasks run, sockets deliver, timers fire, lists are answered.       *)
Fairness ==
    /\ WF_vars(Publish) /\ WF_vars(TimerFires)
    /\ \A l \in Lists : WF_vars(ReadList(l))
    /\ WF_vars(Refresh)

FairSpec == Spec /\ Fairness

-----------------------------------------------------------------------------
(* Properties.                                                             *)

(* An objective that is done or cancelled stays as it is, whatever         *)
(* requests that had read it before are still waiting for their bodies;    *)
(* only watchers come and go.                                              *)
TerminalIsFinal ==
    [][Terminal(row) =>
         /\ row'.status = row.status /\ row'.assignee = row.assignee
         /\ \A i \in Len(log) + 1 .. Len(log') :
              log'[i].kind \in {"watcher_added", "watcher_removed"}]_vars

StatusKinds == {"assigned", "blocked", "unblocked", "completed", "cancelled"}
StatusAfter(kind) ==
    CASE kind \in {"assigned", "unblocked"} -> "active"
      [] kind = "blocked" -> "blocked"
      [] kind = "completed" -> "done"
      [] kind = "cancelled" -> "cancelled"

Latest(i, S) == log[i].kind \in S /\ \A j \in i + 1 .. Len(log) : log[j].kind \notin S
Joins(i, m) == (log[i].kind = "watcher_added" /\ log[i].who = m)
               \/ (log[i].kind = "assigned" /\ m \in log[i].also)
Leaves(i, m) == log[i].kind = "watcher_removed" /\ log[i].who = m

(* The audit log tells the whole story: who has the objective, its status  *)
(* and its watchers follow from the last event of each sort.               *)
LogExplainsRow ==
    \A i \in DOMAIN log :
        /\ Latest(i, {"assigned", "reassigned"}) => row.assignee = log[i].who
        /\ Latest(i, StatusKinds) => row.status = StatusAfter(log[i].kind)
        /\ \A m \in Members :
             /\ Joins(i, m) /\ (\A j \in i + 1 .. Len(log) : ~Leaves(j, m))
                  => m \in row.watchers
             /\ Leaves(i, m) /\ (\A j \in i + 1 .. Len(log) : ~Joins(j, m))
                  => m \notin row.watchers

(* Who hands an objective over stays in its thread until removed by name   *)
(* (the comment in reassign: "exactly when they need to hand over").       *)
HandoversKeepTheThread ==
    \A i \in DOMAIN log : log[i].kind = "reassigned" =>
        \/ log[i].from \in {row.assignee, row.originator} \cup row.watchers
        \/ \E j \in i + 1 .. Len(log) : Leaves(j, log[i].from)

(* An objective is completed by its assignee, or by a member it was taken  *)
(* from while the completion waited for its body.                          *)
CompletedByItsHolder ==
    [][\A i \in Len(log) + 1 .. Len(log') : log'[i].kind = "completed" =>
         \/ log'[i].actor = row.assignee
         \/ \E r \in 1 .. MaxRequests :
              /\ req[r].route = "complete" /\ req[r].actor = log'[i].actor
              /\ \E k \in req[r].at + 1 .. Len(log) :
                   log[k].kind = "reassigned" /\ log[k].from = log'[i].actor]_vars

Concerns(i, m) == m \in {log[i].who, log[i].from} \cup log[i].also

(* The last event about a member is pushed to that member, even if the     *)
(* same request has taken the member out of the thread.                    *)
LastWordReachesThem ==
    \A i \in DOMAIN log, m \in Members :
        /\ log[i].told # {} /\ Concerns(i, m)
        /\ \A j \in i + 1 .. Len(log) : ~Concerns(j, m)
        => m \in log[i].told

(* No change of the objective goes untold, unless its push threw, the      *)
(* process ended before it, or the POST that made it failed behind its own *)
(* transaction; or it is the watchers' part of a PATCH that was refused    *)
(* since the objective is over.                                            *)
SilenceIsExplained ==
    \A i \in DOMAIN log : log[i].told = {} =>
        \/ \E k \in DOMAIN outbox : outbox[k] = i
        \/ i \in lost
        \/ /\ log[i].kind \in {"watcher_added", "watcher_removed"}
           /\ \E j \in 1 .. i - 1 : log[j].kind \in {"completed", "cancelled"}

(* When nothing is on its way the runner's copy is right, unless its last  *)
(* refetch was swallowed or failed, or news were lost since: with the      *)
(* process, in a push that threw, or in a POST that failed.                *)
PlateIsTrue ==
    (outbox = <<>> /\ ~timer /\ fetch = Unasked /\ ~excused) =>
        (plate <=> row.assignee = Self /\ row.status \in Lists)

(* And then the copy comes to be right and stays so.                       *)
PlateConverges ==
    <>[]~excused => <>[](plate <=> row.assignee = Self /\ row.status \in Lists)
=============================================================================
