--------------------------- MODULE Notifications ---------------------------
(***************************************************************************)
(* External notifications (packages/core/src/notifications/dispatcher.ts   *)
(* and store.ts, with their routes and timers in app.ts): how an event     *)
(* posted to one endpoint's hook becomes messages to its targets, at once  *)
(* or after waiting in the debounce buffer, for an offline member's        *)
(* runner, or for a busy one's turn, and what its receipt says meanwhile.  *)
(*                                                                         *)
(* A handler of the dispatcher runs to its end before another one starts:  *)
(* whatever it awaits settles in a microtask. What it does is nevertheless *)
(* many durable statements, and the process may end between any two of     *)
(* them. `todo` is what the running handler has still to do, one element   *)
(* for each statement; Write does the first and Halt forgets the rest.     *)
(* Only the hook's route has a real await, between looking up the endpoint *)
(* and ingest: `hook` counts the requests that are there.                  *)
(*                                                                         *)
(* Messages are seen through the broker's ledger (module MessageDelivery): *)
(* each is open for its recipients until one acts on it or refuses it, or  *)
(* the ledger does after 24 hours. A provider names its events in the      *)
(* header that the endpoint deduplicates by.                               *)
(***************************************************************************)
EXTENDS Naturals, Sequences, FiniteSets

CONSTANTS
    Receipts,     \* delivery receipts; a provider's event is named by its own
    Members,
    Channels,
    Audience,     \* Channels -> SUBSET Members
    Setups,       \* choices of targets, receipts and clients in use (see Init);
                  \* nothing keeps an endpoint from naming a target twice
    Options,      \* what a request may ask for: policy overrides, level
    Own,          \* the option of the endpoint itself
    Debounced,    \* whether the endpoint debounces
    DebounceMax,  \* buffered deliveries that force an early flush
    NoTarget,
    MaxAsks,      \* bound: requests of the provider, replays
    MaxHalts      \* bound: how often the process ends

ASSUME NotificationConstantsOK ==
    /\ IsFiniteSet(Receipts)
    /\ Audience \in [Channels -> SUBSET Members]
    /\ Members \cap Channels = {}
    /\ NoTarget \notin Members \cup Channels
    /\ \A s \in Setups : /\ s.targets \in Seq(Members \cup Channels)
                         /\ s.receipts \subseteq Receipts
                         /\ s.clients \subseteq {"observer", "legacy", "runner"}
    /\ Options \subseteq [ifOffline : {"drop", "queue"}, ifBusy : {"now", "wait"},
                          critical : BOOLEAN]
    /\ Own \in Options
    /\ Debounced \in BOOLEAN
    /\ DebounceMax \in Nat \ {0}
    /\ MaxAsks \in Nat /\ MaxHalts \in Nat

VARIABLES
    setup,     \* the member of Setups at hand
    up,        \* whether the process runs
    halts,     \* how often it has ended
    endpoint,  \* "live" or "deleted"
    asks,      \* requests and replays so far
    clock,     \* inserts so far: the order of receivedAt
    hook,      \* per receipt: requests past the lookup, before ingest (in memory)
    row,       \* the rows of notification_deliveries
    queue,     \* notification_pending
    buffer,    \* the debounce buffer (in memory)
    sent,      \* the messages pushed, in order, and what the ledger awaits of whom
    conn,      \* per member: the best of its connections (see Connections)
    act,       \* per member: "resting", "working", or a report that has "lapsed"
    todo,      \* statements the running handler has still to execute (in memory)
    local,     \* what the running dispatchGroup has done so far (in memory)
    excuse     \* history: why a delivery may be lost or doubled

processVars == <<setup, up, halts, endpoint, asks, clock>>
peerVars == <<conn, act>>
vars == <<setup, up, halts, endpoint, asks, clock, hook, row, queue, buffer, sent, conn, act,
          todo, local, excuse>>

(* No connection; a browser or CLI; a runner without the disposition       *)
(* protocol, from which the ledger awaits nothing; one that has it. Which  *)
(* lesser connections there are besides the best is left open.             *)
Connections == {"away", "observer", "legacy", "runner"}
Rank == [c \in Connections |->
           CASE c = "away" -> 0 [] c = "observer" -> 1 [] c = "legacy" -> 2 [] c = "runner" -> 3]
Better(a, b) == IF Rank[a] >= Rank[b] THEN a ELSE b

NoRow == [st |-> "none", copy |-> FALSE, debouncing |-> FALSE, at |-> 0, opt |-> Own, msgs |-> {}]
NothingDone == [msgs |-> {}, acked |-> FALSE, queued |-> FALSE]

Kept(d) == row[d].st \notin {"none", "gone"}
Quiet == up /\ todo = <<>>

Init ==
    /\ setup \in Setups
    /\ up = TRUE
    /\ halts = 0
    /\ endpoint = "live"
    /\ asks = 0
    /\ clock = 0
    /\ hook = [d \in Receipts |-> 0]
    /\ row = [d \in Receipts |-> NoRow]
    /\ queue = {}
    /\ buffer = {}
    /\ sent = <<>>
    /\ conn = [m \in Members |-> "away"]
    /\ act = [m \in Members |-> "resting"]
    /\ todo = <<>>
    /\ local = NothingDone
    /\ excuse = [d \in Receipts |-> {}]

(***************************************************************************)
(* What handlers plan: statements, each for one or more receipts (ids) or  *)
(* rows of the queue, which it visits one by one.                          *)
(***************************************************************************)

Statement(op, ids, rows, to) == [op |-> op, ids |-> ids, rows |-> rows, to |-> to]
Update(op, ids) == IF ids = {} THEN <<>> ELSE <<Statement(op, ids, {}, NoTarget)>>
Take(rows) == IF rows = {} THEN <<>> ELSE <<Statement("take", {}, rows, NoTarget)>>

(* dispatchGroup: the targets in order, then the group's receipts.         *)
Dispatch(ids, targets, op) ==
    IF ids = {} THEN <<>>
    ELSE [k \in 1..Len(targets) |-> Statement(op, ids, {}, targets[k])] \o Update("first", ids)

StillKept(rows, ids) == {d \in ids : rows[d].st \notin {"none", "gone"}}

(* flushDebounce and recover look the endpoint up again, and the receipts. *)
ToTargets(rows, ids) ==
    IF endpoint = "live" THEN Dispatch(StillKept(rows, ids), setup.targets, "target") ELSE <<>>

Named(rows) == UNION {q.ids : q \in rows}

(* Slip: a flush goes to the targets of the endpoint, not to the member    *)
(* its rows are for.                                                       *)
FlushToAll(rows, m) == Take(rows) \o ToTargets(row, Named(rows))

(* flushPendingRows, for one member: deletePending, then one dispatch of   *)
(* all they hold, to that member only.                                     *)
FlushPending(rows, m) ==
    Take(rows) \o (IF endpoint = "live"
                   THEN Dispatch(StillKept(row, Named(rows)), <<m>>, "force") ELSE <<>>)

(* History: a flush that finds no endpoint drops what it was to deliver.   *)
Excused(why, ids) ==
    [d \in Receipts |-> IF d \in ids THEN excuse[d] \cup {why} ELSE excuse[d]]
ExcusedIfDeleted(ids) == IF endpoint = "live" THEN excuse ELSE Excused("endpoint", ids)

Plan(statements) == todo' = statements /\ local' = NothingDone

(***************************************************************************)
(* Ingress.                                                                *)
(***************************************************************************)

(* POST /hooks/:slug up to its awaits of the body and the verification.    *)
Ask(d) ==
    /\ Quiet /\ endpoint = "live" /\ asks < MaxAsks
    /\ d \in setup.receipts /\ ~row[d].copy
    /\ asks' = asks + 1
    /\ hook' = [hook EXCEPT ![d] = @ + 1]
    /\ UNCHANGED <<setup, up, halts, endpoint, clock, row, queue, buffer, sent, peerVars,
                   todo, local, excuse>>

(* trimDeliveries, in the transaction of every insert: the oldest receipt  *)
(* goes when the endpoint has too many, and its mentions in the queue. The *)
(* other receipts that fill the table are left out, so it may happen to    *)
(* any insert.                                                             *)
Oldest == {d \in Receipts : Kept(d) /\ \A x \in Receipts : Kept(x) => row[d].at <= row[x].at}
Trimmed(old) ==
    [d \in Receipts |->
        IF d \in old THEN [NoRow EXCEPT !.st = "gone", !.copy = row[d].copy] ELSE row[d]]
TrimQueue(old) ==
    queue' = {q \in {[r EXCEPT !.ids = @ \ old] : r \in queue} : q.ids # {}}

Inserted(old, d, o, copy) ==
    [Trimmed(old) EXCEPT ![d] =
        [st |-> "pending", debouncing |-> FALSE, opt |-> o, msgs |-> {}, copy |-> copy,
         at |-> clock + 1]]

(* A key that comes again when its receipt has been retired is new.        *)
ExcusedIfRetired(d) == IF row[d].st = "gone" THEN Excused("retired", {d}) ELSE excuse

(* runPipeline for a receipt just inserted.                                *)
Pipeline(rows, d) ==
    LET group == buffer \cup {d}
        debounce == Debounced /\ ~rows[d].opt.critical
        full == Cardinality(group) >= DebounceMax
    IN  \/ /\ ~debounce
           /\ buffer' = buffer
           /\ Plan(Dispatch({d}, setup.targets, "target"))
           /\ excuse' = ExcusedIfRetired(d)
        \/ /\ debounce /\ ~full
           /\ buffer' = group
           /\ Plan(Update("debouncing", {d}))
           /\ excuse' = ExcusedIfRetired(d)
        \/ /\ debounce /\ full
           /\ buffer' = {}
           /\ Plan(Update("debouncing", {d}) \o ToTargets(rows, group))
           /\ excuse' = [x \in Receipts |->
                            ExcusedIfRetired(d)[x] \cup ExcusedIfDeleted(group)[x]]

Insert(d, o, copy) ==
    /\ \E old \in {{}, Oldest} :
        /\ row' = Inserted(old, d, o, copy)
        /\ TrimQueue(old)
    /\ clock' = clock + 1

(* ingest of a verified request whose key has a receipt.                   *)
Duplicate(d) ==
    /\ Quiet /\ hook[d] > 0 /\ Kept(d)
    /\ hook' = [hook EXCEPT ![d] = @ - 1]
    /\ UNCHANGED <<processVars, row, queue, buffer, sent, peerVars, todo, local, excuse>>

(* ingest of a verified request: the receipt, then the pipeline. The       *)
(* endpoint may have been deleted since the request looked it up.          *)
Accept(d, o) ==
    /\ Quiet /\ hook[d] > 0 /\ ~Kept(d)
    /\ hook' = [hook EXCEPT ![d] = @ - 1]
    /\ Insert(d, o, FALSE)
    /\ Pipeline(row', d)
    /\ UNCHANGED <<setup, up, halts, endpoint, asks, sent, peerVars>>

(* The same for a payload that the endpoint's rules filter out.            *)
Filter(d) ==
    /\ Quiet /\ hook[d] > 0 /\ ~Kept(d)
    /\ hook' = [hook EXCEPT ![d] = @ - 1]
    /\ Insert(d, Own, FALSE)
    /\ Plan(Update("filtered", {d}))
    /\ excuse' = ExcusedIfRetired(d)
    /\ UNCHANGED <<setup, up, halts, endpoint, asks, buffer, sent, peerVars>>

(* A request that fails verification leaves a receipt that has no key and  *)
(* goes no further; of interest is only that it takes up room.             *)
Reject(d) ==
    /\ Quiet /\ hook[d] > 0
    /\ hook' = [hook EXCEPT ![d] = @ - 1]
    /\ row' = Trimmed(Oldest)
    /\ TrimQueue(Oldest)
    /\ UNCHANGED <<processVars, buffer, sent, peerVars, todo, local, excuse>>

(* Replay by an administrator, with the endpoint's own options. The new    *)
(* receipt has no key: no request of the provider is a duplicate of it.    *)
Replay(d, copy) ==
    /\ Quiet /\ endpoint = "live" /\ asks < MaxAsks
    /\ Kept(d) /\ copy \in setup.receipts /\ row[copy].st = "none" /\ hook[copy] = 0
    /\ asks' = asks + 1
    /\ Insert(copy, Own, TRUE)
    /\ Pipeline(row', copy)
    /\ UNCHANGED <<setup, up, halts, endpoint, hook, sent, peerVars>>

(***************************************************************************)
(* What makes held deliveries go on.                                       *)
(***************************************************************************)

(* The debounce timer, and its backstop in the sweep.                      *)
FlushDebounce ==
    /\ Quiet /\ buffer # {}
    /\ buffer' = {}
    /\ Plan(ToTargets(row, buffer))
    /\ excuse' = ExcusedIfDeleted(buffer)
    /\ UNCHANGED <<processVars, hook, row, queue, sent, peerVars>>

Flush(rows, m) ==
    /\ Plan(FlushPending(rows, m))
    /\ excuse' = ExcusedIfDeleted(Named(rows))

(* A legacy runner is sent what the ledger holds and owes no answer for it. *)
Redelivered(m, kind) ==
    IF kind # "legacy" THEN sent
    ELSE [k \in DOMAIN sent |->
            IF sent[k].out[m] = "open" THEN [sent[k] EXCEPT !.out[m] = "unreported"] ELSE sent[k]]

(* Slip: a runner that attaches is sent what waited for it to be online,   *)
(* and not what waited for its member to be idle.                          *)
WakeForOffline(m, kind) ==
    /\ Quiet /\ kind \in setup.clients
    /\ conn' = [conn EXCEPT ![m] = Better(@, kind)]
    /\ sent' = Redelivered(m, kind)
    /\ Flush({q \in queue : q.to = m /\ q.why = "offline"}, m)
    /\ UNCHANGED <<processVars, hook, row, queue, buffer, act>>

(* A client that authenticates with a token attaches, mostly a runner      *)
(* (onWake).                                                               *)
Wake(m, kind) ==
    /\ Quiet /\ kind \in setup.clients
    /\ conn' = [conn EXCEPT ![m] = Better(@, kind)]
    /\ sent' = Redelivered(m, kind)
    /\ Flush({q \in queue : q.to = m}, m)
    /\ UNCHANGED <<processVars, hook, row, queue, buffer, act>>

(* POST /presence/activity and onActivityReport; `blocked` counts as       *)
(* resting.                                                                *)
ReportWorking(m) ==
    /\ Quiet /\ act[m] # "working"
    /\ act' = [act EXCEPT ![m] = "working"]
    /\ UNCHANGED <<processVars, hook, row, queue, buffer, sent, conn, todo, local, excuse>>

ReportResting(m) ==
    /\ Quiet /\ act[m] # "resting"
    /\ act' = [act EXCEPT ![m] = "resting"]
    /\ Flush({q \in queue : q.to = m /\ q.why = "busy"}, m)
    /\ UNCHANGED <<processVars, hook, row, queue, buffer, sent, conn>>

(* Slip: rows expire, and their receipts go on saying `pending`.           *)
SweepQueueOnly(due) ==
    /\ Quiet /\ due # {} /\ \A q \in due : q.why = "offline"
    /\ Plan(Take(due))
    /\ UNCHANGED <<processVars, hook, row, queue, buffer, sent, peerVars, excuse>>

(* The sweep, for rows whose deadline has passed: offline ones expire, busy *)
(* ones are delivered, one member after the other.                         *)
SweepExpired(due) ==
    /\ Quiet /\ due # {} /\ \A q \in due : q.why = "offline"
    /\ Plan(Take(due) \o Update("expired", StillKept(row, Named(due))))
    /\ UNCHANGED <<processVars, hook, row, queue, buffer, sent, peerVars, excuse>>

SweepStarved(due, m) ==
    /\ Quiet /\ due # {} /\ \A q \in due : q.why = "busy" /\ q.to = m
    /\ Flush(due, m)
    /\ UNCHANGED <<processVars, hook, row, queue, buffer, sent, peerVars>>

(***************************************************************************)
(* The statements.                                                         *)
(***************************************************************************)

Running(ops) == up /\ todo # <<>> /\ Head(todo).op \in ops

(* The head without one of its elements; receipts after the first one are  *)
(* the rest.                                                               *)
DoneId(d) ==
    Update(IF Head(todo).op = "first" THEN "rest" ELSE Head(todo).op, Head(todo).ids \ {d})
    \o Tail(todo)
DoneRow(q) == Take(Head(todo).rows \ {q}) \o Tail(todo)

(* The newest receipt of a group goes first, and its options are the       *)
(* group's.                                                                *)
Newest(d, ids) == \A x \in ids : row[x].at <= row[d].at

DeletePending ==
    /\ Running({"take"})
    /\ \E q \in Head(todo).rows :
          /\ queue' = queue \ {q}
          /\ todo' = DoneRow(q)
    /\ local' = NothingDone
    /\ UNCHANGED <<processVars, hook, row, buffer, sent, peerVars, excuse>>

(* broker.push: each recipient owes a disposition, except for one whose    *)
(* runner cannot give any.                                                 *)
Recipients(to) == IF to \in Channels THEN Audience[to] ELSE {to}
Outcome(to) ==
    [m \in Members |-> IF m \notin Recipients(to) THEN "none"
                       ELSE IF conn[m] = "legacy" THEN "unreported"
                       ELSE "open"]
Push(s) ==
    /\ sent' = Append(sent, [ids |-> s.ids, to |-> s.to, out |-> Outcome(s.to)])
    /\ local' = [local EXCEPT !.msgs = @ \cup {Len(sent) + 1},
                              !.acked = @ \/ Recipients(s.to) = {}]
    /\ queue' = queue

(* insertPending. Its rows have identities: two for one member, of one      *)
(* dispatch, differ in the turn of the loop that stored them.              *)
Hold(s, why) ==
    /\ queue' = queue \cup {[to |-> s.to, why |-> why, ids |-> s.ids, turn |-> Len(todo)]}
    /\ local' = [local EXCEPT !.queued = TRUE]
    /\ sent' = sent

(* One turn of dispatchGroup's loop over the targets. A push may fail: the  *)
(* broker refuses a body that has the shape of a credential, or a channel  *)
(* or member is gone. pushMessage logs it, and the loop goes on.           *)
DispatchTarget ==
    LET s == Head(todo)
        plain == s.to \in Channels \/ s.op = "force"
        online == conn[s.to] # "away"
        waits(opt) == act[s.to] = "working" /\ opt.ifBusy = "wait" /\ ~opt.critical
        skipped == UNCHANGED <<queue, local, sent>>
    IN  /\ Running({"target", "force"})
        /\ todo' = Tail(todo)
        /\ \E d \in s.ids :
              /\ Newest(d, s.ids)
              /\ \/ plain /\ (Push(s) \/ skipped)
                 \/ ~plain /\ online /\ ~waits(row[d].opt) /\ (Push(s) \/ skipped)
                 \/ ~plain /\ online /\ waits(row[d].opt) /\ Hold(s, "busy")
                 \/ ~plain /\ ~online /\ row[d].opt.ifOffline = "queue" /\ Hold(s, "offline")
                 \/ ~plain /\ ~online /\ row[d].opt.ifOffline = "drop" /\ skipped
        /\ UNCHANGED <<processVars, hook, row, buffer, peerVars, excuse>>

(* What dispatchGroup makes of a receipt.                                  *)
StatusAfter(op, st) ==
    IF st \in {"delivered", "coalesced"} THEN st
    ELSE IF local.msgs # {} /\ op = "rest" THEN "coalesced"
    ELSE IF local.acked THEN "delivered"
    ELSE IF local.msgs # {} \/ local.queued THEN "pending"
    ELSE "dropped"

Recorded(op, r) ==
    [r EXCEPT !.st = StatusAfter(op, @), !.debouncing = FALSE, !.msgs = @ \cup local.msgs]

UpdateDelivery ==
    LET s == Head(todo)
    IN  /\ Running({"debouncing", "filtered", "first", "rest", "expired", "delivered", "dropped"})
        /\ \E d \in s.ids :
              /\ s.op = "first" => Newest(d, s.ids)
              /\ todo' = DoneId(d)
              /\ row' = [row EXCEPT ![d] =
                   CASE s.op = "debouncing" -> [@ EXCEPT !.debouncing = TRUE]
                     [] s.op \in {"first", "rest"} -> Recorded(s.op, @)
                     [] s.op = "expired" /\ @.st # "pending" -> @
                     [] OTHER -> [@ EXCEPT !.st = s.op, !.debouncing = FALSE]]
        /\ local' = IF todo' = <<>> THEN NothingDone ELSE local
        /\ UNCHANGED <<processVars, hook, queue, buffer, sent, peerVars, excuse>>

(***************************************************************************)
(* The members, the ledger, the administrator, the process.                *)
(***************************************************************************)

(* A browser attaches, or connections close.                               *)
Attach(m) ==
    /\ Quiet /\ conn[m] = "away" /\ "observer" \in setup.clients
    /\ conn' = [conn EXCEPT ![m] = "observer"]
    /\ UNCHANGED <<processVars, hook, row, queue, buffer, sent, act, todo, local, excuse>>

Detach(m) ==
    /\ Quiet
    /\ \E c \in {"away"} \cup setup.clients :
          /\ Rank[c] < Rank[conn[m]]
          /\ conn' = [conn EXCEPT ![m] = c]
    /\ UNCHANGED <<processVars, hook, row, queue, buffer, sent, act, todo, local, excuse>>

(* A report outlives WORK_STATE_TTL_MS without a heartbeat.                *)
Lapse(m) ==
    /\ Quiet /\ act[m] = "working"
    /\ act' = [act EXCEPT ![m] = "lapsed"]
    /\ UNCHANGED <<processVars, hook, row, queue, buffer, sent, conn, todo, local, excuse>>

(* The ledger settles a message for one recipient: the runner acts on it   *)
(* or refuses it, or it expires. onMessageDisposition.                     *)
Disposition(k, m, outcome) ==
    /\ Quiet /\ sent[k].out[m] = "open"
    /\ outcome = "acted" => conn[m] = "runner"
    /\ sent' = [sent EXCEPT ![k].out[m] = "settled"]
    /\ Plan(Update(IF outcome = "acted" THEN "delivered" ELSE "dropped",
                   {d \in Receipts : Kept(d) /\ k \in row[d].msgs}))
    /\ UNCHANGED <<processVars, hook, row, queue, buffer, peerVars, excuse>>

DeleteEndpoint ==
    /\ Quiet /\ endpoint = "live"
    /\ endpoint' = "deleted"
    /\ row' = Trimmed({d \in Receipts : Kept(d)})
    /\ queue' = {}
    /\ UNCHANGED <<setup, up, halts, asks, clock, hook, buffer, sent, peerVars,
                   todo, local, excuse>>

(* The process ends, between any two statements.                           *)
Halt ==
    /\ up /\ halts < MaxHalts
    /\ up' = FALSE
    /\ halts' = halts + 1
    /\ hook' = [d \in Receipts |-> 0]
    /\ buffer' = {}
    /\ conn' = [m \in Members |-> "away"]
    /\ act' = [m \in Members |-> "resting"]
    /\ Plan(<<>>)
    /\ excuse' = Excused("halt", UNION {todo[k].ids \cup Named(todo[k].rows) : k \in DOMAIN todo})
    /\ UNCHANGED <<setup, endpoint, asks, clock, row, queue, sent>>

(* What a process that ended had in its debounce buffer.                   *)
Stranded == {d \in Receipts : row[d].st = "pending" /\ row[d].debouncing}

(* Slip: a new process without recover.                                    *)
RestartOnly ==
    /\ ~up
    /\ up' = TRUE
    /\ Plan(<<>>)
    /\ UNCHANGED <<setup, halts, endpoint, asks, clock, hook, row, queue, buffer, sent, peerVars,
                   excuse>>

(* A new process: recover.                                                 *)
Restart ==
    /\ ~up
    /\ up' = TRUE
    /\ Plan(ToTargets(row, Stranded))
    /\ excuse' = ExcusedIfDeleted(Stranded)
    /\ UNCHANGED <<setup, halts, endpoint, asks, clock, hook, row, queue, buffer, sent,
                   peerVars>>

Statements == DeletePending \/ DispatchTarget \/ UpdateDelivery

Next ==
    \/ \E d \in Receipts : Ask(d) \/ Duplicate(d) \/ Filter(d) \/ Reject(d)
    \/ \E d \in Receipts, o \in Options : Accept(d, o)
    \/ \E d, copy \in Receipts : Replay(d, copy)
    \/ FlushDebounce
    \/ \E m \in Members, kind \in {"observer", "legacy", "runner"} : Wake(m, kind)
    \/ \E m \in Members : \/ ReportWorking(m) \/ ReportResting(m)
                          \/ Attach(m) \/ Detach(m) \/ Lapse(m)
    \/ \E due \in SUBSET queue :
          SweepExpired(due) \/ \E m \in Members : SweepStarved(due, m)
    \/ Statements
    \/ \E k \in DOMAIN sent, m \in Members, outcome \in {"acted", "refused"} :
          Disposition(k, m, outcome)
    \/ DeleteEndpoint \/ Halt \/ Restart

Spec == Init /\ [][Next]_vars

(* Handlers run to their end, timers fire, every row of the queue gets past *)
(* its deadline, a process that ended is started again, and the ledger      *)
(* settles what it holds (MessageDelivery!EveryMessageSettles). Nothing is  *)
(* assumed of providers, members and their runners.                         *)
Timers ==
    \/ FlushDebounce
    \/ SweepExpired({q \in queue : q.why = "offline"})
    \/ \E m \in Members : SweepStarved({q \in queue : q.why = "busy" /\ q.to = m}, m)
    \/ \E k \in DOMAIN sent, m \in Members : Disposition(k, m, "refused")
Fairness == WF_vars(Statements) /\ WF_vars(Restart) /\ SF_vars(Timers)
FairSpec == Spec /\ Fairness

(***************************************************************************)
(* Properties.                                                             *)
(***************************************************************************)

QueueRows == [to : Members, why : {"offline", "busy"}, ids : SUBSET Receipts, turn : Nat]
Statuses == {"none", "gone", "pending", "filtered", "dropped", "expired", "coalesced", "delivered"}
Outcomes == {"none", "open", "unreported", "settled"}
Operations == {"take", "target", "force", "first", "rest", "debouncing", "filtered", "expired",
               "delivered", "dropped"}
DeliveryRows(n) == [st : Statuses, copy : BOOLEAN, debouncing : BOOLEAN, at : Nat, opt : Options,
                    msgs : SUBSET (1..n)]
Messages == [ids : SUBSET Receipts, to : Members \cup Channels, out : [Members -> Outcomes]]
StatementRecords == [op : Operations, ids : SUBSET Receipts, rows : SUBSET QueueRows,
                     to : Members \cup Channels \cup {NoTarget}]

(* The table, the queue and what handlers hold are well typed; a receipt    *)
(* names messages that were pushed, a row of the queue holds something.     *)
TypeOK ==
    /\ setup \in Setups
    /\ up \in BOOLEAN
    /\ halts \in 0..MaxHalts
    /\ endpoint \in {"live", "deleted"}
    /\ asks \in 0..MaxAsks
    /\ clock \in Nat
    /\ hook \in [Receipts -> Nat]
    /\ row \in [Receipts -> DeliveryRows(Len(sent))]
    /\ queue \subseteq QueueRows
    /\ buffer \subseteq Receipts
    /\ sent \in Seq(Messages)
    /\ conn \in [Members -> Connections]
    /\ act \in [Members -> {"resting", "working", "lapsed"}]
    /\ todo \in Seq(StatementRecords)
    /\ local \in [msgs : SUBSET (1..Len(sent)), acked : BOOLEAN, queued : BOOLEAN]
    /\ excuse \in [Receipts -> SUBSET {"halt", "endpoint", "retired"}]

(* A receipt that says `pending` is being dealt with: it is in the debounce *)
(* buffer (or marked for recover), in the queue, or one of its messages is  *)
(* in the ledger's hands. Else the process ended before the statement that  *)
(* would have said so, the endpoint was deleted under it, or it went to a   *)
(* runner that reports nothing.                                             *)
Awaits(d, outcome) ==
    \E k \in row[d].msgs, m \in Members : sent[k].out[m] = outcome
Held(d) ==
    \/ d \in buffer
    \/ ~up /\ row[d].debouncing
    \/ \E q \in queue : d \in q.ids
    \/ Awaits(d, "open") \/ Awaits(d, "unreported")
PendingIsHeld ==
    todo = <<>> => \A d \in Receipts :
        row[d].st = "pending" => Held(d) \/ excuse[d] \cap {"halt", "endpoint"} # {}

(* Nothing waits in the queue for what has already happened: no runner is   *)
(* attached to a member waited for as offline, and a member waited for as   *)
(* busy has not reported otherwise since (its report may have lapsed, or    *)
(* the process that heard it ended, until its runner attaches again). And   *)
(* what waits is still there.                                               *)
QueueIsTrue ==
    Quiet => \A q \in queue :
        /\ q.why = "offline" => conn[q.to] \notin {"legacy", "runner"}
        /\ q.why = "busy" => conn[q.to] \notin {"legacy", "runner"} \/ act[q.to] # "resting"
        /\ q.ids # {} /\ \A d \in q.ids : Kept(d)

(* However often the provider repeats itself, whatever was buffered, queued *)
(* and flushed, and by whom, a delivery goes to a target once for each time *)
(* that the endpoint names it (nothing keeps it from naming it twice), and  *)
(* to no other. More can come of a process that ended in the middle of a    *)
(* dispatch, which recover repeats, and of a key that comes again after its *)
(* receipt was retired.                                                     *)
SentTo(d, t) == {k \in DOMAIN sent : sent[k].to = t /\ d \in sent[k].ids}
Mentions(t) == {i \in DOMAIN setup.targets : setup.targets[i] = t}
OncePerTarget ==
    \A d \in Receipts, t \in Members \cup Channels :
        excuse[d] \cap {"halt", "retired"} = {} =>
            Cardinality(SentTo(d, t)) <= Cardinality(Mentions(t))

(* No receipt stays `pending` for ever, except for the same reasons: the    *)
(* buffer is flushed, queues expire or are forced, and the ledger's outcome *)
(* finds its receipt.                                                       *)
ReceiptsSettle ==
    \A d \in Receipts :
        row[d].st = "pending" ~>
            row[d].st # "pending" \/ excuse[d] \cap {"halt", "endpoint"} # {}
            \/ Awaits(d, "unreported")
=============================================================================
