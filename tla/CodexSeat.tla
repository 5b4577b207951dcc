------------------------------- MODULE CodexSeat -------------------------------
(***************************************************************************)
(* A runner that drives codex: the forwarder's stream, the wrapper that    *)
(* holds events while no agent is up (packages/cli/src/runtime/agents/     *)
(* codex/codex-agent.ts), the channel sink (channel-sink.ts), the adapter  *)
(* that reads the app-server's lines and tears it down (adapter.ts), and   *)
(* the app-server itself, which is not part of the repository and does     *)
(* what those files expect of it.                                          *)
(*                                                                         *)
(* Lines of the app-server that arrive together are handled together: the  *)
(* continuation of an answered request runs after all of them. So an       *)
(* answer that is read leaves ReadLine enabled, and every other task of    *)
(* the runner waits for Continue.                                          *)
(***************************************************************************)
EXTENDS RunnerStream

CONSTANTS
    MaxTurns,    \* bound: turns the app-server starts
    MaxErrors,   \* bound: failures it reports, and turns swept by the broker
    MaxSpawns    \* bound: agents started one after the other

ASSUME SeatConstantsOK ==
    /\ MaxTurns \in Nat /\ MaxErrors \in Nat /\ MaxSpawns \in Nat
    /\ Turns = 1 .. MaxTurns

VARIABLES
    attached,        \* whether the wrapper has a live sink
    early,           \* pendingEvents: what came without one
    seat,            \* the live sink and the adapter's view of its agent
    stage,           \* how far the agent's teardown is
    codex, out,      \* the app-server, and the lines it has written
    spawns, errors,  \* bounded by MaxSpawns and MaxErrors
    shown,           \* the turns a message was in the input of
    ends, actedIn,   \* how turns ended; those in which a tool was used
    late,            \* receipts that joined a turn not open at the broker
    cut, lost        \* receipts a sink went with; leases taken for no open turn

wrapperVars == <<attached, early>>
historyVars == <<shown, ends, actedIn>>
leaseVars == <<late, cut, lost>>
vars == <<stream, wrapperVars, seat, stage, codex, out, spawns, errors,
          historyVars, leaseVars>>

Statuses == {"notLoaded", "idle", "active", "systemError"}
NoTurn == 0

(* flushing and the dispatch it stands for: what was asked, for which turn *)
(* and events, and how far the request is.                                 *)
NoFlight == [ask |-> "none", turn |-> NoTurn, events |-> <<>>, again |-> FALSE,
             at |-> "none", says |-> "none"]

(* buffer, timer, flushing, the flush calls that wait for it,              *)
(* awaitingStarted, turnReceipts, lastStatus and activeTurnId.             *)
NewSeat == [buffer |-> <<>>, timer |-> FALSE, flight |-> NoFlight,
            waiting |-> FALSE, awaiting |-> [t \in Turns |-> <<>>],
            held |-> [t \in Turns |-> <<>>], status |-> "notLoaded",
            turn |-> NoTurn]

NewCodex(used) == [turn |-> NoTurn, used |-> used, broken |-> FALSE]

TypeOK ==
    /\ StreamTypeOK
    /\ attached \in BOOLEAN
    /\ early \in Seq(Receipts)
    /\ seat.buffer \in Seq(Receipts)
    /\ seat.timer \in BOOLEAN /\ seat.waiting \in BOOLEAN
    /\ seat.flight.ask \in {"none", "start", "steer"}
    /\ seat.flight.at \in {"none", "sent", "served", "answered"}
    /\ seat.flight.says \in {"none", "ok", "race", "failed"}
    /\ seat.flight.events \in Seq(Receipts)
    /\ seat.awaiting \in [Turns -> Seq(Receipts)]
    /\ seat.held \in [Turns -> Seq(Receipts)]
    /\ seat.status \in Statuses /\ seat.turn \in Turns \cup {NoTurn}
    /\ stage \in {"off", "up", "flushing", "flushed", "interrupting", "interrupted", "closing"}
    /\ codex.turn \in Turns \cup {NoTurn} /\ codex.used \in 0 .. MaxTurns
    /\ spawns \in 0 .. MaxSpawns
    /\ errors \in 0 .. MaxErrors
    /\ shown \in [Msgs -> SUBSET Turns]
    /\ ends \in [Turns -> {"none", "well", "failed"}] /\ actedIn \subseteq Turns
    /\ late \subseteq Receipts /\ lost \subseteq Receipts
    /\ cut \in [Turns -> SUBSET Receipts]

Init ==
    /\ StreamInit
    /\ attached = FALSE /\ early = <<>>
    /\ seat = NewSeat /\ stage = "off"
    /\ codex = NewCodex(0) /\ out = <<>>
    /\ spawns = 0 /\ errors = 0
    /\ shown = [m \in Msgs |-> {}]
    /\ ends = [t \in Turns |-> "none"] /\ actedIn = {}
    /\ late = {} /\ lost = {} /\ cut = [t \in Turns |-> {}]
-----------------------------------------------------------------------------
(* The sink. An operator maps what a handler finds to what it leaves: the  *)
(* sink, the stream, and the receipts it registered late.                  *)

Now == [seat |-> seat, net |-> stream, late |-> late]

Become(p) ==
    /\ seat' = p.seat /\ stream' = p.net /\ late' = p.late
    /\ UNCHANGED <<cut, lost>>

Doing(p, acts) == [p EXCEPT !.net = PerformAll(@, acts)]
Deferred(p, events) == Doing(p, SettleEach(events, "deferred"))
Rebuffered(p, events) == [p EXCEPT !.seat.buffer = events \o @]

StillToRead(is, t) == \E i \in DOMAIN out : out[i].is = is /\ out[i].turn = t

Asking(p, ask, t, events, again) ==
    [p EXCEPT !.seat.flight = [ask |-> ask, turn |-> t, events |-> events,
                               again |-> again, at |-> "sent", says |-> "none"]]

(* deliver: the bundle timer is armed with the first event.                *)
Delivered(p, r) ==
    [p EXCEPT !.seat.buffer = Append(@, r), !.seat.timer = TRUE]

(* dispatchOnce, up to its request.                                        *)
Dispatched(p, events) ==
    CASE p.seat.status = "notLoaded" -> Rebuffered(p, events)
      [] p.seat.status = "systemError" -> Deferred(p, events)
      [] p.seat.status = "idle" -> Asking(p, "start", NoTurn, events, FALSE)
      [] p.seat.status = "active" ->
            IF p.seat.turn = NoTurn THEN Rebuffered(p, events)
            ELSE Asking(p, "steer", p.seat.turn, events, FALSE)

Drained(p) ==
    IF p.seat.buffer = <<>> THEN p
    ELSE Dispatched([p EXCEPT !.seat.buffer = <<>>], p.seat.buffer)

(* Slip: a flush that finds one under way leaves it at that.               *)
FlushedOrNot(p) ==
    LET q == [p EXCEPT !.seat.timer = FALSE]
    IN  IF p.seat.flight.at # "none" THEN q ELSE Drained(q)

(* flush: behind one under way it waits, then looks at the buffer again.   *)
Flushed(p) ==
    LET q == [p EXCEPT !.seat.timer = FALSE]
    IN  IF p.seat.buffer # <<>> /\ p.seat.flight.at # "none"
        THEN [q EXCEPT !.seat.waiting = TRUE]
        ELSE Drained(q)

(* The dispatch is over, and a flush that waited goes on.                  *)
Finished(p) ==
    LET q == [p EXCEPT !.seat.flight = NoFlight, !.seat.waiting = FALSE]
    IN  IF p.seat.waiting THEN Drained(q) ELSE q

(* The events join the turn t.                                             *)
Joined(p, t, events) ==
    [Doing(p, AcceptEach(events)) EXCEPT
        !.seat.held[t] = @ \o events,
        !.late = IF p.seat.turn = t /\ (p.net.link = "up" => t \in p.net.open) THEN @
                 ELSE @ \cup ToSet(events)]

(* Slip: the answer waits for a turn/started that may have come already.   *)
RegisteredAwaiting(p, t, events) == [p EXCEPT !.seat.awaiting[t] = events]

(* registerStartedReceipts: turn/started may have been read before.        *)
Registered(p, t, events) ==
    IF p.seat.turn = t THEN Joined(p, t, events)
    ELSE [p EXCEPT !.seat.awaiting[t] = events,
                   !.late = IF StillToRead("started", t) THEN @
                            ELSE @ \cup ToSet(events)]

(* A steer found another turn or none: once more, by the status now. With  *)
(* no turn known the events are dropped.                                   *)
Retried(p, events) ==
    CASE p.seat.status = "idle" -> Asking(p, "start", NoTurn, events, TRUE)
      [] p.seat.status = "active" ->
            IF p.seat.turn = NoTurn THEN Finished(p)
            ELSE Asking(p, "steer", p.seat.turn, events, TRUE)
      [] p.seat.status = "notLoaded" -> Finished(Rebuffered(p, events))
      [] p.seat.status = "systemError" -> Finished(Deferred(p, events))

(* The rest of dispatchOnce, with the answer.                              *)
Answered(p) ==
    LET f == p.seat.flight
    IN  CASE f.says = "ok" /\ f.ask = "start" -> Finished(Registered(p, f.turn, f.events))
          [] f.says = "ok" /\ f.ask = "steer" -> Finished(Joined(p, f.turn, f.events))
          [] f.says = "failed" \/ (f.says = "race" /\ f.again) ->
                Finished(Deferred(p, f.events))
          [] f.says = "race" /\ ~f.again -> Retried(p, f.events)
-----------------------------------------------------------------------------
(* The lines of the app-server.                                            *)

Line(is) == [is |-> is, turn |-> NoTurn, says |-> "none"]
Reply(says, t) == [Line("reply") EXCEPT !.says = says, !.turn = t]
Started(t) == [Line("started") EXCEPT !.turn = t]
Completed(t, how) == [Line("completed") EXCEPT !.turn = t, !.says = how]
UsedTool(t) == [Line("acted") EXCEPT !.turn = t]
Status(s) == [Line("status") EXCEPT !.says = s]

(* turn/started                                                            *)
OnStarted(p, t) ==
    LET q == Doing([p EXCEPT !.seat.turn = t],
                   <<Condition("ready"), Turn(t, "started")>>
                     \o AcceptEach(p.seat.awaiting[t]))
    IN  IF p.seat.awaiting[t] = <<>> THEN q
        ELSE [q EXCEPT !.seat.held[t] = p.seat.awaiting[t],
                       !.seat.awaiting[t] = <<>>]

(* Slip: how the turn ended is not looked at.                              *)
OnCompletedHandled(p, t, how) ==
    [Doing(p, <<Turn(t, IF how = "failed" THEN "failed" ELSE "completed")>>
                \o SettleEach(p.seat.held[t], "handled"))
        EXCEPT !.seat.held[t] = <<>>, !.seat.turn = NoTurn]

(* turn/completed: an interrupted turn has not failed.                     *)
OnCompleted(p, t, how) ==
    [Doing(p, <<Turn(t, IF how = "failed" THEN "failed" ELSE "completed")>>
                \o SettleEach(p.seat.held[t],
                              IF how = "failed" THEN "deferred" ELSE "handled"))
        EXCEPT !.seat.held[t] = <<>>, !.seat.turn = NoTurn]

(* item/started of a tool                                                  *)
OnActed(p, t) ==
    [Doing(p, SettleEach(p.seat.held[t], "acted")) EXCEPT !.seat.held[t] = <<>>]

(* applyStatus                                                             *)
OnStatus(p, s) ==
    LET q == [p EXCEPT !.seat.status = s]
    IN  IF s = "notLoaded" THEN q
        ELSE Flushed(IF s = "systemError" THEN Doing(q, <<Condition("degraded")>>)
                     ELSE q)

OnReply(p, line) ==
    [p EXCEPT !.seat.flight.at = "answered", !.seat.flight.says = line.says,
              !.seat.flight.turn = line.turn]

Handled(p, line) ==
    CASE line.is = "reply" -> OnReply(p, line)
      [] line.is = "started" -> OnStarted(p, line.turn)
      [] line.is = "completed" -> OnCompleted(p, line.turn, line.says)
      [] line.is = "acted" -> OnActed(p, line.turn)
      [] line.is = "status" -> OnStatus(p, line.says)
      [] line.is = "error" -> Doing(p, <<Condition("degraded")>>)
      [] line.is = "interrupted" -> p

(* The final flush of a teardown has returned.                             *)
StopIsDue == \/ stage = "flushed" /\ ~seat.waiting
             \/ stage = "flushing" /\ ~seat.waiting /\ seat.flight.at = "none"

(* No continuation is due: the next task of the runner may run.            *)
Quiet == seat.flight.at # "answered" /\ stage # "closing" /\ ~StopIsDue

ReadLine ==
    /\ ~StopIsDue
    /\ out # <<>>
    /\ Become(Handled(Now, Head(out)))
    /\ out' = Tail(out)
    /\ stage' = IF Head(out).is = "interrupted" THEN "closing" ELSE stage
    /\ UNCHANGED <<wrapperVars, codex, spawns, errors, historyVars>>

Continue ==
    /\ seat.flight.at = "answered"
    /\ Become(Answered(Now))
    /\ UNCHANGED <<wrapperVars, stage, codex, out, spawns, errors, historyVars>>

(* The bundle timer.                                                       *)
Timer ==
    /\ Quiet
    /\ seat.timer
    /\ Become(Flushed(Now))
    /\ UNCHANGED <<wrapperVars, stage, codex, out, spawns, errors, historyVars>>
-----------------------------------------------------------------------------
(* The wrapper.                                                            *)

(* What the sink is given to say when it gets hold of a stream.            *)
Introduction == IF ~attached THEN <<>>
                ELSE <<Condition("ready")>>
                       \o (IF seat.turn = NoTurn THEN <<>>
                           ELSE <<Turn(seat.turn, "started")>>)

Received(r, net) ==
    IF attached
    THEN Become(Delivered([Now EXCEPT !.net = net], r)) /\ UNCHANGED early
    ELSE /\ early' = Append(early, r) /\ stream' = net
         /\ UNCHANGED <<seat, leaseVars>>

(* forwardMessage                                                          *)
Forward ==
    /\ stream.down # <<>>
    /\ stream.copies[Head(stream.down)] < MaxCopies
    /\ Received(Incoming, Taken)
    /\ UNCHANGED <<attached, stage, codex, out, spawns, errors, historyVars>>

(* An agent is up, its thread open: its sink is attached and given, in one *)
(* go, what came before it.                                                *)
Spawn ==
    /\ stage = "off"
    /\ spawns < MaxSpawns
    /\ spawns' = spawns + 1
    /\ stage' = "up" /\ attached' = TRUE
    /\ seat' = [NewSeat EXCEPT !.status = "idle", !.buffer = early,
                              !.timer = early # <<>>]
    /\ stream' = IF stream.gen = 0 THEN stream
                 ELSE Performed(stream, Condition("ready"))
    /\ early' = <<>>
    /\ codex' = NewCodex(codex.used) /\ out' = <<>>
    /\ UNCHANGED <<errors, historyVars, leaseVars>>
-----------------------------------------------------------------------------
(* The agent is stopped for a successor.                                   *)

(* detach, then the final flush, which looks at the buffer first: with     *)
(* nothing there, or behind a flush that already waits, it does not wait   *)
(* for the dispatch of another.                                            *)
Stop ==
    /\ Quiet
    /\ stage = "up"
    /\ spawns < MaxSpawns
    /\ attached' = FALSE
    /\ stage' = IF seat.buffer = <<>> \/ seat.waiting THEN "flushed" ELSE "flushing"
    /\ Become(Flushed(Now))
    /\ UNCHANGED <<early, codex, out, spawns, errors, historyVars>>

(* The flush has returned: a turn under way is interrupted first.          *)
StopTurn ==
    /\ StopIsDue /\ seat.turn # NoTurn
    /\ stage' = "interrupting"
    /\ UNCHANGED <<stream, wrapperVars, seat, codex, out, spawns, errors,
                   historyVars, leaseVars>>

(* rpc.close: a request under way fails, and so does one that a waiting    *)
(* flush still makes.                                                      *)
Failing(s) ==
    s.flight.events
      \o (IF s.waiting /\ ~(s.status = "active" /\ s.turn = NoTurn) THEN s.buffer ELSE <<>>)

(* Slip: the turn is reported over, as if its receipts had been settled.   *)
TornAsEnded(p) ==
    Doing(Deferred(p, Failing(p.seat)), <<Turn(p.seat.turn, "completed")>>)

Torn(p) == Deferred(p, Failing(p.seat))

(* The sink goes with what it has: its receipts are settled by nobody.     *)
Close ==
    /\ seat.flight.at # "answered"
    /\ stage = "closing" \/ (StopIsDue /\ seat.turn = NoTurn)
    /\ stage' = "off"
    /\ stream' = Torn(Now).net
    /\ cut' = [t \in Turns |-> cut[t] \cup ToSet(seat.held[t])]
    /\ seat' = NewSeat
    /\ codex' = NewCodex(codex.used) /\ out' = <<>>
    /\ UNCHANGED <<wrapperVars, spawns, errors, historyVars, late, lost>>
-----------------------------------------------------------------------------
(* The stream.                                                             *)

seatVars == <<wrapperVars, seat, stage, codex, out, spawns, errors,
              historyVars, leaseVars>>

PushMessage == Push /\ UNCHANGED seatVars
LoseLink == Lose /\ UNCHANGED seatVars
LoopEnds == Quiet /\ EndStream /\ UNCHANGED seatVars

(* What waited for the new stream may take a lease on it for a turn that   *)
(* is not open there: its sink was detached, or has gone.                  *)
Subscribe ==
    /\ Quiet
    /\ Connect(Introduction)
    /\ lost' = lost \cup {r \in Receipts :
                            /\ stream'.row[r[1]] = "accepted"
                            /\ \E t \in Turns \ stream'.open :
                                  r \in ToSet(seat.held[t]) \cup cut[t]}
    /\ UNCHANGED <<wrapperVars, seat, stage, codex, out, spawns, errors,
                   historyVars, late, cut>>

(* Eight hours after a turn began its start has long been answered, and a  *)
(* teardown takes a few seconds.                                           *)
SweepTurn ==
    /\ errors < MaxErrors /\ errors' = errors + 1
    /\ seat.flight.ask # "start" /\ stage \in {"up", "off"}
    /\ \E t \in Turns : Backstop(t)
    /\ UNCHANGED <<wrapperVars, seat, stage, codex, out, spawns, historyVars,
                   leaseVars>>
-----------------------------------------------------------------------------
(* The app-server. It answers a request, works on one turn at a time, and  *)
(* tells of both in an order of its own.                                   *)

Writes(lines) == out' = out \o lines
EitherOrder(a, b) == Writes(<<a, b>>) \/ Writes(<<b, a>>)
Shows(t) == shown' = [m \in Msgs |-> IF \E r \in ToSet(seat.flight.events) : r[1] = m
                                     THEN shown[m] \cup {t} ELSE shown[m]]

Asked(what) == seat.flight.at = "sent" /\ seat.flight.ask = what
Serve == seat' = [seat EXCEPT !.flight.at = "served"]

StartTurn ==
    LET t == codex.used + 1
    IN  /\ Asked("start") /\ Serve
        /\ codex.turn = NoTurn /\ ~codex.broken /\ codex.used < MaxTurns
        /\ codex' = [codex EXCEPT !.turn = t, !.used = t]
        /\ Shows(t)
        /\ \/ Writes(<<Reply("ok", t), Started(t), Status("active")>>)
           \/ Writes(<<Status("active"), Started(t), Reply("ok", t)>>)
        /\ UNCHANGED <<stream, wrapperVars, stage, spawns, errors, ends,
                       actedIn, leaseVars>>

Steer ==
    /\ Asked("steer") /\ Serve
    /\ codex.turn = seat.flight.turn
    /\ Shows(codex.turn)
    /\ Writes(<<Reply("ok", codex.turn)>>)
    /\ UNCHANGED <<stream, wrapperVars, stage, codex, spawns, errors, ends,
                   actedIn, leaseVars>>

(* Another turn than the one the steer expects, or none.                   *)
RefuseSteer ==
    /\ Asked("steer") /\ Serve
    /\ codex.turn # seat.flight.turn
    /\ Writes(<<Reply("race", NoTurn)>>)
    /\ UNCHANGED <<stream, wrapperVars, stage, codex, spawns, errors,
                   historyVars, leaseVars>>

(* A start that cannot be, or a request that fails.                        *)
RefuseRequest ==
    /\ Asked("start") \/ Asked("steer")
    /\ Serve
    /\ \/ /\ Asked("start")
          /\ codex.turn # NoTurn \/ codex.broken \/ codex.used = MaxTurns
          /\ UNCHANGED errors
       \/ errors < MaxErrors /\ errors' = errors + 1
    /\ Writes(<<Reply("failed", NoTurn)>>)
    /\ UNCHANGED <<stream, wrapperVars, stage, codex, spawns, historyVars,
                   leaseVars>>

UseTool ==
    /\ codex.turn \in Turns \ actedIn
    /\ actedIn' = actedIn \cup {codex.turn}
    /\ Writes(<<UsedTool(codex.turn)>>)
    /\ UNCHANGED <<stream, wrapperVars, seat, stage, codex, spawns, errors,
                   shown, ends, leaseVars>>

EndTurn ==
    /\ codex.turn # NoTurn
    /\ codex' = [codex EXCEPT !.turn = NoTurn]
    /\ ends' = [ends EXCEPT ![codex.turn] = "well"]
    /\ EitherOrder(Completed(codex.turn, "completed"), Status("idle"))
    /\ UNCHANGED <<stream, wrapperVars, seat, stage, spawns, errors, shown,
                   actedIn, leaseVars>>

FailTurn ==
    /\ codex.turn # NoTurn
    /\ errors < MaxErrors /\ errors' = errors + 1
    /\ ends' = [ends EXCEPT ![codex.turn] = "failed"]
    /\ \E broken \in BOOLEAN :
          /\ codex' = [codex EXCEPT !.turn = NoTurn, !.broken = broken]
          /\ EitherOrder(Completed(codex.turn, "failed"),
                         Status(IF broken THEN "systemError" ELSE "idle"))
    /\ UNCHANGED <<stream, wrapperVars, seat, stage, spawns, shown, actedIn,
                   leaseVars>>

(* turn/interrupt ends the turn if it still runs.                          *)
Interrupt ==
    /\ stage = "interrupting"
    /\ stage' = "interrupted"
    /\ IF codex.turn = NoTurn
       THEN Writes(<<Line("interrupted")>>) /\ UNCHANGED <<codex, ends>>
       ELSE /\ codex' = [codex EXCEPT !.turn = NoTurn]
            /\ ends' = [ends EXCEPT ![codex.turn] = "well"]
            /\ EitherOrder(Completed(codex.turn, "interrupted"), Line("interrupted"))
    /\ UNCHANGED <<stream, wrapperVars, seat, spawns, errors, shown, actedIn,
                   leaseVars>>

(* An error notification; the app-server retries by itself.                *)
ReportError ==
    /\ stage # "off"
    /\ errors < MaxErrors /\ errors' = errors + 1
    /\ Writes(<<Line("error")>>)
    /\ UNCHANGED <<stream, wrapperVars, seat, stage, codex, spawns,
                   historyVars, leaseVars>>

Recover ==
    /\ codex.broken
    /\ codex' = [codex EXCEPT !.broken = FALSE]
    /\ Writes(<<Status("idle")>>)
    /\ UNCHANGED <<stream, wrapperVars, seat, stage, spawns, errors,
                   historyVars, leaseVars>>
-----------------------------------------------------------------------------
Next ==
    \/ PushMessage \/ LoseLink \/ LoopEnds \/ Subscribe \/ SweepTurn
    \/ Forward \/ Spawn \/ Stop \/ StopTurn \/ Close
    \/ ReadLine \/ Continue \/ Timer
    \/ StartTurn \/ Steer \/ RefuseSteer \/ RefuseRequest \/ UseTool \/ EndTurn
    \/ FailTurn \/ Interrupt \/ ReportError \/ Recover

Spec == Init /\ [][Next]_vars

(* What is due in the runner happens: received messages, lines read,       *)
(* continuations, timers, the next connection, the steps of a teardown and *)
(* the agent after it. And codex answers, ends its turns and recovers.     *)
(* Nothing makes it fail, or a teardown begin.                             *)
RunnerStep == LoopEnds \/ Subscribe \/ Forward \/ Spawn \/ StopTurn
                \/ Close \/ ReadLine \/ Continue \/ Timer
CodexStep == StartTurn \/ Steer \/ RefuseSteer \/ RefuseRequest \/ EndTurn
               \/ Interrupt \/ Recover

FairSpec == Spec /\ WF_vars(RunnerStep) /\ WF_vars(CodexStep)
-----------------------------------------------------------------------------
(* A message settled as handled was put before the agent in a turn that    *)
(* did not fail, one settled as acted in a turn that used a tool: no frame *)
(* says more than the turn showed, across steers, retries, reconnects and  *)
(* agents (turnCompleted, acted, receiptFor).                              *)
HandledWasShown ==
    \A m \in Msgs :
        /\ stream.row[m] = "handled" => \E t \in shown[m] : ends[t] = "well"
        /\ stream.row[m] = "acted" => \E t \in shown[m] : t \in actedIn

(* A receipt the sink keeps for a turn is kept for one that will still be  *)
(* heard of: it waits for a start not yet read, or for the end of a turn   *)
(* that has one to come. The exception is an answer handled after its turn *)
(* was over, swept, or not reported on this stream                         *)
(* (registerStartedReceipts, the steer's continuation).                    *)
ReceiptsReachTheirTurn ==
    \A t \in Turns :
        /\ ToSet(seat.awaiting[t]) \subseteq late \/ StillToRead("started", t)
        /\ \/ ToSet(seat.held[t]) \subseteq late
           \/ codex.turn = t
           \/ StillToRead("completed", t)

(* A lease has an exit: a turn of the agent that has the receipt and is    *)
(* still to end, or, when the agent was replaced before the end of the     *)
(* turn was read, the turn the broker has open and sweeps after eight      *)
(* hours (Close: nobody settles it before). Two exceptions, where only the *)
(* end of the stream or of the message's day gives the lease back: a       *)
(* receipt that joined a turn already over or swept, and one that took its *)
(* lease on a stream renewed during or after a teardown, on which its turn *)
(* was never reported.                                                     *)
LeasesHaveAnExit ==
    \A m \in Msgs :
        stream.row[m] = "accepted" =>
            \/ \E r \in late \cup lost : r[1] = m
            \/ \E t \in Turns : /\ \E r \in ToSet(seat.held[t]) : r[1] = m
                              /\ (codex.turn = t \/ StillToRead("completed", t))
            \/ \E t \in stream.open : \E r \in cut[t] : r[1] = m

(* What is settled on a live stream is settled at the broker: a reconnect  *)
(* in the middle of a turn gives the leases back, and the receipts take    *)
(* them again first (accepted and settle of receiptFor). Two exceptions: a *)
(* runner the broker holds for degraded, whose leases are released while   *)
(* the generation stays, so that the receipt does not ask again and its    *)
(* settlement is refused; and a later copy of the message, which may have  *)
(* been deferred.                                                          *)
EndIsRead(t, how) ==
    out # <<>> /\ Head(out) = Completed(t, how) /\ out' = Tail(out) /\ stage' # "off"

LastCopies(receipts) == {r \in ToSet(receipts) : r[2] = stream.copies[r[1]]}

SettlementsLand ==
    [][\A t \in Turns, how \in {"completed", "interrupted"} :
          EndIsRead(t, how) /\ stream.link = "up" /\ stream.cond # "degraded"
          => \A r \in LastCopies(seat.held[t]) : stream'.row[r[1]] \in Outcomes]_vars

(* No wakeup is lost: what the sink has buffered waits for the bundle      *)
(* timer, for a flush behind the one under way, or for a change of status  *)
(* that is still to come (scheduleFlush, flush, applyStatus, and flushNow  *)
(* in a teardown, after which the buffer goes with the sink).              *)
BufferIsDue ==
    seat.buffer # <<>> =>
        \/ seat.timer
        \/ seat.waiting
        \/ codex.turn # NoTurn
        \/ \E i \in DOMAIN out : out[i].is = "status"
        \/ StopIsDue \/ stage = "closing"
=============================================================================
