---------------------------- MODULE AgentSession ----------------------------
(***************************************************************************)
(* One runner session of the CLI and the agent process it keeps: the       *)
(* driver (packages/cli/src/runtime/agent-session.ts), the drain-and-      *)
(* restart coordinator (restart.ts), the context-control coordinator       *)
(* (context-control.ts), the lifecycle lock the two share, the activity    *)
(* signal they wait on (trace/busy.ts) and the session's teardown.         *)
(*                                                                         *)
(* A step is what runs between two awaits. Promise continuations run       *)
(* before the next event does, so a party whose next move is only such a   *)
(* continuation ("begin", "drained", "locked") moves before anything else: *)
(* every action that starts with an outside event is guarded by Quiet.     *)
(***************************************************************************)
EXTENDS Naturals, Sequences, FiniteSets

CONSTANTS
    Controls,     \* the context-control requests the broker pushes
    VerbOf,       \* Controls -> {"compact", "clear", "reload"}
    MaxEdits,     \* bound: edits of each kind at the broker
    MaxFailures   \* bound: failed refetches

ASSUME SessionConstantsOK ==
    /\ VerbOf \in [Controls -> {"compact", "clear", "reload"}]
    /\ MaxEdits \in Nat
    /\ MaxFailures \in Nat

Kinds == {"instructions", "environment"}
Parties == {"restart", "control"}

VARIABLES
    phase,     \* "starting" until the first agent is up, then "running"
    activity,  \* the derived state of the signal: idle, working, blocked
    live,      \* agent processes alive
    current,   \* whether currentProc is "up" or "down"
    version,   \* per kind: edits made at the broker
    unheard,   \* per kind: events on their way to the runner
    early,     \* kinds heard before the first spawn
    packet,    \* per kind: the version the runner has cached
    running,   \* per kind: the version the current agent was spawned with
    pc,        \* where each coordinator's running cycle or control stands
    answer,    \* per party: what the broker's pending response holds
    covered, rearm,      \* the restart coordinator's flags
    closed, ctlClosed,   \* close() was called: restart, context control
    chain,     \* controls accepted and not answered, the running one first
    acks,      \* per control: outcomes reported for it
    td,        \* where teardown stands: "no", then one value for each await
    failures,  \* failed refetches so far (bounded by MaxFailures)
    blind      \* history: kinds heard too late for the running cycle's fetch

brokerVars == <<version, unheard>>
flags == <<covered, rearm>>
vars == <<phase, activity, live, current, version, unheard, early, packet,
          running, pc, answer, covered, rearm, closed, ctlClosed, chain, acks,
          td, failures, blind>>

Transient == {"begin", "drained", "locked"}
Swapping == {"stop", "fetch", "fetched", "resolve", "resolved", "spawn", "greet"}
Places == {"none", "drain", "lock", "compact"} \cup Transient \cup Swapping

TypeOK ==
    /\ phase \in {"starting", "running"}
    /\ activity \in {"idle", "working", "blocked"}
    /\ live \in Nat
    /\ current \in {"up", "down"}
    /\ version \in [Kinds -> Nat]
    /\ unheard \in [Kinds -> Nat]
    /\ early \in SUBSET Kinds
    /\ packet \in [Kinds -> Nat]
    /\ running \in [Kinds -> Nat]
    /\ pc \in [Parties -> Places]
    /\ answer \in [Parties -> Nat]
    /\ covered \in BOOLEAN
    /\ rearm \in BOOLEAN
    /\ closed \in BOOLEAN
    /\ ctlClosed \in BOOLEAN
    /\ chain \in Seq(Controls)
    /\ acks \in [Controls -> Nat]
    /\ td \in {"no", "restart", "control", "agent", "end", "drain", "done", "rejected"}
    /\ failures \in Nat
    /\ blind \in SUBSET Kinds

Init ==
    /\ phase = "starting"
    /\ activity = "idle"
    /\ live = 0
    /\ current = "down"
    /\ version = [k \in Kinds |-> 0]
    /\ unheard = [k \in Kinds |-> 0]
    /\ early = {}
    /\ packet = [k \in Kinds |-> 0]
    /\ running = [k \in Kinds |-> 0]
    /\ pc = [p \in Parties |-> "none"]
    /\ answer = [p \in Parties |-> 0]
    /\ covered = TRUE
    /\ rearm = FALSE
    /\ closed = FALSE
    /\ ctlClosed = FALSE
    /\ chain = << >>
    /\ acks = [c \in Controls |-> 0]
    /\ td = "no"
    /\ failures = 0
    /\ blind = {}
-----------------------------------------------------------------------------
Quiet == \A p \in Parties : pc[p] \notin Transient

Other(p) == IF p = "restart" THEN "control" ELSE "restart"

(* The lifecycle lock: a promise chain, so first come, first served. Only a *)
(* control waits for idle while it holds it.                                *)
Holds(p) ==
    \/ pc[p] \in Swapping \cup {"locked"}
    \/ p = "control" /\ pc[p] \in {"drain", "drained"}

(* Slip: the chain is not awaited. *)
AskUngated(p) == [pc EXCEPT ![p] = "locked"]

AskLock(p) ==
    [pc EXCEPT ![p] = IF Holds(Other(p)) THEN "lock" ELSE "locked"]

(* p leaves the lock for the place `at`; whoever waits for it is let in. *)
LeaveLock(p, at) ==
    [q \in Parties |-> IF q = p THEN at
                       ELSE IF pc[q] = "lock" THEN "locked" ELSE pc[q]]

(* waitForIdle: the listener fires at once when the agent is idle already. *)
WaitForIdle == IF activity = "idle" THEN "drained" ELSE "drain"

(* An edit at the broker, which fans out an event to the member. *)
Edit(k) ==
    /\ Quiet
    /\ version[k] < MaxEdits
    /\ version' = [version EXCEPT ![k] = @ + 1]
    /\ unheard' = [unheard EXCEPT ![k] = @ + 1]
    /\ UNCHANGED <<phase, activity, live, current, early, packet, running, pc,
                   answer, flags, closed, ctlClosed, chain, acks, td, failures,
                   blind>>

(* Slip: a request that finds a cycle in flight is always folded into it. *)
RequestFolded ==
    IF closed \/ pc["restart"] # "none" THEN UNCHANGED <<pc, covered, rearm>>
    ELSE /\ pc' = [pc EXCEPT !["restart"] = WaitForIdle]
         /\ covered' = TRUE
         /\ UNCHANGED rearm

(* request(): folded into a cycle that has not refetched, re-armed by one   *)
(* that has, and the launch of a cycle when there is none.                  *)
Request ==
    IF closed \/ (pc["restart"] # "none" /\ covered) THEN UNCHANGED <<pc, covered, rearm>>
    ELSE IF pc["restart"] # "none" THEN rearm' = TRUE /\ UNCHANGED <<pc, covered>>
    ELSE /\ pc' = [pc EXCEPT !["restart"] = WaitForIdle]
         /\ covered' = TRUE
         /\ UNCHANGED rearm

(* The broker has already read k for the response the running cycle awaits  *)
(* or has used, and the cycle still counts itself as covering.              *)
TooLate(k) ==
    LET at == pc["restart"]
    IN  covered /\ \/ k = "instructions" /\ at \in {"fetched", "resolve", "resolved"}
                   \/ k = "environment" /\ at = "resolved"

(* The forwarder hands an instructions or environment event to the driver.  *)
Hear(k) ==
    /\ Quiet
    /\ td \notin {"drain", "done"}
    /\ unheard[k] > 0
    /\ unheard' = [unheard EXCEPT ![k] = @ - 1]
    /\ IF phase = "starting"
       THEN /\ early' = early \cup {k}
            /\ UNCHANGED <<pc, flags, blind>>
       ELSE /\ Request
            /\ blind' = IF TooLate(k) THEN blind \cup {k} ELSE blind
            /\ UNCHANGED early
    /\ UNCHANGED <<phase, activity, live, current, version, packet, running,
                   answer, closed, ctlClosed, chain, acks, td, failures>>
-----------------------------------------------------------------------------
(* The first agent is spawned; what was heard before is replayed to the two *)
(* coordinators, which exist from here on.                                  *)
FirstSpawn ==
    /\ phase = "starting"
    /\ phase' = "running"
    /\ live' = 1
    /\ current' = "up"
    /\ running' = packet
    /\ early' = {}
    /\ pc' = [p \in Parties |->
                 IF p = "restart" THEN IF early # {} THEN WaitForIdle ELSE "none"
                 ELSE IF chain # << >> THEN "begin" ELSE "none"]
    /\ UNCHANGED <<activity, brokerVars, packet, answer, flags, closed,
                   ctlClosed, chain, acks, td, failures, blind>>

Stopping == td \in {"end", "drain", "done", "rejected"}
            \/ \E p \in Parties : pc[p] = "stop"

(* A turn or a tool call of an agent that is up lights the signal up. *)
TurnStarts ==
    /\ Quiet
    /\ live > 0
    /\ ~Stopping
    /\ activity = "idle"
    /\ activity' = "working"
    /\ UNCHANGED <<phase, live, current, brokerVars, early, packet, running,
                   pc, answer, flags, closed, ctlClosed, chain, acks, td,
                   failures, blind>>

(* Slip: only the first listener is told. *)
WokenControlFirst ==
    [p \in Parties |->
        IF pc[p] = "drain" /\ (p = "control" \/ pc["control"] # "drain")
        THEN "drained" ELSE pc[p]]

(* The signal turns idle: the turn ended, or the cap on a handle's age cut  *)
(* it. Every coordinator that waits for idle is woken in the same breath.   *)
Woken == [p \in Parties |-> IF pc[p] = "drain" THEN "drained" ELSE pc[p]]

TurnEnds ==
    /\ Quiet
    /\ activity = "working"
    /\ activity' = "idle"
    /\ pc' = Woken
    /\ UNCHANGED <<phase, live, current, brokerVars, early, packet, running,
                   answer, flags, closed, ctlClosed, chain, acks, td, failures,
                   blind>>

(* setBlocked: the agent waits for a person, or no longer does. *)
Block ==
    /\ Quiet
    /\ live > 0
    /\ ~Stopping
    /\ activity' = "blocked"
    /\ activity # "blocked"
    /\ UNCHANGED <<phase, live, current, brokerVars, early, packet, running,
                   pc, answer, flags, closed, ctlClosed, chain, acks, td,
                   failures, blind>>

Unblock ==
    /\ Quiet
    /\ live > 0
    /\ activity = "blocked"
    /\ \/ activity' = "idle" /\ pc' = Woken
       \/ activity' = "working" /\ UNCHANGED pc
    /\ UNCHANGED <<phase, live, current, brokerVars, early, packet, running,
                   answer, flags, closed, ctlClosed, chain, acks, td, failures,
                   blind>>
-----------------------------------------------------------------------------
(* Slip: a control that is refused joins the chain all the same. *)
HandleTwice(c) ==
    /\ Quiet
    /\ td \notin {"drain", "done"}
    /\ acks[c] = 0 /\ c \notin {chain[i] : i \in DOMAIN chain}
    /\ acks' = IF ctlClosed THEN [acks EXCEPT ![c] = @ + 1] ELSE acks
    /\ chain' = Append(chain, c)
    /\ pc' = IF phase = "running" /\ chain = << >>
             THEN [pc EXCEPT !["control"] = "begin"] ELSE pc
    /\ UNCHANGED <<phase, activity, live, current, brokerVars, early, packet,
                   running, answer, flags, closed, ctlClosed, td, failures,
                   blind>>

(* handle(): refused once closed, else chained behind the ones before it. A *)
(* control that lands before the first spawn is held for the coordinator.   *)
Handle(c) ==
    /\ Quiet
    /\ td \notin {"drain", "done"}
    /\ acks[c] = 0 /\ c \notin {chain[i] : i \in DOMAIN chain}
    /\ IF ctlClosed
       THEN acks' = [acks EXCEPT ![c] = @ + 1] /\ UNCHANGED <<chain, pc>>
       ELSE /\ chain' = Append(chain, c)
            /\ pc' = IF phase = "running" /\ chain = << >>
                     THEN [pc EXCEPT !["control"] = "begin"] ELSE pc
            /\ UNCHANGED acks
    /\ UNCHANGED <<phase, activity, live, current, brokerVars, early, packet,
                   running, answer, flags, closed, ctlClosed, td, failures,
                   blind>>

(* Where the control coordinator stands once the running control is done.   *)
NextControl == IF Len(chain) > 1 THEN "begin" ELSE "none"

(* The running control is answered and leaves the chain. *)
Answered ==
    /\ acks' = [acks EXCEPT ![Head(chain)] = @ + 1]
    /\ chain' = Tail(chain)

(* run(): a compaction asks the agent, the other verbs ask for the lock. *)
ControlBegins ==
    /\ pc["control"] = "begin"
    /\ pc' = IF VerbOf[Head(chain)] = "compact"
             THEN [pc EXCEPT !["control"] = "compact"]
             ELSE AskLock("control")
    /\ UNCHANGED <<phase, activity, live, current, brokerVars, early, packet,
                   running, answer, flags, closed, ctlClosed, chain, acks, td,
                   failures, blind>>

(* The framework answers the compaction, or it fails, or its time is up. *)
CompactEnds ==
    /\ Quiet
    /\ pc["control"] = "compact"
    /\ pc' = [pc EXCEPT !["control"] = NextControl]
    /\ Answered
    /\ UNCHANGED <<phase, activity, live, current, brokerVars, early, packet,
                   running, answer, flags, closed, ctlClosed, td, failures,
                   blind>>

(* runClear and runReload, under the lock, up to their wait for idle *)
ControlLocked ==
    /\ pc["control"] = "locked"
    /\ pc' = [pc EXCEPT !["control"] = WaitForIdle]
    /\ UNCHANGED <<phase, activity, live, current, brokerVars, early, packet,
                   running, answer, flags, closed, ctlClosed, chain, acks, td,
                   failures, blind>>

(* Slip: an abandoned control goes unanswered. *)
ControlDrainedSilently ==
    /\ pc["control"] = "drained"
    /\ IF ctlClosed
       THEN /\ chain' = Tail(chain)
            /\ pc' = LeaveLock("control", NextControl)
       ELSE /\ pc' = [pc EXCEPT !["control"] = "stop"]
            /\ UNCHANGED chain
    /\ UNCHANGED <<phase, activity, live, current, brokerVars, early, packet,
                   running, answer, flags, closed, ctlClosed, acks, td,
                   failures, blind>>

(* ... and after it: the session is ending, or the agent is stopped. *)
ControlDrained ==
    /\ pc["control"] = "drained"
    /\ IF ctlClosed
       THEN Answered /\ pc' = LeaveLock("control", NextControl)
       ELSE /\ pc' = [pc EXCEPT !["control"] = "stop"]
            /\ UNCHANGED <<chain, acks>>
    /\ UNCHANGED <<phase, activity, live, current, brokerVars, early, packet,
                   running, answer, flags, closed, ctlClosed, td, failures,
                   blind>>

(* runCycle after its wait for idle *)
RestartDrained ==
    /\ pc["restart"] = "drained"
    /\ pc' = IF closed THEN [pc EXCEPT !["restart"] = "none"]
             ELSE AskLock("restart")
    /\ UNCHANGED <<phase, activity, live, current, brokerVars, early, packet,
                   running, answer, flags, closed, ctlClosed, chain, acks, td,
                   failures, blind>>

(* swap(), once the lock is held *)
RestartLocked ==
    /\ pc["restart"] = "locked"
    /\ pc' = IF closed THEN LeaveLock("restart", "none")
             ELSE [pc EXCEPT !["restart"] = "stop"]
    /\ UNCHANGED <<phase, activity, live, current, brokerVars, early, packet,
                   running, answer, flags, closed, ctlClosed, chain, acks, td,
                   failures, blind>>
-----------------------------------------------------------------------------
(* The steps of a swap, the same for a restart, a clear and a reload, but   *)
(* for the environment a clear does not refetch.                            *)

(* teardown(): only the first call counts. *)
BeginTeardown ==
    IF td = "no" THEN td' = "restart" /\ closed' = TRUE
    ELSE UNCHANGED <<td, closed>>

(* A swap that fails: a restart ends the session, a control is answered.    *)
SwapFails(p) ==
    \/ /\ p = "restart"
       /\ BeginTeardown
       /\ pc' = LeaveLock(p, "none")
       /\ UNCHANGED <<chain, acks>>
    \/ /\ p = "control"
       /\ Answered
       /\ pc' = LeaveLock(p, NextControl)
       /\ UNCHANGED <<td, closed>>

(* The process has exited; the upload of its session_end may fail. *)
Stopped(p) ==
    /\ Quiet
    /\ pc[p] = "stop"
    /\ current' = "down"
    /\ live' = IF current = "up" THEN live - 1 ELSE live
    /\ \/ /\ pc' = [pc EXCEPT ![p] = "fetch"]
          /\ UNCHANGED <<td, closed, chain, acks>>
       \/ SwapFails(p)
    /\ UNCHANGED <<phase, activity, brokerVars, early, packet, running, answer,
                   flags, ctlClosed, failures, blind>>

(* The broker reads the instructions for the response. *)
ReadInstructions(p) ==
    /\ Quiet
    /\ pc[p] = "fetch"
    /\ pc' = [pc EXCEPT ![p] = "fetched"]
    /\ answer' = [answer EXCEPT ![p] = version["instructions"]]
    /\ UNCHANGED <<phase, activity, live, current, brokerVars, early, packet,
                   running, flags, closed, ctlClosed, chain, acks, td,
                   failures, blind>>

AfterInstructions(p) ==
    IF p = "control" /\ VerbOf[Head(chain)] = "clear" THEN "spawn" ELSE "resolve"

Refreshed(p, k) ==
    /\ packet' = [packet EXCEPT ![k] = answer[p]]
    /\ answer' = [answer EXCEPT ![p] = 0]
    /\ blind' = IF answer[p] = version[k] THEN blind \ {k} ELSE blind

Fetched(p) ==
    /\ Quiet
    /\ pc[p] = "fetched"
    /\ pc' = [pc EXCEPT ![p] = AfterInstructions(p)]
    /\ Refreshed(p, "instructions")
    /\ UNCHANGED <<phase, activity, live, current, brokerVars, early, running,
                   flags, closed, ctlClosed, chain, acks, td, failures>>

(* The refetch fails: a restart keeps itself armed for another attempt. *)
FetchFails(p) ==
    /\ Quiet
    /\ pc[p] \in {"fetch", "fetched"}
    /\ failures < MaxFailures
    /\ failures' = failures + 1
    /\ answer' = [answer EXCEPT ![p] = 0]
    /\ pc' = [pc EXCEPT ![p] = AfterInstructions(p)]
    /\ rearm' = (rearm \/ p = "restart")
    /\ UNCHANGED <<phase, activity, live, current, brokerVars, early, packet,
                   running, covered, closed, ctlClosed, chain, acks,
                   td, blind>>

ReadEnvironment(p) ==
    /\ Quiet
    /\ pc[p] = "resolve"
    /\ pc' = [pc EXCEPT ![p] = "resolved"]
    /\ answer' = [answer EXCEPT ![p] = version["environment"]]
    /\ UNCHANGED <<phase, activity, live, current, brokerVars, early, packet,
                   running, flags, closed, ctlClosed, chain, acks, td,
                   failures, blind>>

(* From here on a restart no longer covers what it hears. *)
Resolved(p) ==
    /\ Quiet
    /\ pc[p] = "resolved"
    /\ pc' = [pc EXCEPT ![p] = "spawn"]
    /\ Refreshed(p, "environment")
    /\ covered' = (covered /\ p # "restart")
    /\ UNCHANGED <<phase, activity, live, current, brokerVars, early, running,
                   rearm, closed, ctlClosed, chain, acks, td, failures>>

(* The environment is not fetched again until something else asks for it. *)
ResolveFails(p) ==
    /\ Quiet
    /\ pc[p] \in {"resolve", "resolved"}
    /\ failures < MaxFailures
    /\ failures' = failures + 1
    /\ answer' = [answer EXCEPT ![p] = 0]
    /\ pc' = [pc EXCEPT ![p] = "spawn"]
    /\ covered' = (covered /\ p # "restart")
    /\ blind' = blind \cup {"environment"}
    /\ UNCHANGED <<phase, activity, live, current, brokerVars, early, packet,
                   running, rearm, closed, ctlClosed, chain, acks, td>>

(* The successor's process is up; the adapter may still be handing it what  *)
(* was buffered.                                                            *)
SpawnUp(p) ==
    /\ Quiet
    /\ pc[p] = "spawn"
    /\ pc' = [pc EXCEPT ![p] = "greet"]
    /\ live' = live + 1
    /\ running' = packet
    /\ UNCHANGED <<phase, activity, current, brokerVars, early, packet, answer,
                   flags, closed, ctlClosed, chain, acks, td, failures, blind>>

(* Its session_start cannot be uploaded, or it cannot be spawned. *)
SpawnFails(p) ==
    /\ Quiet
    /\ pc[p] = "spawn"
    /\ SwapFails(p)
    /\ UNCHANGED <<phase, activity, live, current, brokerVars, early, packet,
                   running, answer, flags, ctlClosed, failures, blind>>

(* The end of a cycle: another one if this one was re-armed meanwhile. *)
RestartDone ==
    /\ Quiet
    /\ pc["restart"] = "greet"
    /\ current' = "up"
    /\ IF rearm /\ ~closed
       THEN /\ pc' = LeaveLock("restart", WaitForIdle)
            /\ rearm' = FALSE
            /\ covered' = TRUE
       ELSE pc' = LeaveLock("restart", "none") /\ UNCHANGED flags
    /\ UNCHANGED <<phase, activity, live, brokerVars, early, packet, running,
                   answer, closed, ctlClosed, chain, acks, td, failures, blind>>

ControlDone ==
    /\ Quiet
    /\ pc["control"] = "greet"
    /\ current' = "up"
    /\ pc' = LeaveLock("control", NextControl)
    /\ Answered
    /\ UNCHANGED <<phase, activity, live, brokerVars, early, packet, running,
                   answer, flags, closed, ctlClosed, td, failures, blind>>
-----------------------------------------------------------------------------
(* The agent exits on its own: watchExit ends the session, unless a         *)
(* coordinator is stopping that very process.                               *)
AgentExits ==
    /\ Quiet
    /\ current = "up"
    /\ ~Stopping
    /\ td # "agent"
    /\ current' = "down"
    /\ live' = live - 1
    /\ BeginTeardown
    /\ UNCHANGED <<phase, activity, brokerVars, early, packet, running, pc,
                   answer, flags, ctlClosed, chain, acks, failures, blind>>

(* SIGINT or SIGTERM *)
Signal ==
    /\ Quiet
    /\ phase = "running"
    /\ td = "no"
    /\ BeginTeardown
    /\ UNCHANGED <<phase, activity, live, current, brokerVars, early, packet,
                   running, pc, answer, flags, ctlClosed, chain, acks,
                   failures, blind>>

(* Slip: teardown does not wait for the cycle in flight. *)
RestartAbandoned ==
    /\ Quiet
    /\ td = "restart"
    /\ td' = "control"
    /\ ctlClosed' = TRUE
    /\ UNCHANGED <<phase, activity, live, current, brokerVars, early, packet,
                   running, pc, answer, flags, closed, chain, acks, failures,
                   blind>>

(* teardown: coordinator.settled(), then contextControl.close() *)
RestartSettled ==
    /\ Quiet
    /\ td = "restart"
    /\ pc["restart"] = "none"
    /\ td' = "control"
    /\ ctlClosed' = TRUE
    /\ UNCHANGED <<phase, activity, live, current, brokerVars, early, packet,
                   running, pc, answer, flags, closed, chain, acks, failures,
                   blind>>

(* contextControl.settled(): every chained control is answered *)
ControlSettled ==
    /\ Quiet
    /\ td = "control"
    /\ chain = << >>
    /\ td' = "agent"
    /\ UNCHANGED <<phase, activity, live, current, brokerVars, early, packet,
                   running, pc, answer, flags, closed, ctlClosed, chain, acks,
                   failures, blind>>

(* currentProc.shutdown(), and its exit *)
AgentShutDown ==
    /\ Quiet
    /\ td = "agent"
    /\ td' = "end"
    /\ current' = "down"
    /\ live' = IF current = "up" THEN live - 1 ELSE live
    /\ UNCHANGED <<phase, activity, brokerVars, early, packet, running, pc,
                   answer, flags, closed, ctlClosed, chain, acks, failures,
                   blind>>

(* finishRun uploads the session_end. When that fails, the promise teardown *)
(* returns is rejected: nothing after it runs, the runner is never shut     *)
(* down, and every later signal gets the same rejected promise. Else the    *)
(* runner drains and the summary is printed.                                *)
SessionEndSent ==
    /\ Quiet
    /\ td = "end"
    /\ td' \in {"drain", "rejected"}
    /\ UNCHANGED <<phase, activity, live, current, brokerVars, early, packet,
                   running, pc, answer, flags, closed, ctlClosed, chain, acks,
                   failures, blind>>

RunnerDown ==
    /\ Quiet
    /\ td = "drain"
    /\ td' = "done"
    /\ UNCHANGED <<phase, activity, live, current, brokerVars, early, packet,
                   running, pc, answer, flags, closed, ctlClosed, chain, acks,
                   failures, blind>>
-----------------------------------------------------------------------------
SwapStep(p) ==
    \/ Stopped(p)
    \/ ReadInstructions(p) \/ Fetched(p) \/ FetchFails(p)
    \/ ReadEnvironment(p) \/ Resolved(p) \/ ResolveFails(p)
    \/ SpawnUp(p) \/ SpawnFails(p)

RestartStep == RestartDrained \/ RestartLocked \/ SwapStep("restart") \/ RestartDone

ControlStep ==
    \/ ControlBegins \/ CompactEnds \/ ControlLocked \/ ControlDrained
    \/ SwapStep("control") \/ ControlDone

TeardownStep ==
    \/ RestartSettled \/ ControlSettled \/ AgentShutDown
    \/ SessionEndSent \/ RunnerDown

Next ==
    \/ \E k \in Kinds : Edit(k) \/ Hear(k)
    \/ \E c \in Controls : Handle(c)
    \/ FirstSpawn
    \/ TurnStarts \/ TurnEnds \/ Block \/ Unblock
    \/ RestartStep \/ ControlStep
    \/ AgentExits \/ Signal
    \/ TeardownStep

Spec == Init /\ [][Next]_vars

(* Fairness: the runner's own steps, whose awaits are each bounded by a     *)
(* timeout or a process exit. Nothing obliges a turn to end, nor a person   *)
(* to answer an agent that is blocked.                                      *)
FairSpec ==
    /\ Spec
    /\ WF_vars(FirstSpawn)
    /\ WF_vars(RestartStep) /\ WF_vars(ControlStep)
    /\ WF_vars(TeardownStep)
-----------------------------------------------------------------------------
(* The two coordinators and teardown share one agent process: never two     *)
(* alive at once, and none once the session has ended, whatever edits,      *)
(* controls, exits and signals cross (withLifecycleLock, settled()).        *)
OneAgent ==
    /\ live <= 1
    /\ td \in {"end", "drain", "done", "rejected"} => live = 0

(* The broker is owed one outcome for every control it pushes: never two    *)
(* ("every path out of handle() emits exactly one").                        *)
AnsweredOnce == \A c \in Controls : acks[c] <= 1

(* The session is up with nothing in flight. *)
AtRest ==
    /\ phase = "running" /\ td = "no" /\ current = "up"
    /\ pc["restart"] = "none" /\ chain = << >>
    /\ \A k \in Kinds : unheard[k] = 0

(* However edits, failed refetches, clears and reloads interleave, an agent *)
(* at rest runs on the latest version of each kind, except for what the     *)
(* runner heard between the broker's answer and the end of the refetches,   *)
(* or whose environment refetch failed.                                     *)
OnlyBlindEditsAreLost ==
    AtRest => \A k \in Kinds : running[k] = version[k] \/ k \in blind

(* If the agent keeps coming to rest, every control that reaches the        *)
(* coordinator is answered in the end (handle(), settled()).                *)
ComesToRest == []<>(activity = "idle")

ControlsAreAnswered ==
    ComesToRest => \A c \in Controls :
        (\E i \in DOMAIN chain : chain[i] = c) ~> acks[c] = 1

(* If the agent keeps coming to rest, a session asked to end ends, whatever *)
(* cycle, control or swap teardown has to wait for, unless the broker       *)
(* refuses the last session_end: teardown is then rejected for good.        *)
SessionEnds ==
    ComesToRest /\ [](td # "rejected") => (td # "no" ~> td = "done")

(* "A signal ends the session; so does the agent exiting on its own"        *)
(* (agent-session.ts, over the wait loop): if the agent keeps coming to     *)
(* rest, a session asked to end ends.                                       *)
AskedToEndEnds == ComesToRest => (td # "no" ~> td = "done")
=============================================================================
