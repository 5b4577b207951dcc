# commandsuite: a verification project

TLA+ models of the parts of commandsuite (`csuite`) where order, concurrency and
failure decide whether the system is correct, checked by TLC on small instances
and, where marked, proved by TLAPS for every instance. Paths below are relative
to the repository root (`packages/...`, `apps/...`).

commandsuite is a command-and-control plane for a team of people and AI agents.
A *broker* (`packages/core`, hosted by `apps/server`) owns the team's state and
fans messages out over WebSockets. A *runner* (`packages/cli`) wraps an agent's
own CLI (claude, codex), feeds it what the broker sends, and restarts it when
what it was started with changes. Both are single-threaded Node programs: what
interleaves is what happens between two `await`s, plus the network, timers and
the two processes' deaths. SQLite calls are synchronous, so a statement or a
`runInTransaction` block is one atomic, durable step.

## 1. Inventory

### Broker

| Component | State | Operations | Hard part | What must hold |
|---|---|---|---|---|
| Message disposition ledger (`core/src/message-delivery.ts`) | one durable row per (message, member); in-memory set of released owners | track, settle, releaseOwner, pending, expire, markUnreported, recovery at start | leases against disconnects, stale frames, expiry and restarts | one holder, an outcome decided once by whoever may, every row settles |
| Broker (`core/src/broker.ts`) | subscriptions, runner conditions, open turns, blocked tokens | push, subscribe, disposition, runnerCondition, runnerTurn, blockTokens, two sweeps | redelivery loops across awaits, several runners of one member | nothing passed over, leases reassigned, refusals reported truly |
| WebSocket route, sweep timer (`core/src/app.ts`) | sockets | onOpen, onMessage, onClose, interval | frames after unsubscribe | as above |
| Server process (`apps/server/src/run.ts`) | up, draining, down | start, drain, stop | crash between two steps | durable state recovers |
| External notifications (`core/src/notifications/`) | endpoints, deliveries, pending queue | verify, dispatch, debounce, queue, flush, expire, recover | pending rows deleted before dispatch; status written from a stale read | what says pending is being dealt with and settles, no target is told more often than it is named |
| Device enrollment (`core/src/enrollments.ts`, routes in `app.ts`) | one row per device code | mint, approve, reject, poll, purge | approval across an await, single-use consumption | a token reaches at most one device, none is orphaned |
| Tokens (`core/src/sqlite-token-store.ts`) | hashes, revocation | insert, revoke, rotate | a token is inserted and handed out in different steps | each belongs to somebody |
| Objectives (`core/src/objectives.ts`) | objectives, events, watchers | create, update, complete, cancel, reassign, watchers | route checks before an await, three transactions in one PATCH | only participants act, terminal is final, log matches state |
| Members, team, channels, instructions, variables, secrets, files, sessions | rows | synchronous CRUD | little: one statement per call | local consistency |
| Event log, activity, telemetry, gen-AI capture, diagnostics, capture health | append-only tables and derived reports | append, query, retain | volume, not order | bounded retention |
| Web Push, tool sources, MCP client | outbound calls | best effort | third parties | out of scope |

### Runner

| Component | State | Operations | Hard part | What must hold |
|---|---|---|---|---|
| Session driver (`cli/src/runtime/agent-session.ts`) | current agent, cached packets, teardown flag | spawn, swap, watchExit, teardown | restart, controls, exits and signals cross | one agent at a time; a session asked to end ends |
| Restart coordinator (`restart.ts`) | in-flight cycle, covered, rearm, closed | request, runCycle, swap, close, settled | edits that land during a refetch | no edit lost |
| Context control (`context-control.ts`) | promise chain, closed | handle, compact, clear, reload, close, settled | one outcome for each control on every path | answered exactly once |
| Activity signal (`trace/busy.ts`) | busy handles, blocked flag | begin, end, setBlocked, waitForIdle | several waiters for one edge | everybody is woken |
| Forwarder (`forwarder.ts`) and channel sinks (claude, codex) | stream generation, receipts, frames that wait, buffered events, the receipts of each turn | forward, accept, settle, bundle, steer, reconnect, tear down | answers and notifications in any order, receipts of an old stream, wakeups between flushes | a receipt says what its turn showed, none is stranded, nothing buffered is forgotten |
| Activity uploader (`trace/activity-uploader.ts`), auth recovery | bounded queue, in-flight batch, backoff, auth block | enqueue, flush, block, close | requeue against the cap, joined flushes, close | accounting adds up, no double loss |
| Adapters, readers, printers, HUD, commands, tools | mostly none | | formats | out of scope |

How they interact: a push enters the broker (REST, or an objective, channel or
notification), is appended to the event log, tracked in the ledger and written
to sockets. The runner's forwarder hands messages to the agent's channel sink
and answers with disposition frames; instructions, environment and
context-control events go to the session driver instead. The runner reports
`ready`/`degraded` conditions and turns, which decide who may be sent work.
PROJECT.json lists every component with its status, and the hazards at their
lines.

## 2. Plan

1. **Done.** `MessageLease` (abstract promise), `MessageDelivery` (ledger, broker,
   sockets, process), `AgentSession` (driver, coordinators, teardown), and their
   proofs. These two carry the product's central promises: a message to an agent
   is neither lost nor decided twice, and one agent runs, on the current context.
2. **Done.** `Enrollment`: the device flow across the broker's routes, the stores
   and the polling device, and its proofs.
3. **Done.** `Notifications`: dispatcher and store, statement by statement, and its
   proofs. (A status that only advances, first planned as the abstract
   specification, is not what the code keeps: see section 8.)
4. **Done.** `ActivityUploader` with auth recovery and shutdown; the abstract
   specification `TraceOutbox` is a lossy outbox that keeps its order; its proofs.
5. **Done for codex.** `RunnerStream` (forwarder, client socket and what the broker
   keeps for one subscription) and, on it, `CodexSeat` (wrapper, sink, adapter),
   and its proofs. Left: the claude sink on the same stream, and `RunnerStream` composed with
   `MessageDelivery`, so that several runners of one member are each a seat.
6. **Done.** `Objectives`: store transactions under the routes' check-then-act,
   publication and the runner's copy, and its proofs.
7. **Done.** More proofs: both refinements step by step, and every invariant and
   action property that a passing run checks. What is planned in 5 comes with
   proofs of its own.

Modules meant for proofs have no RECURSIVE operator, name their assumptions on
constants, and have one action for each operation.

## 3. Message delivery

`MessageDelivery.tla` models the ledger together with everything that changes
it. A row is a record `row[<<m, n>>]`: its stored state (`st`, `owner`), whether
it is in the table (`kept`), the in-memory released owners, and, as a history,
whose frame decided it (`by`). The other variables are the broker's maps (`conn`,
`cond`, `turns`, `revoked`), what a handler that is awaiting still has to do
(`pushing`, `resend`, `owed`), the durable log (`appended`), what was written to
each socket (`got`), and time reduced to two facts (`late`: 24 hours since the
push; an `overdue` turn: eight hours since its start).

| Code | Actions |
|---|---|
| `broker.push` before and after `eventLog.append` | `PushAppend`, `PushDeliver` (with `SelectedRunner`, `FanoutReaches`) |
| WebSocket `onOpen`, `onClose` | `Subscribe`, `Close`, `CloseDrained` |
| `ledger.settle` for a disposition frame | `Accept`, `Defer`, `Settle` (who may: `MaySettle`) |
| the refusal fact pushed after a refusal or an expiry | `NotifySender` |
| `runnerCondition`, `runnerTurn` | `ConditionReady`, `ConditionDegraded`, `TurnStarted`, `TurnCompleted` |
| `sweepOpenTurnBackstops`, `sweepMessageDeliveries` | `SweepOpenTurns`, `SweepExpired` |
| token revoke route, `blockTokens` | `BlockToken` |
| one turn of `redeliverPending`'s loop | `ResendOne` |
| shutdown signal, process end or crash, new process | `Shutdown`, `Halt`, `Restart` |
| the clock | `Age`, `AgeTurn` |

A handler that awaits is split at the await and what it holds in memory becomes
state, so a row may be settled, expired or leased between the steps of a
redelivery, and everything a handler holds is lost at `Halt`. Where the code
takes "the first" of a `Set`, the model leaves the order open.

`MessageLease.tla` is the abstract specification: what is promised of one
message for one member. `KeepsPromise` is its `Spec` under a refinement mapping
(`Promise == INSTANCE MessageLease WITH ...`): every step of the broker is a
step of the promise or changes nothing of it.

Properties:

- `LeaseOwnerIsLive`: a running server's lease belongs to a live subscription of
  the addressed member which was sent the message.
- `NotPassedOver`: while the member has a ready runner, an open message has been
  sent or is being sent to some runner of the member.
- `ReassignedAtOnce` (action property): a lease taken from a subscription that
  stays connected goes, in the same step, into a redelivery to a ready one.
- `KeepsPromise` (refinement): one holder; decided once; by the holder or, with
  no holder, by a client without the lease protocol that has lost no lease on it.
- `RefusalNoticesAreTrue`: a refusal fact is pushed only for a message that ended
  refused, and once.
- `EveryMessageSettles` (liveness).

Runs (module `MCMessageDelivery`; the configuration's prefix names the instance):

| Run | Instance | Shows |
|---|---|---|
| `DeliveryPair` | 2 lease-holding runners of bob on tokens of their own, 1 message, 1 turn, 2 starts | `LeaseOwnerIsLive`, `ReassignedAtOnce` |
| `DeliveryMixed` | one runner of each generation (lease-holding, acknowledging, legacy) of bob, 1 message from alice, 1 turn, 2 starts, fair | `RefusalNoticesAreTrue`, `NotPassedOver`, `KeepsPromise`, `EveryMessageSettles` |
| `DeliverySenderTold` | 1 runner, 2 messages, 2 starts | refutes `SenderIsTold` |

Bounds. Rows of different messages meet only in the sweep, in `NotifySender` and
in a redelivery's set, which is per row, so the passing runs have one message; two
messages are in `DeliverySenderTold`, where the sweep refuses both. Leases are
contested by two owners and reassigned to one other (in `DeliveryPair` of the same
kind, in `DeliveryMixed` of different ones); a third runner of the same kind adds
no new case. `TypeOK` is proved (section 10). One restart separates "before",
"during" and "after" a process' life.
`MaxStarts` is the only bound on a counter.

Fairness (`FairSpec`). Time passes (`Age`); the sweep runs every five seconds
while the server is up; a draining process ends and a stopped one is started
again. Nothing is assumed of runners, so `EveryMessageSettles` holds with no
runner ever answering. A server that is restarted for ever before the sweep runs
is excluded by `MaxStarts`.

Disagreements with the documentation:

- *One runner receives* (comment at `core/src/broker.ts:440`): a runner whose
  first `ready` arrives while another ready one holds an unaccepted message is
  sent it too (`broker.ts:622` redelivers all that is pending): in the model
  `ConditionReady` adds the message to `resend` whoever else has been sent it. The
  lease then lets only one of them act; the other has read it all the same. No run
  is kept for it.
- *The sender is told* (`docs/concepts/presence.mdx:145`): the refusal is
  committed before the fact is pushed, and nothing records that the fact is owed,
  so a process that ends in between leaves the sender untold.

## 4. Agent session

`AgentSession.tla` models one runner session: the two coordinators as program
counters (`pc["restart"]`, `pc["control"]`), each value standing for one `await`,
the lifecycle lock (`Holds`, `AskLock`, `LeaveLock`), the activity signal, the
number of agent processes alive, and teardown (`td`), also one value for each
await. Edits at the broker are version counters: a refetch is split into the
broker's reading (`ReadInstructions`) and the response's arrival (`Fetched`), so
an event may be heard in between. Continuations of settled promises run before
the next macrotask in Node; the predicate `Quiet` gives them that priority.

| Code | Actions |
|---|---|
| `restart.ts` `request`, `runCycle`, `swap` | `Hear`/`Request`, `RestartDrained`, `RestartLocked`, `SwapStep("restart")`, `RestartDone` |
| `context-control.ts` `handle`, `run`, `runClear`, `runReload` | `Handle`, `ControlBegins`, `CompactEnds`, `ControlLocked`, `ControlDrained`, `SwapStep("control")`, `ControlDone` |
| the swap's awaits (`agent-session.ts`) | `Stopped`, `ReadInstructions`, `Fetched`, `FetchFails`, `ReadEnvironment`, `Resolved`, `ResolveFails`, `SpawnUp`, `SpawnFails` |
| first spawn, `watchExit`, signals | `FirstSpawn`, `AgentExits`, `Signal` |
| `teardown` | `BeginTeardown`, `RestartSettled`, `ControlSettled`, `AgentShutDown`, `SessionEndSent`, `RunnerDown` |
| `trace/busy.ts` | `TurnStarts`, `TurnEnds`, `Block`, `Unblock`, `Woken`, `WaitForIdle` |

Properties:

- `OneAgent`: never two agents alive, none once the session has ended.
- `AnsweredOnce`: no control has two outcomes; `ControlsAreAnswered`: one comes.
- `OnlyBlindEditsAreLost`: at rest the agent runs on the latest version of each
  kind, except for what was heard in the window between the broker's reading and
  the end of the refetches, or whose environment refetch failed (`blind`).
- `SessionEnds`: a session asked to end ends, whatever cycle, control or swap its
  teardown has to wait for, unless the teardown is rejected. Without that exception
  the property is `AskedToEndEnds`, and false (below).

Runs (module `MCAgentSession`): `AgentSession` has a control of each verb, one
edit of each kind and one failed refetch; `SessionHangs` has none of them and refutes
`AskedToEndEnds`. `TypeOK` is proved (section 10).
One control of each verb gives every pair that can queue behind each other, an
edit of each kind meets each of them, and one failure is enough to leave each
refetch's error path taken once; `MaxEdits` and `MaxFailures` bound the counters.

Fairness. The runner's own steps are fair: each await ends by a process exit, a
response or a timeout. A turn need not end and a blocked agent need not be
answered, so the liveness properties assume `ComesToRest`, that the agent is
idle again and again; `trace/busy.ts` caps the age of busy handles, but nothing
caps `blocked`.

Disagreements with the documentation:

- *Requests that land after the refetch re-arm* (`restart.ts:33`): `covered` is
  cleared only after both refetches (`restart.ts:229`), so an instructions event
  between the broker's reading and that point is swallowed. This is the first of
  the exceptions that `OnlyBlindEditsAreLost` names (`blind`); without it the
  property does not hold.
- *A signal ends the session; so does the agent exiting* (comment at
  `agent-session.ts:701`), and *a summary on every exit path*
  (`docs/runners/overview.mdx:62`): `finishRun` is awaited unguarded in `teardown`
  (`agent-session.ts:428`). When the upload of `session_end` fails (`SessionEndSent`
  has both outcomes), the promise of the teardown is rejected before the runner
  drains and before the summary is printed. The wait at line 707 has no path for a
  rejection, so it never ends; the process's handler of unhandled rejections logs
  and goes on, and every later signal gets the same rejected promise. `SessionHangs`
  shows the session that stays.

Not modelled here: a first spawn that fails (the verb exits), signals forwarded to
a headless child, `--no-trace`, `CSUITE_NO_ENV_RELOAD`, and the adapters, which
appear as spawn and shutdown. An agent told to shut down is assumed to exit: the
claude adapter escalates to SIGKILL, the codex adapter sends SIGTERM.

## 5. Device enrollment

`Enrollment.tla` models one row of `pending_enrollments` for each device code
(`row`), the tokens that approvals issue (`tokens`; a token is named by its
approval), the member names (`members`), each approval request by the await it
stands at (`req`), the revocation a handler is about to do (`doomed`), and the
device: how it fares (`dev`), its loop and the answer on its connection (`poll`),
the token it has read (`held`), and polls it gave up on that may still reach the
broker (`strays`). `old` says that an enrollment's five minutes are over. `sent`,
`lost` and `denied` are histories.

| Code | Actions |
|---|---|
| `POST /enroll` and `mint` | `Mint` |
| `POST /enroll/approve`: up to the await of the token's hash; the insert; `approve()` and the rollback | `BeginApproval`, `InsertToken`, `Grant`, `RevokeDoomed` |
| `POST /enroll/reject` | `Reject` |
| `POST /enroll/poll`, `pollByDeviceCode` | `HandlePoll` (`Outcome`, `Consume`), `WithdrawOrphan` for a member that is gone |
| `DELETE` of a member, of a token | `RemoveMember`, `RevokeToken` |
| the loop of `csuite connect` | `Sleep`, `Ask`, `Answer`, `GiveUp`, `Cancel`, `Blip` |
| process end, new process with `purgeExpired` | `Halt`, `Restart` |
| the clock | `Age` |

The insert of a token and the statement after it run without another handler in
between (`Quiet`), but the process may end between them. Creating a member and
binding an existing one differ only in whether the name is there, so one action
covers both. `slow_down` is an `authorization_pending` with a longer sleep.

Properties:

- `SentOnce`: a token leaves the broker in one answer at most.
- `OneDecision`: of the approvers and the rejection of one code one prevails.
- `TokensAreAccountedFor`: a token is with somebody, or was lost in one of the
  ways recorded in `lost`: sent to a device that was not listening or could not
  save it, left in a row that expired, or caught by the end of the process.
- `ExpiryIsExplained`: a device is told "expired" early only after a decision
  whose answer was lost or whose token was withdrawn.
- `DevicesStop` (liveness): every `csuite connect` ends.

Runs (module `MCEnrollment`): `Enrollment` has one device, two approvals, a name
that exists and one that does not, one restart and two network errors. Devices
share nothing but members, so one shows every interaction; two approvals race,
two errors give a stray poll and a lost answer to the same device. `MaxStarts`
and `MaxBlips` bound the counters. Fairness: time passes, handlers finish, the
device's loop goes on, a stopped broker starts again; nobody need approve or
reject. `TypeOK` is proved (section 10).

Disagreement with the documentation:

- *`approve` is false if the row is expired* (`core/src/enrollments.ts:443`): the
  statement asks for the status only, and the route's own expiry check lies
  before an await. The approver sees success, the next poll deletes the row.

Not modelled: rate limits, the pending list, token rotation, members created by
other routes, statements that throw. `purgeExpired` runs at start only
(`run.ts:589`), whatever its comment says of a periodic reaper; an expired row
that is never polled therefore stays until the next start.

## 6. Trace upload

`ActivityUploader.tla` models how what an agent does reaches the broker's record:
the queue and the batch on the wire (`queue`, `batch`, `post`), the two timers,
the counters behind the capture summary, the recovery from a rejected credential
(`blocked`, `watching`, `probe`, `lastProbed`, the token the client sends and the
saved one), the session's wait for its own events (`session`, `awaited`), and the
shutdown of the runner (`phase`). The broker is what it accepts (`valid`) and what
it has stored (`landed`, in the order of its rows). A batch whose answer is lost is
sent again, and the broker tells a repeated event by its source id alone
(`core/src/member-activity.ts:160`): events read from a transcript have one
(`keyed`), the session's own events and the control markers do not and are stored
once more.

| Code | Actions |
|---|---|
| `enqueue` | `Enqueue` (`Overflow`, `Admit`, `MaySchedule`) |
| `enqueueImmediate` of the capture host, `flush` | `EnqueueImmediate`, `FlushContinues` |
| the timers of `scheduleFlush` and of `runFlush`'s backoff | `FlushTimerFires`, `BackoffFires` |
| `runFlush` to its await, and its three ways to go on | `StartPost`, `PostAnswered`, `PostFails`, `PostRefused` |
| a 401 on any request, `handleUnauthorized` | `PostRefused`, `OtherAnswered`, `HandleUnauthorized` |
| `probe` of the auth recovery, `setAuthBlocked(false)` | `ProbeSent`, `ProbeAnswered`, `ProbeFails`, `Unblock` |
| `shutdown` of the runner, `close` | `ShutdownBegins`, `CloseBegins`, `CloseDrains`, `CloseEnds` |
| the broker, the member's new enrollment | `BrokerHandles`, `Reenrolled`, `TokenSaved` |

A backoff timer that is armed while another one is (the session's flush does not
wait for a backoff) overwrites its handle, and the lost one can be cleared by
nobody: `backoffs` counts the timers, `backoffTimer` says whether there is a
handle. `Quiet` gives continuations of settled promises priority, as in section 4.

`TraceOutbox.tla` is the abstract specification. Events are in hand until they are
acknowledged or lost. The broker is told of the oldest ones, as often as it takes,
and stores those it cannot recognise; only what has landed is acknowledged, and
what is lost never lands; a control marker may be filed ahead. So an event with a
source id lands once and in order, and any other is repeated only while its
acknowledgement is outstanding, behind nothing younger that was acknowledged. Queue,
batch, timers and credentials vanish in the mapping, which takes as in hand what
is in the batch or the queue. What is left of a sequence when
some elements are taken out is `Excluding` of `EventSequences`: `SelectSeq` written
as a recursive function, which a proof can unfold. TLC checks in
`MCActivityUploader` that the two agree (`ExcludingIsSelectSeq`).

Properties:

- `AllAccountedFor`: offered = uploaded + dropped + queued + on the wire.
- `OvershootIsBounded`: `enqueue` calls the cap hard, but a failed batch is put back
  without a look at it and the queue has meanwhile filled up. The excess is a
  batch at most, and one marker.
- `ClosedForGood` (action property): nothing of the run reaches the broker after
  `close()` returned, not even from a backoff timer nobody can clear.
- `ImplementsOutbox` (refinement): order kept, nothing resurrected, and nothing stored
  twice but an event without a source id whose answer was lost, whatever is retried,
  refused, evicted or stored without an answer. A broker that does not look at source
  ids breaks it.
- `EarlyOnlyBehindBacklog` (action property): the host says that `enqueueImmediate`
  waits "until the broker has acknowledged the batch" (`host.ts:114`). It waits for
  one batch; its event is in that batch unless a full batch of older events is.
  This takes a batch no larger than the queue's cap, as the defaults are
  (`activity-uploader.ts:56`: 50 and 1000).
- `BacklogDrains` (liveness): no wake-up is lost between timers, backoff and block.
- `CloseReturns` (liveness).

Runs (module `MCActivityUploader`): `TraceUpload` has two captured events besides the
markers and the recovery's own, a queue and a batch of two, one event with a source
id, one the session waits for and one re-enrolment: enough for a full queue behind a
full batch on the wire, an eviction, a requeue above the cap, a batch that is stored
again in part, a marker, and a recovery while closing (176,000 states). With a third
captured event there are 988,000 states, in which the same properties hold.
`MaxEvents`, `MaxAsks` and `MaxToken` bound the counters; `MaxKeyed` bounds the events
with a source id, and once `MaxRepeats` rows are repeats no further answer is lost.
Fairness: timers fire, the broker answers or the request fails, promises continue.
`BacklogDrains` assumes besides that requests stop failing at last.
`TraceRecovery` refutes `RecoversAfterReenrolment`.

A defect: `auth-recovery.ts:49` marks the saved token as probed before it is tried,
and a probe that merely gets no answer does not take the mark back. The runner
then stays blocked, with a valid token, until it is enrolled once more. The same
happens when a 401 for a request sent with the old token arrives after the
recovery.

Not modelled: the byte caps beside the counts, delays of timers, peaks. The
session's flushes are awaited one by one and precede the shutdown
(`agent-session.ts`), so `close()` never meets one that throws.

## 7. Objectives

`Objectives.tla` models one objective: its row and audit log (`row`, `log`), the
requests that have read the row and await their bodies (`req`), the events a
handler publishes behind itself (`outbox`), and the tracker of one member's
runner (`timer`, `fetch`, and `plate`, its copy). Each logged event records whom
it was pushed to (`told`, a history).

| Code | Actions |
|---|---|
| `POST /objectives`, `create` | `Create` (`Created`) |
| `PATCH`, `complete`, `cancel`: up to the await of the body | `ReadPatch`, `ReadComplete`, `ReadCancel` |
| `PATCH` behind it: `reassign`, `updateWatchers`, `update` | `Patch` (`Reassigned`, `Watched`, `Updated`) |
| `complete` and `cancel` behind it | `Complete`, `Cancel` (`Ended`) |
| a malformed body, a gate, an unknown member | `Refuse` |
| `publishObjectiveEvent`, `objectiveThreadMembers` | `Publish` (`Thread`); `PublishFails`, when the push throws |
| `POST` whose attachment cannot be copied behind `create` | `CreateFails` |
| the process ends before an event is published | `Halt` |
| `objectives-tracker.ts`, `onRefresh` of the runner, `GET /objectives` | `TimerFires`, `ReadList`, `Refresh`, `FetchFails` |

A store call is an operator from the row to the new row and the events it
appends, so that a PATCH is their composition, with the row of its caller's read
where the code uses that one (the gates, and whether it reassigns at all) and the
current row where the store reads again. Events go out in microtasks, before any
other handler (`Quiet`). A push may throw: the broker refuses a body with what looks
like a credential in it (`broker.ts:315`), and the body has the title, the outcome, the
result or the reason; the event is then dropped (`lost`, a history). How long one
travels to the runner is part of its debounce timer.

Properties:

- `TerminalIsFinal` (action property): what is done or cancelled stays so, whatever
  requests read it before.
- `LogExplainsRow`: assignee, status and watchers follow from the log.
- `HandoversKeepTheThread`: who hands an objective over stays in its thread until
  removed by name.
- `CompletedByItsHolder` (action property): an objective is completed by its
  assignee, or by a member it was taken from while the completion awaited its body.
- `LastWordReachesThem`: the last event about a member reaches that member, even
  when the same request has taken the member out of the thread.
- `SilenceIsExplained`: an event that is not published is one whose push threw, which
  the end of the process caught, or of a create that failed behind its transaction
  (`lost` has these); or it belongs to the watchers' part of a PATCH that was then
  refused. It says that there is no further way to be silent.
- `PlateIsTrue`, and `PlateConverges` (liveness): with nothing on its way the
  runner's copy is right, unless its last refetch was swallowed or failed, or news
  for its member were dropped since (`excused`), and it comes to that.

Run (module `MCObjectives`): `Objectives` has three members (originator,
assignee, the next one), two requests, one end of the process and one push or create
that fails (842,000 states): two requests are what a race needs, and three members
one handover with a bystander.
`Followers` bounds the first watchers; `MaxRequests`, `MaxHalts` and `MaxLost` the
counters (once `MaxLost` events are lost no further push or create fails).
Fairness: microtasks run, timers fire, lists are answered.

Where the code and its comments differ:

- *Watchers see every status change* (`docs/concepts/objectives.mdx:93`): when the push
  of an event throws, `publishObjectiveEvent` logs a warning (`core/src/app.ts:4349`)
  and nobody is told, the assignee included (`PublishFails`).
- *If any copy fails, the whole create surfaces the error*, for a clean retry
  (comment at `app.ts:4505`): the objective has been stored by then. It stays, active
  and assigned, announced to nobody, and the retry makes another one
  (`CreateFails`).
- *Applied atomically-enough* (`core/src/app.ts:4548`): a PATCH that changes
  watchers and the status of an objective that is over has changed the watchers
  when it answers 409, and publishes nothing. `SilenceIsExplained` names the case.
- *Assignee only* (`app.ts:4644`): the assignee is looked at before the body is
  awaited and not again; `CompletedByItsHolder` names the case.
- The tracker drops the event whose timer fires while a refetch is under way
  (`objectives-tracker.ts:55`) and does not repeat a failed refetch: the copy is
  stale until the next event. `excused` records it.

Not modelled: attachments (but for the copy that fails), discussion posts, a statement
of the store that throws, the block reason (a change of the reason alone is stored
without an event).

## 8. External notifications

`Notifications.tla` models the path of an event from one endpoint's hook to its
targets: the receipts (`row`), the durable queue for members who are offline or
busy (`queue`), the debounce buffer (`buffer`), the messages pushed and what the
ledger awaits for them (`sent`), and what the dispatcher sees of members (`conn`,
`act`). A handler runs to its end before another starts, since all it awaits
settles in microtasks, but it is many durable statements. `todo` lists those it
has still to do; each step does one, and `Halt` forgets the rest. The one real
await lies in the hook's route, between looking up the endpoint and `ingest`
(`hook`). `excuse` is a history: a delivery that the end of the process or the
deletion of the endpoint caught, or whose key came again after its receipt had
been retired.

| Code | Actions |
|---|---|
| `POST /hooks/:slug` up to its await; `ingest` behind it | `Ask`; `Duplicate`, `Accept`, `Filter`, `Reject` |
| `replay` | `Replay` |
| `insertDelivery` with `trimDeliveries` | `Insert` (`Trimmed`, `TrimQueue`), in the four above |
| `runPipeline` | `Pipeline` |
| debounce timer, `flushDebounce` | `FlushDebounce` |
| `onWake`, `onActivityReport`, `sweep` | `Wake`, `ReportWorking`, `ReportResting`, `SweepExpired`, `SweepStarved` |
| `deletePending`; a turn of `dispatchGroup`'s loop; `updateDelivery` | `DeletePending`, `DispatchTarget`, `UpdateDelivery` |
| the ledger's outcomes, `onMessageDisposition` | `Disposition` |
| connections, lapsing reports | `Attach`, `Detach`, `Lapse` |
| `DELETE` of the endpoint; process end; new process with `recover` | `DeleteEndpoint`, `Halt`, `Restart` |

A push may fail (`DispatchTarget`): `pushMessage` logs what the broker throws, and the
loop goes on. Messages are seen through the ledger of section 3: open for a recipient
until it acts or refuses, or until the 24 hours are over (`EveryMessageSettles`).

Properties:

- `PendingIsHeld`: a receipt that says `pending` is in the buffer, in the queue, or
  has a message in the ledger's hands; else `excuse` says why.
- `QueueIsTrue`: nothing waits for what has already happened, and what waits is there.
- `OncePerTarget`: a delivery goes to a target at most once for each time that the
  endpoint names it, however the provider repeats itself and whatever flushes find
  it. Nothing keeps an endpoint from naming a target twice (`resolveTargets`,
  `core/src/app.ts:3743`; a channel's slug and its id come to the same); it is then
  told twice, and `dispatchGroup` queues two rows for it.
- `ReceiptsSettle` (liveness): no receipt stays `pending` for ever, with the same
  exceptions, and one: a message that went to a runner without the disposition protocol.

Run (module `MCNotifications`): `Notifications` has three setups (`Setups`), two
requests or replays and one end of the process. Two deliveries are what a
coalesced group, a full buffer and a queue with two rows need; the second setup
has a member and a channel as targets and clients of every generation, the third
one member named twice (346,000 states).
`DebounceMax` is 2, so that a buffer is flushed early; `MaxAsks` and `MaxHalts`
bound the counters. Fairness: statements of a running handler follow, a stopped
broker starts again, and each timer fires (strongly, as handlers come in between);
nothing is assumed of members and providers.

Where the code and the documentation differ:

- *Nothing is lost across restarts* (`docs/concepts/external-notifications.mdx`, of
  `if-offline: queue`): a flush deletes the row before it dispatches
  (`dispatcher.ts:405`), and a receipt is inserted before it is dispatched, with
  the provider's retry then taken for a duplicate. `excuse` records both. And
  `recover` runs before any runner has reconnected, so that what was in the
  debounce buffer is dropped under the policy `drop`.
- *Statuses* (`sdk/src/types.ts:1244`): `delivered` is said to mean that a message
  was pushed to a target, but follows an acknowledgement; each recipient's outcome
  overwrites the receipt, so that one refusal turns `delivered` into `dropped`
  (`dispatcher.ts:362`); `expired` is also set while another target has its message.
- A message that a runner without the disposition protocol takes leaves its receipt
  `pending` for ever.

Not modelled: the rate limit, signatures and rendering, edits of an endpoint,
profiles and secrets, deleted members, several endpoints (a
flush handles them one after the other), endpoints without a deduplication
header. A graceful `stop()` is a `Halt`. Rejected receipts only take up room.

## 9. A runner that drives codex

`RunnerStream.tla` models one runner's stream to the broker and what the broker
keeps for its subscription, as one record (`stream`): at the runner the open
stream and its generation, the frames that wait for a stream (`pend`) and each
receipt's `acceptedGeneration` (`acc`); between the two the socket (`link`, `down`);
at the broker the member's ledger rows, the condition and the open turns. What
the runner does to a receipt or reports of itself is an *act*, and an operator that
performs acts maps a stream to a stream: a handler of the sink performs all of its
acts in one step, as the code does. Section 3 has the broker in full, with other
runners, expiry and crashes; here the member has this runner only.

`CodexSeat.tla` builds on it the wrapper that outlives an agent (`attached`,
`early`), the live sink with what the adapter tells it (`seat`), the teardown of an
agent (`stage`), and codex's app-server with the lines it has written (`codex`,
`out`). The app-server is a third party: it does what the adapter's handlers and
their comments expect of it, and the map marks it external. `shown`, `ends` and
`actedIn` are histories of what the agent saw and did; `late`, `cut` and
`lost` record the receipts that joined a turn already over, those of each turn that
went with their sink, and those that took a lease for a turn the broker has not open.
Before the first connection the code drops a report of being degraded, as there is no
stream to send it on; the model keeps it for the first stream.

| Code | Actions and operators |
|---|---|
| `sendDisposition`, `sendControl`, `flushPendingFrames`, `receiptFor` | `Performed`, `Sent`, `Opened`; `Accepted`, `Settled` |
| the loop of `runForwarder`, `subscribeReliable` | `Subscribe` (`Connect`), `Forward`, `LoopEnds`, `LoseLink` |
| broker: `push`, `disposition`, `runnerCondition`, `runnerTurn`, the backstop | `PushMessage`, `HearAccepted`, `HearSettled`, `HearCondition`, `HearTurn`, `SweepTurn` |
| the sink: `deliver`, `scheduleFlush`, `flush`, `dispatchOnce` to its request | `Delivered`, `Timer`, `Flushed`, `Dispatched` |
| `dispatchOnce` behind its request, with the retry of a lost steer | `Continue` (`Answered`, `Registered`, `Joined`, `Retried`) |
| `turnStarted`, `acted`, `turnCompleted`, `applyStatus`, the `error` handler | `ReadLine` (`OnStarted`, `OnActed`, `OnCompleted`, `OnStatus`) |
| spawn and `attach`; `detach` and `teardown` with `rpc.close` | `Spawn`; `Stop`, `StopTurn`, `Close` |

Lines that arrive in one read are handled together, and the continuation of an
answered request runs after all of them; every other task of the runner waits for
it (`Quiet`). So a `turn/started`, or the end of the turn, may be handled before
the continuation of the `turn/start` that caused it, but no timer is.

Properties, with the exceptions the code makes:

- `HandledWasShown`: what is settled as handled was in the input of a turn that did
  not fail, what is settled as acted in one that used a tool, across steers,
  retries, reconnects and agents.
- `ReceiptsReachTheirTurn`: a receipt kept for a turn is kept for one that will
  still be heard of. Exception: `late`, an answer handled when its turn is over.
- `LeasesHaveAnExit`: an accepted message has its receipt in a turn of the agent
  that is still to end, also when the broker has swept that turn. When an agent is
  replaced in mid-turn and the interrupt's answer is read before the turn's end,
  nobody settles what the turn held (`cut`): that is an ordinary restart, and the code
  leaves it to the broker, whose sweep gives the lease back eight hours after the
  turn's start. The property demands that the broker has the turn open then. Two
  exceptions remain, where the lease stays until the runner reconnects or degrades,
  or the message expires: `late`, and `lost`, a lease taken on a stream renewed
  during or after the teardown, on which the turn was never reported.
- `SettlementsLand` (action property): settled on a live stream is settled at the
  broker, also after a reconnect in mid-turn has given the lease back. Exceptions:
  a runner held for degraded (below), and an earlier copy of the message.
- `BufferIsDue`: what is buffered has a timer, a waiting flush, or a change of status
  still to come.

Runs (module `MCCodexSeat`). `CodexSeat`: one message in at most three copies, three
turns, two connections, one failure (an error, a failed request or turn, or a turn
swept), two agents. Three turns allow a start, a retried steer and the successor's
turn; the second connection gives a reconnect in mid-turn. One message in several
copies reaches every branch of a flush, since copies are events of their own (501,000
states). The same
properties hold in three further instances, too slow or too alike to keep: two
messages with two turns on one connection (487,000 states), the same on two
connections without failures (690,000), and one message on three connections
(6,400,000). `MaxMsgs` to `MaxSpawns` bound the counters: a further copy is not
taken, a further turn is refused, the last connection is not lost, the last agent
is not stopped. The run checks safety, so nothing is assumed fair in it.

`CodexRecovery` refutes `DegradedMeansUnable` under `FairSpec`: what is due in the
runner happens, and codex answers, ends its turns and recovers. The bounds leave each
side finitely much to do, so one weak fairness condition for each is enough; nothing
makes anybody fail or stop an agent.

Where the code and the documentation differ:

- *Degraded means unable* (`docs/concepts/presence.mdx:88`): an `error` notification
  degrades the runner even if codex retries by itself (`adapter.ts:618`), and only
  a turn's start, a new agent or a reconnect reports it ready again. No message is
  sent to a degraded runner, so none starts a turn: an idle, healthy codex gets
  nothing until it is restarted or reconnects. A failed turn does the same.
- A runner that is degraded in mid-turn loses its leases while its stream stays.
  The receipt's generation is unchanged, so it does not ask again, and its
  settlement is refused: a message that was handled is delivered once more when
  the runner is next ready. `SettlementsLand` names the case.
- The retry of a steer that finds an active turn without an id lets its events go
  (`channel-sink.ts:237`), neither deferred nor buffered, where each of its other
  branches does one or the other; the rows stay pending until the next `ready`.

Not modelled: messages the forwarder settles by itself, event hooks, presence, the
backoff's length, the runner's own re-briefs (they have no receipt), compaction, the
readers and printers, an `initialize` that fails, an app-server that dies by
itself, and a broker that notices a lost socket only after the next one has opened.

## 10. Proofs

Checked by TLAPS for every value of the constants that satisfies `ConstantsOK`,
`SessionConstantsOK`, `EnrollmentConstantsOK`, `UploaderConstantsOK`,
`ObjectiveConstantsOK`, `NotificationConstantsOK`, `StreamConstantsOK` and
`SeatConstantsOK`, which TLC evaluates in the runs. Only
`EarlyAnswersHaveABacklog` takes a further hypothesis, `MaxBatch <= MaxQueue`.
Most inductive invariants were first checked by TLC on the instance of a run, which
found the parts that were missing or false. Each proof has one step for each action, and operators over sequences
(plans, acts, logs) have lemmas of their own.

### Messages

- `MessageDeliveryProofs!TypeCorrect`: `TypeOK` is inductive by itself.
- `MessageDeliveryProofs!LeasesHaveLiveOwners`: `LeaseOwnerIsLive`. By itself it
  is not inductive: it says nothing of a draining server, whose unsubscribed
  sockets may still be granted leases, and a restarted one would inherit them.
  The proof takes `TypeOK` and `SocketsFollowServer` (a server that is up has no
  half-closed socket, one that is down has none at all) as known, then goes
  action by action: acceptance needs a frame from a live socket that got the
  message; unsubscribing, degrading and blocking release what the leaver owned
  (`ReleaseKeepsOthers`); recovery at start leaves no lease at all.
- `MessageDeliveryProofs!LedgerKeepsPromise` (`KeepsPromise`): from `LedgerInv`. It
  adds `LedgerRow`, what relates the columns of a row (an owner exactly while it is
  accepted, of the addressed member and of the lease protocol; only a terminal row
  has been decided), and `RowsFollowPush` (a row is untouched until its push
  runs, so that tracking is the promise's first step). Each action of the broker
  maps to a step of `MessageLease` or to a stutter; one that releases leases maps to
  `LetGo` of exactly the rows that change (`ReleasedBy`), whoever the leaver is.
- `MessageDeliveryProofs!RefusalNoticesHold` (`RefusalNoticesAreTrue`): a fact is owed
  by the handler that committed the refusal, once, and a refused row never changes.
- `MessageDeliveryProofs!NothingIsPassedOver` (`NotPassedOver`): the property speaks of
  some ready runner, and is inductive only for every one of them
  (`EveryReadyIsServed`): each ready runner of a member has what awaits that member,
  or a redelivery loop is to give it, unless some runner has it. This rests on
  `StateOfLiveOnly` (no condition or turn outlives its subscription).
- `MessageDeliveryProofs!LeasesAreReassigned` (`ReassignedAtOnce`): the steps that
  release a lease are few, and each starts a redelivery in the same statement.

### The agent's session

- `AgentSessionProofs!SessionTypeCorrect` and `SessionHasOneAgent`: from the
  inductive `SessionInv`, five named parts. `LockInv`: the lock has one holder.
  `ChainInv`: the control coordinator is at work exactly when a control is
  chained. `LiveInv`: the current agent is down during a swap, and the live
  processes are the current one and the successors being greeted. `TeardownInv`:
  what teardown is past is closed and at rest. `OneAgent` follows: two agents
  would need two parties in a swap, or a swap with the current agent up. Types
  need the same invariant, since `live - 1` and `Tail(chain)` must stay in range.
- `AgentSessionProofs!ControlsAnsweredOnce` (`AnsweredOnce`): `AckInv`, that a
  control is chained once and not answered while it is.
- `AgentSessionProofs!EditsReachTheAgent` (`OnlyBlindEditsAreLost`): `FreshInv` says
  of each kind of edit why a version that the runner lacks is not forgotten
  (`Accounted`: its event is on the way, a restart is re-armed or has yet to read, or
  the answer in hand has it, or else the edit is `blind`), what an answer in hand is
  worth (`AnswersInv`), that the agent has the cached packets (`SpawnInv`), and when
  the coordinator's flags may be cleared (`FlagsInv`).

### Device enrollment

- `EnrollmentProofs!EnrollmentTypeCorrect`: with `TokensNamed`, since `lost` must
  collect tokens and not the absence of one.
- `EnrollmentProofs!TokenSentOnce` and `OneDecisionAlways`: from the inductive
  `DecisionInv`. `GrantedRows`: whoever is granted a code finds its row approved
  or deleted, and is the only one. `DeniedRows`: a rejected row is never granted.
  `ApprovedRows`: the token in an approved row has not been sent. `FreshRows`: only
  minted rows expire or are deleted. A grant needs a pending row, which by these
  parts has neither grant nor denial; sending deletes the row, so the token is in
  no row again.
- `EnrollmentProofs!TokensAlwaysAccountedFor`: from `CustodyInv`, which adds
  `HandsFree`: a device that still polls holds no token, so no answer overwrites
  one.
- `EnrollmentProofs!EarlyExpiryExplained` (`ExpiryIsExplained`): `ExpiryInv` follows
  the answer that carried a decision: a row gone before its time was decided on
  (`RowEnded`), and that answer is on the connection, was read, was a stray or is
  lost (`Explained`); what explains an expiry is never undone (`Grows`).

### Trace upload

- `ActivityUploaderProofs!UploadsAddUp`, `QueueStaysBounded` and
  `ClosedUploaderIsSilent`: from one inductive invariant. The accounting holds step
  by step but needs the types of the counters and of the sequences; the bound
  needs `OneBatch` (a batch never exceeds `MaxBatch`, so a requeue adds at most
  that) and that a marker is filed only on the way into the block; silence needs
  `NothingStarts` (a closed uploader has no batch on the wire, no flush timer and
  no session waiting), which a backoff timer without a handle threatens: it fires,
  and `MaySchedule` turns it away.
- `ActivityUploaderProofs!UploaderKeepsPromise` (`ImplementsOutbox`): every action is
  one of a few moves of what is in hand, batch and queue together (`Arrives`,
  `TurnedAway`, `Marks`, `Lands`, `Settles`, `Finishes`, or none), and each move is a
  step of `TraceOutbox`. The invariant `TraceInv` adds that what the broker has
  stored of a batch on the wire is on record (`StoredHasLanded`, so that only what has
  landed is acknowledged), that every event bears a number given out and is in hand
  once (`Named`), and how many numbers can be given out
  (`Counted`: at most one marker for each time the credential is blocked), so that
  the outbox's set of events is never exceeded.
- `ActivityUploaderProofs!EarlyAnswersHaveABacklog` (`EarlyOnlyBehindBacklog`): while
  the session waits for its event, that event is in hand, and in the batch whose end
  it waits for, or a full batch is ahead of it.

### Objectives

- `ObjectivesProofs!TerminalForGood`, `CompletedByAHolder`,
  `HandoversAlwaysKeepTheThread`, `SilenceAlwaysExplained` and
  `ObjectivesTypeCorrect`: `Change` says what a store call may make of a row and
  which events it owes for that; it is closed under composition (`Compose`), each
  call satisfies it (`ReassignedChanges` to `EndedChanges`), hence so does a whole
  PATCH (`PatchChanges`), for any number of members and requests. The inductive
  invariant adds `EndInLog` (what is over has its end in the log: why a refused
  PATCH is recognised), `Holders` (a waiting completion is the assignee's or was
  taken from it since) and `OutboxInLog`.
  For the silences, an event that is not published waits in the outbox, is in `lost`,
  which only grows, or stands behind an end in the log (`Silences`).
- `ObjectivesProofs!LogAlwaysExplainsRow` (`LogExplainsRow`): `StoryTold`. What follows
  from a log is stated once, for any kind of event that puts the row into a set of
  rows and any that takes it out (`Follows`); assignee, status and watchers are three
  instances, and each store call tells the whole difference it makes (`Story`).
- `ObjectivesProofs!LastWordAlwaysReaches` (`LastWordReachesThem`): whom a published
  event names has been told of it or of a later one (`LastWords`), since a member
  leaves the thread only by an event that names it.
- `ObjectivesProofs!PlateStaysTrue` (`PlateIsTrue`): something is coming that makes
  the tracker look again or excuses it (`Coming`: a push that throws for a member in the
  thread does), or what it has read, or else its copy, agrees
  with the row (`Plates`).

### External notifications

- `NotificationsProofs!QueueStaysTrue` and `NotificationsTypeCorrect`: between the
  statements of a handler `QueueIsTrue` is false: a runner has attached, and its
  rows are taken one by one. The inductive invariant says what holds instead:
  `StaleIsTaken` (a row whose wait is over is among those the running handler is
  about to take), `GoodPlan` (what it has planned concerns receipts that are there,
  and only its first statement takes rows), `QueueHolds`, and `DownIsEmpty` (no
  handler and no connection in a process that has ended, so that `Halt` makes no
  row stale).
- `NotificationsProofs!SentOncePerTarget` (`OncePerTarget`): a plan records last what it
  sent (`Shaped`); for each delivery and target, the sends that are done, waiting in the
  queue and planned are together no more than the endpoint's mentions of the target
  (`Room`), and what is buffered has none yet (`OnceFor`). A turn of the loop that
  queues a row, or whose push fails, uses up its mention all the same. Nothing is
  assumed of the endpoint's targets.
- `NotificationsProofs!PendingStaysHeld` (`PendingIsHeld`): between statements a
  pending receipt may be held by the running handler alone; `HoldInv` says that its
  plan then still ends in recording it, and that what the dispatch has sent so far is
  there to be recorded (`LocalIsTrue`).

### A runner that drives codex

`CodexSeatProofs`, and `CodexSeatLanding` for its last theorem. A handler performs its acts one after the other in one step; a
lemma for each operator says what it does to a sink and a stream of the right type,
and what the acts do follows by going through them (`Through`). `Typed` comes with
`OneReply`: a request of the sink is answered once, so that a continuation never
meets the request of another.

- `ReceiptsAlwaysReachTheirTurn` (`ReceiptsReachTheirTurn`): with `TurnsAreFollowed`,
  that the end of the turn the sink is in, and of one whose start it has yet to read,
  is still to come.
- `BufferIsAlwaysDue` (`BufferIsDue`): `DueInv` says what each stage of a teardown may
  still have (`StagesInv`), that a sink which takes codex for active will hear
  otherwise (`StatusIsTold`), and what a flush leaves to the timer, to the flush
  behind it or to that status (`SettledIn`, `WaitsIn`).
- `HandledWasAlwaysShown` (`HandledWasShown`): `HonestInv` follows a settlement through
  the places it may wait in: in every frame that waits or is on the wire (`HonestNet`)
  and every receipt a turn holds (`HonestSeat`) the claim is true already, a line
  says how its turn ended (`HonestLine`), and a turn ends once (`EndsOnce`).
- `LeasesAlwaysHaveAnExit` (`LeasesHaveAnExit`): leases are held on a live stream only,
  for messages whose receipt is in a turn, went with the sink of one, or is among the
  exceptions, and the acts that wait for a stream leave no other (`LeasedNet`). On a
  live stream the turn has to be one that the broker has open (`On`), so each report
  that a turn has ended must come with the settlement of what the turn held, and a
  sink may be torn down only while its turn stays open there (`CutsAreOver`: no later
  report touches that turn). That a turn's end settles what it has been given needs,
  besides, that a turn starts once and with nothing in it (`StartsOnce`,
  `TurnsStartEmpty`), that a steer is answered before its turn is forgotten
  (`SteersAnswered`), and that a sink torn down holds nothing.
- `CodexSeatLanding!SettlementsAlwaysLand` (`SettlementsLand`): only the reader takes
  the end of a turn off the output (`EndIsReadBy`), and then each act of the handler
  leaves the broker's row decided, or the lease of the receipt to be settled in place
  (`AllSettle`). That the lease is in place is the invariant `LandInv`, on top of all
  those above. `LineOrder`: turns end once and in order, and the sink is in the turn
  whose start it has read and whose end it has not. `PlacedInv` follows the copies of
  a message: those in the request and the buffer are in the order of their making
  (`Queued`), the last copy of a message is untouched while it waits (`Unaccepted`) and
  waits in one place (`Awaits`), and once a turn still to end has it, it `Lands`: on a
  live stream it has the lease, the message is decided, the receipt will ask again
  because the generation is a later one, or the runner is held for degraded; among
  the acts that wait for a stream none gives the lease back, and none degrades the
  runner to be made ready again, behind its acceptance (`Landing`).

### What stays with TLC

The liveness properties, since they rest on fairness and ENABLED and so are out of
the prover's reach: `EveryMessageSettles`, `ControlsAreAnswered`, `SessionEnds`,
`DevicesStop`, `BacklogDrains`, `CloseReturns`, `PlateConverges` and
`ReceiptsSettle`. The violation runs refute their properties on the instances given.

The prover has no induction theorem that takes a predicate, and it cannot unfold
`SelectSeq` or the folds of the community modules. Where a model needs such an
operator it is a recursive function of its own, and what it computes is proved from
the least index at which a claim would fail (`Climbs`).

## 11. What is not modelled

Besides the planned modules: pure parsers and formatters, CRUD that is one
synchronous statement for each call, terminal output and start-up I/O, the web
front end, and third parties. Reasons are given for each component in
PROJECT.json. Within the modelled parts: presence and activity projections, the
history query, the Web Push hand-off, and the wording of answers and reasons.

## 12. Running it

    tlc -config DeliveryPair.cfg MCMessageDelivery.tla
    tlc -config AgentSession.cfg MCAgentSession.tla
    tlc -config Enrollment.cfg MCEnrollment.tla
    tlc -config TraceUpload.cfg MCActivityUploader.tla
    tlc -config Objectives.cfg MCObjectives.tla
    tlc -config Notifications.cfg MCNotifications.tla
    tlc -config CodexSeat.cfg MCCodexSeat.tla
    tlapm MessageDeliveryProofs.tla
    tlapm AgentSessionProofs.tla
    tlapm EnrollmentProofs.tla
    tlapm ActivityUploaderProofs.tla
    tlapm ObjectivesProofs.tla
    tlapm NotificationsProofs.tla
    tlapm CodexSeatProofs.tla
    tlapm CodexSeatLanding.tla

Operators introduced by a comment that begins with "Slip" are variants of the
definition that follows them, with a plausible mistake; each breaks one property
and is used by nothing. PROJECT.json pairs them.
