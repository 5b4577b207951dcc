---------------------------- MODULE ActivityUploader ----------------------------
(***************************************************************************)
(* The runner's activity uploader (packages/cli/src/runtime/trace/         *)
(* activity-uploader.ts) and the recovery from a rejected credential       *)
(* (packages/cli/src/runtime/auth-recovery.ts), with what drives them: the *)
(* adapters that enqueue events, the session that enqueues its lifecycle   *)
(* events and waits for each, the broker, which may answer late, lose an   *)
(* answer or refuse the token, and the shutdown of the runner.             *)
(*                                                                         *)
(* A step is what runs between two awaits of I/O or timers; Quiet gives    *)
(* continuations of a settled promise precedence over timers and answers,  *)
(* as the event loop does. An event is known by its number. The caps are   *)
(* counts: the byte caps beside them only bind earlier. A timer is armed   *)
(* or not, whatever its delay.                                             *)
(***************************************************************************)
EXTENDS Integers, FiniteSets, SequencesExt, EventSequences

CONSTANTS
    MaxQueue,    \* maxQueueEvents
    MaxBatch,    \* maxBatchEvents
    MaxToken,    \* bound: how often the member is enrolled again
    MaxEvents,   \* bound: events captured or asked for
    MaxAsks,     \* bound: those of them the session waits for
    MaxKeyed,    \* bound: those of them that carry a source id
    MaxRepeats   \* bound: rows stored again; then no more answers are lost

ASSUME UploaderConstantsOK ==
    /\ MaxQueue \in Nat \ {0} /\ MaxBatch \in Nat \ {0}
    /\ MaxToken \in Nat /\ MaxEvents \in Nat /\ MaxAsks \in Nat
    /\ MaxKeyed \in Nat /\ MaxRepeats \in Nat

VARIABLES
    queue, batch,    \* the queue, and the events on the wire
    post,            \* how far the upload is, and the token it carries
    flushTimer,
    backoffTimer,    \* whether a backoff timer's handle is held
    backoffs,        \* backoff timers armed, those without a handle included
    uploaded, dropped,
    session,         \* the session task: what its enqueueImmediate awaits,
    awaited,         \* and the event it is about
    phase, before,   \* the runner's shutdown; the queue at close's last try
    blocked,         \* of the recovery and of the uploader, always set alike
    lastProbed, watching, probe,
    token,           \* the token the client sends
    saved,           \* the token in the runner's saved device auth
    other,           \* the token of another request of the runner, or NoToken
    valid,           \* the token the broker accepts
    keyed,           \* events that carry a source id
    landed,          \* the broker's record, in the order of its rows
    offered,         \* events so far, markers included
    captured, asks   \* bounded by MaxEvents and MaxAsks

uploadVars == <<queue, batch, post, flushTimer, backoffTimer, backoffs,
                uploaded, dropped, offered>>
authVars == <<blocked, lastProbed, watching, probe, token>>
runVars == <<session, awaited, phase, before>>
worldVars == <<saved, other, valid, keyed, landed, captured, asks>>
vars == <<uploadVars, authVars, runVars, worldVars>>

Tokens == 0 .. MaxToken
NoToken == MaxToken + 1

closed == phase \in {"closing", "closed"}
inFlight == batch # <<>>

TypeOK ==
    /\ queue \in Seq(1 .. offered) /\ batch \in Seq(1 .. offered)
    /\ post \in [at : {"idle", "sent", "stored", "refused"},
                 token : Tokens]
    /\ (post.at = "idle") <=> ~inFlight
    /\ flushTimer \in BOOLEAN /\ backoffTimer \in BOOLEAN
    /\ backoffs \in Nat
    /\ backoffTimer => backoffs > 0
    /\ uploaded \in Nat /\ dropped \in Nat
    /\ session \in {"idle", "settling", "posting"}
    /\ phase \in {"up", "stopping", "closing", "closed"}
    /\ awaited \in 0 .. offered /\ before \in Nat
    /\ blocked \in BOOLEAN /\ watching \in BOOLEAN
    /\ lastProbed \in Tokens /\ token \in Tokens
    /\ probe \in BOOLEAN
    /\ saved \in Tokens /\ valid \in Tokens
    /\ other \in Tokens \cup {NoToken}
    /\ landed \in Seq(1 .. offered) /\ keyed \subseteq 1 .. offered
    /\ offered \in Nat
    /\ captured \in 0 .. MaxEvents /\ asks \in 0 .. MaxAsks

Idle == [at |-> "idle", token |-> 0]

Init ==
    /\ queue = <<>> /\ batch = <<>> /\ post = Idle
    /\ flushTimer = FALSE /\ backoffTimer = FALSE
    /\ backoffs = 0
    /\ uploaded = 0 /\ dropped = 0
    /\ session = "idle" /\ awaited = 0 /\ phase = "up" /\ before = 0
    /\ blocked = FALSE /\ lastProbed = 0 /\ watching = FALSE
    /\ probe = FALSE /\ token = 0
    /\ saved = 0 /\ other = NoToken /\ valid = 0
    /\ keyed = {} /\ landed = <<>>
    /\ offered = 0 /\ captured = 0 /\ asks = 0

-----------------------------------------------------------------------------
(* The queue.                                                              *)

(* How many of the oldest events give way to one more.                     *)
Overflow(q) ==
    IF Len(q) + 1 > MaxQueue THEN Len(q) + 1 - MaxQueue ELSE 0

Admit(q, e) == Append(SubSeq(q, Overflow(q) + 1, Len(q)), e)

(* takeBatch: what goes on the wire, and what stays.                       *)
BatchSize(q) == IF Len(q) < MaxBatch THEN Len(q) ELSE MaxBatch
Taken(q) == SubSeq(q, 1, BatchSize(q))
Rest(q) == SubSeq(q, BatchSize(q) + 1, Len(q))

(* Slip: a failed batch is not put back.                                   *)
RequeueNothing(q) == q

(* A failed batch goes back to the head, whatever the cap says.            *)
Requeue(q) == batch \o q

(* Slip: scheduleFlush does not look at closed.                            *)
MayScheduleClosed(wire, backing, auth) == ~wire /\ ~backing /\ ~auth

(* scheduleFlush does nothing while an upload or a backoff is under way,   *)
(* after close, or while the credential is blocked.                        *)
MaySchedule(wire, backing, auth) == ~wire /\ ~closed /\ ~backing /\ ~auth

(* clearTimeout of the backoff timer whose handle is held.                 *)
BackoffCleared == IF backoffTimer THEN backoffs - 1 ELSE backoffs

(* runFlush up to its await.                                               *)
StartPost(q) ==
    /\ batch' = Taken(q)
    /\ queue' = Rest(q)
    /\ post' = [at |-> "sent", token |-> token]

(* Continuations of a settled upload run before timers and answers.        *)
Quiet == inFlight \/ (session = "idle" /\ phase # "closing")

(* enqueue, from the adapters, the transcript reader and the objective     *)
(* notes. Only an event read from a transcript names its source record;    *)
(* the session's own events and the markers never do.                      *)
Enqueue ==
    /\ Quiet /\ captured < MaxEvents
    /\ captured' = captured + 1 /\ offered' = offered + 1
    /\ IF closed
          THEN /\ dropped' = dropped + 1
               /\ UNCHANGED <<queue, flushTimer, keyed>>
          ELSE /\ queue' = Admit(queue, offered')
               /\ \/ UNCHANGED keyed
                  \/ Cardinality(keyed) < MaxKeyed /\ keyed' = keyed \cup {offered'}
               /\ dropped' = dropped + Overflow(queue)
               /\ flushTimer' = (flushTimer
                                 \/ MaySchedule(inFlight, backoffTimer, blocked))
    /\ UNCHANGED <<batch, post, backoffTimer, backoffs, uploaded, authVars,
                   runVars, saved, other, valid, landed, asks>>

(* Slip: an upload on the wire is joined in place of one of its own.       *)
JoinImmediate ==
    /\ Quiet /\ phase = "up" /\ session = "idle"
    /\ captured < MaxEvents /\ asks < MaxAsks
    /\ captured' = captured + 1 /\ asks' = asks + 1 /\ offered' = offered + 1
    /\ awaited' = offered'
    /\ dropped' = dropped + Overflow(queue)
    /\ flushTimer' = FALSE
    /\ session' = "posting"
    /\ IF inFlight
          THEN queue' = Admit(queue, offered') /\ UNCHANGED <<batch, post>>
          ELSE StartPost(Admit(queue, offered'))
    /\ UNCHANGED <<backoffTimer, backoffs, uploaded, authVars, phase,
                   before, saved, other, valid, keyed, landed>>

(* enqueueImmediate of the session: enqueue, then a flush that throws. An  *)
(* upload on the wire is awaited first. A blocked credential or a backoff  *)
(* does not hold it up.                                                    *)
EnqueueImmediate ==
    /\ Quiet /\ phase = "up" /\ session = "idle"
    /\ captured < MaxEvents /\ asks < MaxAsks
    /\ captured' = captured + 1 /\ asks' = asks + 1 /\ offered' = offered + 1
    /\ awaited' = offered'
    /\ dropped' = dropped + Overflow(queue)
    /\ flushTimer' = FALSE
    /\ IF inFlight
          THEN /\ session' = "settling"
               /\ queue' = Admit(queue, offered')
               /\ UNCHANGED <<batch, post>>
          ELSE /\ session' = "posting"
               /\ StartPost(Admit(queue, offered'))
    /\ UNCHANGED <<backoffTimer, backoffs, uploaded, authVars, phase,
                   before, saved, other, valid, keyed, landed>>

(* The upload the session waited for has settled: its own goes out.        *)
FlushContinues ==
    /\ session = "settling" /\ ~inFlight
    /\ IF queue = <<>>
          THEN /\ session' = "idle" /\ awaited' = 0
               /\ UNCHANGED <<queue, batch, post>>
          ELSE /\ session' = "posting" /\ awaited' = awaited
               /\ StartPost(queue)
    /\ UNCHANGED <<flushTimer, backoffTimer, backoffs, uploaded, dropped,
                   offered, authVars, phase, before, worldVars>>

(* The flush timer fires; with an upload on the wire it only joins it.     *)
FlushTimerFires ==
    /\ Quiet /\ flushTimer
    /\ flushTimer' = FALSE
    /\ IF inFlight \/ queue = <<>>
          THEN UNCHANGED <<queue, batch, post>>
          ELSE StartPost(queue)
    /\ UNCHANGED <<backoffTimer, backoffs, uploaded, dropped, offered,
                   authVars, runVars, worldVars>>

(* A backoff timer fires. One whose handle was overwritten fires as well   *)
(* and drops the handle of the later one.                                  *)
BackoffFires ==
    /\ Quiet /\ backoffs > 0
    /\ backoffs' = backoffs - 1
    /\ backoffTimer' = FALSE
    /\ flushTimer' = (flushTimer \/ MaySchedule(inFlight, FALSE, blocked))
    /\ UNCHANGED <<queue, batch, post, uploaded, dropped, offered, authVars,
                   runVars, worldVars>>

-----------------------------------------------------------------------------
(* The upload on the wire.                                                 *)

(* Slip: the insert has no conflict clause.                                *)
BrokerStoresAll ==
    /\ Quiet /\ post.at = "sent"
    /\ IF post.token = valid
          THEN landed' = landed \o batch /\ post' = [post EXCEPT !.at = "stored"]
          ELSE post' = [post EXCEPT !.at = "refused"] /\ UNCHANGED landed
    /\ UNCHANGED <<queue, batch, flushTimer, backoffTimer, backoffs,
                   uploaded, dropped, offered, authVars, runVars, saved,
                   other, valid, keyed, captured, asks>>

(* The broker handles the request: it stores the batch as rows, but for    *)
(* the events whose source id it has stored already, or refuses the token. *)
BrokerHandles ==
    /\ Quiet /\ post.at = "sent"
    /\ IF post.token = valid
          THEN /\ landed' = landed \o Excluding(batch, ToSet(landed) \cap keyed)
               /\ post' = [post EXCEPT !.at = "stored"]
          ELSE post' = [post EXCEPT !.at = "refused"] /\ UNCHANGED landed
    /\ UNCHANGED <<queue, batch, flushTimer, backoffTimer, backoffs,
                   uploaded, dropped, offered, authVars, runVars, saved,
                   other, valid, keyed, captured, asks>>

(* The session's flush settles with its own upload.                        *)
SessionSettles ==
    IF session = "posting"
       THEN session' = "idle" /\ awaited' = 0
       ELSE UNCHANGED <<session, awaited>>

(* The answer arrives.                                                     *)
PostAnswered ==
    /\ post.at = "stored"
    /\ uploaded' = uploaded + Len(batch)
    /\ batch' = <<>> /\ post' = Idle
    /\ flushTimer' = (flushTimer \/ (queue # <<>>
                                     /\ MaySchedule(FALSE, backoffTimer, blocked)))
    /\ SessionSettles
    /\ UNCHANGED <<queue, backoffTimer, backoffs, dropped, offered,
                   authVars, phase, before, worldVars>>

(* Events stored more than once count for each time but the first.         *)
Repeats == Len(landed) - Cardinality(ToSet(landed))

(* The request or its answer is lost, or the broker fails. The new backoff *)
(* timer takes the handle of one that is armed already.                    *)
PostFails ==
    /\ inFlight
    /\ post.at = "stored" => Repeats < MaxRepeats
    /\ queue' = Requeue(queue)
    /\ batch' = <<>> /\ post' = Idle
    /\ IF blocked
          THEN UNCHANGED <<backoffTimer, backoffs>>
          ELSE backoffTimer' = TRUE /\ backoffs' = backoffs + 1
    /\ SessionSettles
    /\ UNCHANGED <<flushTimer, uploaded, dropped, offered, authVars, phase,
                   before, worldVars>>

-----------------------------------------------------------------------------
(* The credential.                                                         *)

(* Slip: every 401 files a marker, not only the first.                     *)
HandleUnauthorizedAgain(q) ==
    /\ watching' = TRUE
    /\ blocked' = TRUE
    /\ flushTimer' = FALSE
    /\ backoffTimer' = FALSE /\ backoffs' = BackoffCleared
    /\ IF closed
          THEN q = queue /\ UNCHANGED offered
          ELSE offered' = offered + 1 /\ q = <<offered'>> \o queue

(* handleUnauthorized: the first 401 stops the timers and files a marker   *)
(* ahead of the queue, later ones only keep the watch going.               *)
HandleUnauthorized(q) ==
    /\ watching' = TRUE
    /\ blocked' = TRUE
    /\ IF blocked
          THEN /\ q = queue
               /\ UNCHANGED <<flushTimer, backoffTimer, backoffs, offered>>
          ELSE /\ flushTimer' = FALSE
               /\ backoffTimer' = FALSE /\ backoffs' = BackoffCleared
               /\ IF closed
                     THEN q = queue /\ UNCHANGED offered
                     ELSE offered' = offered + 1 /\ q = <<offered'>> \o queue

(* A 401 reaches the upload: the client tells the recovery first, so that  *)
(* the batch goes back in front of the marker.                             *)
PostRefused ==
    /\ post.at = "refused"
    /\ \E q \in {queue, <<offered + 1>> \o queue} :
           HandleUnauthorized(q) /\ queue' = Requeue(q)
    /\ batch' = <<>> /\ post' = Idle
    /\ SessionSettles
    /\ UNCHANGED <<uploaded, dropped, lastProbed, probe, token, phase,
                   before, worldVars>>

(* Another request of the runner: the stream, the relay, a tool call.      *)
OtherSent ==
    /\ Quiet /\ other = NoToken /\ phase = "up"
    /\ other' = token
    /\ UNCHANGED <<uploadVars, authVars, runVars, saved, valid, keyed,
                   landed, captured, asks>>

OtherAnswered ==
    /\ Quiet /\ other # NoToken
    /\ other' = NoToken
    /\ IF other = valid
          THEN UNCHANGED <<queue, flushTimer, backoffTimer, backoffs,
                           offered, blocked, watching>>
          ELSE \E q \in {queue, <<offered + 1>> \o queue} :
                   HandleUnauthorized(q) /\ queue' = q
    /\ UNCHANGED <<batch, post, uploaded, dropped, lastProbed, probe, token,
                   runVars, saved, valid, keyed, landed, captured, asks>>

(* The member is enrolled again: its old token is revoked.                 *)
Reenrolled ==
    /\ Quiet /\ valid < MaxToken
    /\ valid' = valid + 1
    /\ UNCHANGED <<uploadVars, authVars, runVars, saved, other, keyed,
                   landed, captured, asks>>

(* The device auth of the runner is replaced by the new token.             *)
TokenSaved ==
    /\ Quiet /\ saved # valid
    /\ saved' = valid
    /\ UNCHANGED <<uploadVars, authVars, runVars, other, valid, keyed,
                   landed, captured, asks>>

(* probe(), up to its await: a saved token other than the last one probed  *)
(* is taken over and tried once.                                           *)
ProbeSent ==
    /\ Quiet /\ watching /\ blocked /\ ~probe
    /\ saved # lastProbed
    /\ lastProbed' = saved /\ token' = saved
    /\ probe' = TRUE
    /\ UNCHANGED <<uploadVars, blocked, watching, runVars, worldVars>>

(* Slip: setAuthBlocked(false) schedules nothing.                          *)
UnblockOnly ==
    /\ blocked' = FALSE /\ watching' = FALSE
    /\ offered' = offered + 1
    /\ IF closed
          THEN dropped' = dropped + 1 /\ UNCHANGED queue
          ELSE /\ queue' = Admit(queue, offered')
               /\ dropped' = dropped + Overflow(queue)
    /\ UNCHANGED flushTimer

(* setAuthBlocked(false) behind the recovered event: uploads are scheduled *)
(* again.                                                                  *)
Unblock ==
    /\ blocked' = FALSE /\ watching' = FALSE
    /\ offered' = offered + 1
    /\ IF closed
          THEN dropped' = dropped + 1 /\ UNCHANGED queue
          ELSE /\ queue' = Admit(queue, offered')
               /\ dropped' = dropped + Overflow(queue)
    /\ flushTimer' = (flushTimer
                      \/ (queue' # <<>> /\ MaySchedule(inFlight, backoffTimer, FALSE)))

(* The broker answers the probe. A refusal reaches handleUnauthorized too. *)
ProbeAnswered ==
    /\ Quiet /\ probe
    /\ probe' = FALSE
    /\ IF token = valid
          THEN Unblock
          ELSE watching' = TRUE
               /\ UNCHANGED <<queue, dropped, flushTimer, offered, blocked>>
    /\ UNCHANGED <<batch, post, backoffTimer, backoffs, uploaded,
                   lastProbed, token, runVars, worldVars>>

(* The probe gets no answer: the saved token counts as probed all the same.*)
ProbeFails ==
    /\ Quiet /\ probe
    /\ probe' = FALSE
    /\ UNCHANGED <<uploadVars, blocked, watching, lastProbed, token,
                   runVars, worldVars>>

-----------------------------------------------------------------------------
(* Shutdown.                                                               *)

(* shutdown() begins: the session is over, the watch for tokens ends.      *)
ShutdownBegins ==
    /\ Quiet /\ phase = "up" /\ session = "idle"
    /\ phase' = "stopping"
    /\ watching' = FALSE
    /\ UNCHANGED <<uploadVars, blocked, lastProbed, probe, token, session,
                   awaited, before, worldVars>>

(* close(): the timers go, and the upload on the wire is awaited.          *)
CloseBegins ==
    /\ Quiet /\ phase = "stopping"
    /\ phase' = "closing" /\ before' = 0
    /\ flushTimer' = FALSE
    /\ backoffTimer' = FALSE /\ backoffs' = BackoffCleared
    /\ UNCHANGED <<queue, batch, post, uploaded, dropped, offered, authVars,
                   session, awaited, worldVars>>

(* Slip: the drain does not ask for progress.                              *)
AnyProgress == before = 0 \/ Len(queue) <= before

(* The last upload, if any, made the queue shorter.                        *)
Progress == before = 0 \/ Len(queue) < before

(* close() tries each remaining batch once.                                *)
CloseDrains ==
    /\ phase = "closing" /\ ~inFlight
    /\ ~blocked /\ queue # <<>> /\ Progress
    /\ before' = Len(queue)
    /\ StartPost(queue)
    /\ UNCHANGED <<flushTimer, backoffTimer, backoffs, uploaded, dropped,
                   offered, authVars, session, awaited, phase, worldVars>>

(* close() ends: what is left is dropped, unless the credential is blocked.*)
CloseEnds ==
    /\ phase = "closing" /\ ~inFlight
    /\ blocked \/ queue = <<>> \/ ~Progress
    /\ phase' = "closed"
    /\ IF blocked
          THEN UNCHANGED <<queue, dropped>>
          ELSE queue' = <<>> /\ dropped' = dropped + Len(queue)
    /\ backoffTimer' = FALSE /\ backoffs' = BackoffCleared
    /\ UNCHANGED <<batch, post, flushTimer, uploaded, offered, authVars,
                   session, awaited, before, worldVars>>

-----------------------------------------------------------------------------
Next ==
    \/ Enqueue \/ EnqueueImmediate \/ FlushContinues
    \/ FlushTimerFires \/ BackoffFires
    \/ BrokerHandles \/ PostAnswered \/ PostFails \/ PostRefused
    \/ OtherSent \/ OtherAnswered \/ Reenrolled \/ TokenSaved
    \/ ProbeSent \/ ProbeAnswered \/ ProbeFails
    \/ ShutdownBegins \/ CloseBegins \/ CloseDrains \/ CloseEnds

Spec == Init /\ [][Next]_vars

(* Timers fire, the broker answers what it is asked, promises continue.    *)
Fairness ==
    /\ WF_vars(FlushTimerFires) /\ WF_vars(BackoffFires)
    /\ WF_vars(BrokerHandles) /\ WF_vars(PostAnswered \/ PostFails \/ PostRefused)
    /\ WF_vars(FlushContinues) /\ WF_vars(CloseDrains \/ CloseEnds)
    /\ WF_vars(OtherAnswered)
    /\ WF_vars(ProbeSent) /\ WF_vars(ProbeAnswered \/ ProbeFails)

FairSpec == Spec /\ Fairness

-----------------------------------------------------------------------------
(* Properties.                                                             *)

(* stats(): every event offered is uploaded, dropped, queued or on the     *)
(* wire, so that the capture summary in session_end adds up whatever was   *)
(* retried, evicted or given up.                                           *)
AllAccountedFor ==
    offered = uploaded + dropped + Len(queue) + Len(batch)

(* The cap is overshot by no more than the batch a failed upload puts back *)
(* and the one marker of a blocked credential (runFlush, enqueueFirst).    *)
OvershootIsBounded ==
    Len(queue) + Len(batch) <= MaxQueue + MaxBatch + (IF blocked \/ closed THEN 1 ELSE 0)

(* Once close() has returned nothing of the run reaches the broker any     *)
(* more, and memory keeps events only for a blocked credential.            *)
ClosedForGood ==
    [][phase = "closed" => UNCHANGED <<landed, batch, uploaded>>]_vars

(* The uploader is the lossy outbox: events that were handed over land in  *)
(* order or are lost for good, whatever is retried, evicted or refused; one *)
(* with a source id lands once, and one without is stored again only while *)
(* the answer that acknowledges it has not been read.                      *)
hand == batch \o queue
lost == (1 .. offered) \ (ToSet(landed) \cup ToSet(hand))
over == phase = "closed"

Outbox == INSTANCE TraceOutbox WITH Events <- 1 .. MaxEvents + 2 * MaxToken + 2

ImplementsOutbox == Outbox!Spec

(* enqueueImmediate resolves before its event is acknowledged only behind  *)
(* a backlog of a full batch ("wait until the broker has acknowledged the  *)
(* batch", host.ts).                                                       *)
EarlyOnlyBehindBacklog ==
    [][session # "idle" /\ session' = "idle" /\ queue' = queue =>
           awaited \in ToSet(landed') \/ Len(batch) = MaxBatch]_vars

(* No wake-up is lost: once uploads stop failing, whatever is queued while *)
(* the runner is up and its credential accepted is uploaded in the end.    *)
BacklogDrains ==
    <>[][~PostFails]_vars =>
        []<>((queue = <<>> /\ ~inFlight) \/ blocked \/ phase # "up")

(* close() returns even if every upload fails: it gives up as soon as a    *)
(* batch makes no progress.                                                *)
CloseReturns == phase = "closing" ~> phase = "closed"
=============================================================================
