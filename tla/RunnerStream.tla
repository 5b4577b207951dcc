----------------------------- MODULE RunnerStream -----------------------------
(***************************************************************************)
(* One runner's stream to the broker (packages/cli/src/runtime/            *)
(* forwarder.ts over subscribeReliable of packages/sdk/src/client.ts) and  *)
(* what the broker keeps for its subscription: the ledger rows of the      *)
(* member, the reported condition and the open turns. MessageDelivery has  *)
(* the broker's side in full, with other runners, crashes and expiry; here *)
(* the member has this runner only and the broker stays up.                *)
(*                                                                         *)
(* A receipt <<m, c>> is the object the forwarder made for the c-th copy   *)
(* of message m. What the runner does to a receipt or reports of itself is *)
(* an act. The stream is one value, and an operator that performs acts     *)
(* maps a stream to a stream, so that a handler performs as many as the    *)
(* code does in one go. A frame is heard at once or never: a frame still   *)
(* under way is a message of the broker still under way the other way.     *)
(***************************************************************************)
EXTENDS Integers, FiniteSets, SequencesExt, EventSequences

CONSTANTS
    Turns,       \* the agent's turns
    MaxMsgs,     \* bound: messages sent to the member
    MaxCopies,   \* bound: copies of one message that reach the forwarder
    MaxConns     \* bound: connections; the last one is not lost

ASSUME StreamConstantsOK ==
    /\ MaxMsgs \in Nat /\ MaxCopies \in Nat /\ MaxConns \in Nat \ {0}

VARIABLES
    stream

Msgs == 1 .. MaxMsgs
Receipts == Msgs \X (1 .. MaxCopies)

Outcomes == {"acted", "handled", "refused"}

Acts == [do : {"accept"}, of : Receipts]
            \cup [do : {"settle"}, of : Receipts, as : Outcomes \cup {"deferred"}]
            \cup [do : {"condition"}, is : {"ready", "degraded"}]
            \cup [do : {"turn"}, id : Turns, is : {"started", "completed", "failed"}]

AcceptOf(r) == [do |-> "accept", of |-> r]
SettleOf(r, d) == [do |-> "settle", of |-> r, as |-> d]
Condition(c) == [do |-> "condition", is |-> c]
Turn(t, phase) == [do |-> "turn", id |-> t, is |-> phase]

(* The fields of the stream. At the runner: active (activeStream # null),  *)
(* gen (its generation), pend (pendingActions), acc (acceptedGeneration of *)
(* each receipt), copies (receipts made so far). Between them: link, and   *)
(* down, what is sent or queued for the forwarder. At the broker: sent     *)
(* (messages so far), row (the ledger), cond and open (runnerConditions    *)
(* and runnerTurns of the subscription).                                   *)
StreamTypeOK ==
    /\ DOMAIN stream = {"active", "gen", "pend", "acc", "copies", "link", "down",
                        "sent", "row", "cond", "open"}
    /\ stream.active \in BOOLEAN
    /\ stream.gen \in 0 .. MaxConns
    /\ stream.pend \in Seq(Acts)
    /\ stream.acc \in [Receipts -> 0 .. MaxConns]
    /\ stream.copies \in [Msgs -> 0 .. MaxCopies]
    /\ stream.link \in {"none", "up", "lost"}
    /\ stream.down \in Seq(Msgs)
    /\ stream.sent \in 0 .. MaxMsgs
    /\ stream.row \in [Msgs -> Outcomes \cup {"none", "pending", "accepted"}]
    /\ stream.cond \in {"none", "ready", "degraded"}
    /\ stream.open \subseteq Turns

StreamInit ==
    stream = [active |-> FALSE, gen |-> 0, pend |-> <<>>,
              acc |-> [r \in Receipts |-> 0], copies |-> [m \in Msgs |-> 0],
              link |-> "none", down |-> <<>>, sent |-> 0,
              row |-> [m \in Msgs |-> "none"], cond |-> "none", open |-> {}]
-----------------------------------------------------------------------------
(* The broker hears a frame of its subscription.                           *)

PendingRows(n) == Excluding([m \in Msgs |-> m], {m \in Msgs : n.row[m] # "pending"})

(* projectDegraded and projectSubscriberGone: the leases are given back.   *)
Released(n) ==
    [n EXCEPT !.row = [m \in Msgs |-> IF @[m] = "accepted" THEN "pending" ELSE @[m]]]

HearAccepted(n, m) ==
    IF n.row[m] = "pending" THEN [n EXCEPT !.row[m] = "accepted"] ELSE n

(* The peer declares its liveness, so only a lease entitles it to settle.  *)
HearSettled(n, m, d) ==
    IF n.row[m] = "accepted"
    THEN [n EXCEPT !.row[m] = IF d = "deferred" THEN "pending" ELSE d]
    ELSE n

(* runnerCondition: becoming ready redelivers, degrading releases.         *)
HearCondition(n, c) ==
    IF c = "degraded" THEN Released([n EXCEPT !.cond = c])
    ELSE IF n.cond = "ready" THEN n
    ELSE [n EXCEPT !.cond = c, !.down = @ \o PendingRows(n)]

(* runnerTurn: a failed turn degrades.                                     *)
HearTurn(n, t, phase) ==
    IF phase = "started" THEN [n EXCEPT !.open = @ \cup {t}]
    ELSE IF t \notin n.open THEN n
    ELSE LET closed == [n EXCEPT !.open = @ \ {t}]
         IN  IF phase = "failed" /\ n.cond # "degraded"
             THEN Released([closed EXCEPT !.cond = "degraded"])
             ELSE closed
-----------------------------------------------------------------------------
(* The forwarder. A frame written to a socket that has gone is lost.       *)

Accepted(n, r) ==
    IF n.acc[r] = n.gen THEN n
    ELSE LET heard == IF n.link = "up" THEN HearAccepted(n, r[1]) ELSE n
         IN  [heard EXCEPT !.acc[r] = n.gen]

(* Slip: the lease is not taken again before a settlement.                 *)
SettledOnly(n, r, d) == IF n.link = "up" THEN HearSettled(n, r[1], d) ELSE n

(* settle: the lease is taken on this subscription first.                  *)
Settled(n, r, d) ==
    LET held == Accepted(n, r)
    IN  IF n.link = "up" THEN HearSettled(held, r[1], d) ELSE held

Sent(n, act) ==
    CASE act.do = "accept" -> Accepted(n, act.of)
      [] act.do = "settle" -> Settled(n, act.of, act.as)
      [] act.do = "condition" -> IF n.link = "up" THEN HearCondition(n, act.is) ELSE n
      [] act.do = "turn" -> IF n.link = "up" THEN HearTurn(n, act.id, act.is) ELSE n

(* Without a stream an act waits for the next one.                         *)
Performed(n, act) ==
    IF n.active THEN Sent(n, act) ELSE [n EXCEPT !.pend = Append(@, act)]

PerformAll(n, acts) ==
    LET after[i \in 0 .. Len(acts)] ==
            IF i = 0 THEN n ELSE Performed(after[i - 1], acts[i])
    IN  after[Len(acts)]

AcceptEach(receipts) == [i \in DOMAIN receipts |-> AcceptOf(receipts[i])]
SettleEach(receipts, d) == [i \in DOMAIN receipts |-> SettleOf(receipts[i], d)]
-----------------------------------------------------------------------------
(* What happens to the connection.                                         *)

(* A message for the member: it waits in the ledger unless the runner is   *)
(* ready for it.                                                           *)
Push ==
    LET m == stream.sent + 1
    IN  /\ stream.sent < MaxMsgs
        /\ stream' = [stream EXCEPT
                        !.sent = m, !.row[m] = "pending",
                        !.down = IF stream.link = "up" /\ stream.cond = "ready"
                                 THEN Append(@, m) ELSE @]

(* The socket goes, with what it had not yet carried; the broker forgets   *)
(* the subscription. The forwarder finishes what it has received.          *)
Lose ==
    /\ stream.link = "up"
    /\ stream.gen < MaxConns
    /\ \E k \in 0 .. Len(stream.down) :
          stream' = [Released(stream) EXCEPT
                        !.link = "lost", !.cond = "none", !.open = {},
                        !.down = SubSeq(@, 1, k)]

(* The loop over the stream ends; the next one is opened after a delay.    *)
EndStream ==
    /\ stream.link = "lost"
    /\ stream.down = <<>>
    /\ stream' = [stream EXCEPT !.link = "none", !.active = FALSE]

(* attachControl lets the sink report itself, then flushPendingFrames.     *)
Opened(n, acts) == PerformAll(PerformAll([n EXCEPT !.pend = <<>>], acts), n.pend)

(* A new subscription; its socket may never open.                          *)
Connect(acts) ==
    /\ stream.link = "none"
    /\ stream.gen < MaxConns
    /\ \E link \in {"up", "lost"} :
          /\ link = "lost" => stream.gen + 1 < MaxConns
          /\ stream' = Opened([stream EXCEPT !.active = TRUE, !.gen = @ + 1,
                                             !.link = link], acts)

(* sweepOpenTurnBackstops finds t open for eight hours.                    *)
Backstop(t) ==
    /\ t \in stream.open
    /\ stream' = Released([stream EXCEPT !.open = @ \ {t}, !.cond = "degraded"])

(* The next message of the loop, and the receipt made for it.              *)
Incoming == <<Head(stream.down), stream.copies[Head(stream.down)] + 1>>
Taken == [stream EXCEPT !.down = Tail(@), !.copies[Head(stream.down)] = @ + 1]
=============================================================================
