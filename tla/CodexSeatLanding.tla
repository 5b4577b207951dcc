--------------------------- MODULE CodexSeatLanding ---------------------------
(***************************************************************************)
(* What the codex channel sink settles lands at the broker: the proof of   *)
(* SettlementsLand, on the invariants of CodexSeatProofs, for any number of*)
(* messages, copies, turns, connections, failures and agents.              *)
(***************************************************************************)
EXTENDS CodexSeatProofs

(* The order of the lines: a turn ends once, and before another starts;    *)
(* the sink is in the turn whose start it has read and whose end it has    *)
(* not; an answer names a turn that has been started.                      *)
EndsInOrder ==
    \A i \in 1 .. Len(out) : out[i].is = "completed" =>
        /\ out[i].turn <= codex.used /\ out[i].turn # codex.turn
        /\ \A j \in 1 .. Len(out) :
               out[j].is = "completed" /\ out[j].turn = out[i].turn => j = i

StartsInOrder ==
    \A i \in 1 .. Len(out) : out[i].is = "started" =>
        /\ \A t \in Turns : t < out[i].turn /\ Heard(t) =>
               \E j \in 1 .. Len(out) :
                   j < i /\ out[j].is = "completed" /\ out[j].turn = t
        /\ \A t \in Turns : t > out[i].turn => NewTurn(t)

InItsTurn == \A t \in Turns : Heard(t) /\ ~NewTurn(t) => seat.turn = t

ToolsAreHeard ==
    \A i \in 1 .. Len(out) : out[i].is = "acted" =>
        codex.turn = out[i].turn \/ EndFollows(out, i)

TurnsAreNamed ==
    /\ \A i \in 1 .. Len(out) :
           out[i].is = "reply" /\ out[i].says = "ok" => out[i].turn <= codex.used
    /\ seat.flight.at = "answered" /\ seat.flight.says = "ok" =>
           seat.flight.turn <= codex.used
    /\ \A t \in Turns : t > codex.used => seat.awaiting[t] = <<>>

LineOrder ==
    EndsInOrder /\ StartsInOrder /\ InItsTurn /\ ToolsAreHeard /\ TurnsAreNamed

Accepts(a, r) == a.do = "accept" /\ a.of = r
GivesBack(a, m) == a.do = "settle" /\ a.as = "deferred" /\ a.of[1] = m
Degrades(a) ==
    \/ a.do = "condition" /\ a.is = "degraded"
    \/ a.do = "turn" /\ a.is = "failed"
Readies(a) == a.do = "condition" /\ a.is = "ready"
Concerns(a, r) == a.do \in {"accept", "settle"} /\ a.of = r

(* r was made for a copy that has come, and for the last one.              *)
Made(n, r) == r[2] <= n.copies[r[1]]
Latest(n, r) == r[2] = n.copies[r[1]]

(* Nothing has been done to the receipt r.                                 *)
Unaccepted(n, r) ==
    n.acc[r] = 0 /\ \A i \in 1 .. Len(n.pend) : ~Concerns(n.pend[i], r)

(* A settlement of r lands: its message has the lease or is decided, or r  *)
(* will ask for the lease. This ends when the runner degrades, and the acts*)
(* that wait for a stream give nothing back once they have accepted r, and *)
(* do not recover from a failure behind that.                              *)
Leased(n, r) ==
    n.row[r[1]] \in Outcomes \cup {"accepted"} \/ n.acc[r] # n.gen

Lands(n, r) ==
    /\ n.link = "up" => Leased(n, r) \/ n.cond = "degraded"
    /\ \A i \in 1 .. Len(n.pend) : n.pend[i].do = "settle" => n.pend[i].of # r
    /\ \A i, j \in 1 .. Len(n.pend) : i < j /\ Accepts(n.pend[i], r) =>
           /\ ~GivesBack(n.pend[j], r[1])
           /\ Degrades(n.pend[j]) =>
                  \A k \in 1 .. Len(n.pend) : j < k => ~Readies(n.pend[k])

NetSound(n) ==
    /\ \A m \in Msgs : n.copies[m] > 0 \/ m \in ToSet(n.down) => n.row[m] # "none"
    /\ \A m \in Msgs : m > n.sent => n.row[m] = "none"
    /\ \A r \in Receipts : n.acc[r] <= n.gen /\ (~Made(n, r) => Unaccepted(n, r))
    /\ n.active => n.gen > 0

Queue(s, e) == s.flight.events \o (s.buffer \o e)

InOrder(q) ==
    \A i, j \in 1 .. Len(q) : i < j /\ q[i][1] = q[j][1] => q[i][2] < q[j][2]

NoCopy(q, m) == \A r \in ToSet(q) : r[1] # m

(* Where the receipts are: q is the queue, U are the turns whose start has *)
(* not been read, A those whose end has not. Of the receipts with the last *)
(* copy of their message one that waits is untouched and in one place, and *)
(* one in a turn lands.                                                    *)
Queued(q, n) ==
    /\ \A r \in ToSet(q) : Made(n, r) /\ (Latest(n, r) => Unaccepted(n, r))
    /\ InOrder(q)

InTurns(s, n) ==
    \A t \in Turns : /\ \A r \in ToSet(s.awaiting[t]) : Made(n, r)
                     /\ \A r \in ToSet(s.held[t]) : Made(n, r)

Awaits(s, q, n, U, A) ==
    \A t \in U : \A r \in ToSet(s.awaiting[t]) : Latest(n, r) =>
        /\ Unaccepted(n, r) /\ NoCopy(q, r[1])
        /\ \A t2 \in A : r \notin ToSet(s.held[t2])
        /\ \A t2 \in U : t2 # t => r \notin ToSet(s.awaiting[t2])

Landing(s, q, n, A) ==
    \A t \in A : \A r \in ToSet(s.held[t]) : Latest(n, r) =>
        Lands(n, r) /\ NoCopy(q, r[1])

Placed(s, q, n, U, A) ==
    Queued(q, n) /\ InTurns(s, n) /\ Awaits(s, q, n, U, A) /\ Landing(s, q, n, A)

(* A sink without a request has no events in one.                          *)
Flown(s) == s.flight.at = "none" => s.flight.events = <<>>

Unread == {t \in Turns : StillToRead("started", t)}
Alive == {t \in Turns : Heard(t)}

PlacedInv ==
    /\ NetSound(stream) /\ Placed(seat, Queue(seat, early), stream, Unread, Alive)
    /\ Flown(seat) /\ (attached => early = <<>>)

LandInv == LineOrder /\ PlacedInv

(* The stream after something heard or sent: what the runner knows of it is*)
(* the same, and a message is neither made nor forgotten.                  *)
SameStream(n, q) ==
    /\ q.active = n.active /\ q.link = n.link /\ q.gen = n.gen /\ q.pend = n.pend
    /\ q.copies = n.copies /\ q.sent = n.sent
    /\ \A m \in Msgs : q.row[m] = "none" <=> n.row[m] = "none"
    /\ \A m \in Msgs : m \in ToSet(q.down) => m \in ToSet(n.down) \/ n.row[m] # "none"

(* Only a failure takes a lease or a decision back.                        *)
KeepsRow(n, q, m) ==
    n.row[m] \in Outcomes \cup {"accepted"} => q.row[m] \in Outcomes \cup {"accepted"}

LEMMA PendingArePending ==
    ASSUME NEW n
    PROVE  \A m \in ToSet(PendingRows(n)) : n.row[m] = "pending"
<1> DEFINE all == [m \in Msgs |-> m]
           gone == {m \in Msgs : n.row[m] # "pending"}
<1>1. all \in Seq(Msgs)
  BY StreamConstantsOK DEF Msgs
<1>2. PendingRows(n) = Excluding(all, gone)
  BY DEF PendingRows
<1> HIDE DEF all
<1>3. Excluding(all, gone) \in Seq(Msgs \ gone)
  BY <1>1, ExcludingKeeps
<1>4. QED
  BY <1>2, <1>3, ElementsOf

LEMMA ReleasedStream ==
    ASSUME NEW n \in Streams
    PROVE  /\ SameStream(n, Released(n)) /\ Released(n).acc = n.acc
           /\ Released(n).cond = n.cond
BY DEF SameStream, Released, Streams

LEMMA StreamHeard ==
    ASSUME NEW n \in Streams
    PROVE  /\ \A m \in Msgs :
                  LET q == HearAccepted(n, m)
                  IN  /\ SameStream(n, q) /\ q.acc = n.acc /\ q.cond = n.cond
                      /\ \A k \in Msgs : KeepsRow(n, q, k)
                      /\ n.row[m] # "none" => q.row[m] \in Outcomes \cup {"accepted"}
           /\ \A m \in Msgs, d \in Outcomes \cup {"deferred"} :
                  LET q == HearSettled(n, m, d)
                  IN  /\ SameStream(n, q) /\ q.acc = n.acc /\ q.cond = n.cond
                      /\ \A k \in Msgs : k # m \/ d # "deferred" => KeepsRow(n, q, k)
                      /\ d \in Outcomes /\ n.row[m] \in Outcomes \cup {"accepted"}
                         => q.row[m] \in Outcomes
           /\ \A c \in {"ready", "degraded"} :
                  LET q == HearCondition(n, c)
                  IN  /\ SameStream(n, q) /\ q.acc = n.acc
                      /\ c = "degraded" => q.cond = "degraded"
                      /\ c = "ready" => q.row = n.row
           /\ \A t \in Turns : \A phase :
                  LET q == HearTurn(n, t, phase)
                  IN  /\ SameStream(n, q) /\ q.acc = n.acc
                      /\ \/ q.cond = n.cond /\ q.row = n.row
                         \/ phase = "failed" /\ q.cond = "degraded"
                      /\ n.cond = "degraded" => q.cond = "degraded"
<1>1. \A m \in Msgs :
          LET q == HearAccepted(n, m)
          IN  /\ SameStream(n, q) /\ q.acc = n.acc /\ q.cond = n.cond
              /\ \A k \in Msgs : KeepsRow(n, q, k)
              /\ n.row[m] # "none" => q.row[m] \in Outcomes \cup {"accepted"}
  BY DEF HearAccepted, SameStream, Streams, KeepsRow, RowStates, Outcomes
<1>2. \A m \in Msgs, d \in Outcomes \cup {"deferred"} :
          LET q == HearSettled(n, m, d)
          IN  /\ SameStream(n, q) /\ q.acc = n.acc /\ q.cond = n.cond
              /\ \A k \in Msgs : k # m \/ d # "deferred" => KeepsRow(n, q, k)
              /\ d \in Outcomes /\ n.row[m] \in Outcomes \cup {"accepted"}
                 => q.row[m] \in Outcomes
  BY DEF HearSettled, SameStream, Streams, KeepsRow, RowStates, Outcomes
<1>3. ASSUME NEW c \in {"ready", "degraded"}
      PROVE  LET q == HearCondition(n, c)
             IN  /\ SameStream(n, q) /\ q.acc = n.acc
                 /\ c = "degraded" => q.cond = "degraded"
                 /\ c = "ready" => q.row = n.row
  <2> DEFINE worse == [n EXCEPT !.cond = c]
             ready == [n EXCEPT !.cond = c, !.down = @ \o PendingRows(n)]
  <2>1. n.down \in Seq(Msgs) /\ PendingRows(n) \in Seq(Msgs)
    BY PendingTyped DEF Streams
  <2>2. ToSet(n.down \o PendingRows(n)) = ToSet(n.down) \cup ToSet(PendingRows(n))
    BY <2>1, ElementsOf
  <2>3. /\ worse \in Streams /\ SameStream(n, worse) /\ worse.acc = n.acc
        /\ worse.cond = c
    BY DEF Streams, SameStream
  <2>4. /\ SameStream(n, ready) /\ ready.acc = n.acc /\ ready.row = n.row
    <3>1. ready.down = n.down \o PendingRows(n)
      BY DEF Streams
    <3>2. \A m \in ToSet(ready.down) : m \in ToSet(n.down) \/ n.row[m] # "none"
      BY <2>2, <3>1, PendingArePending
    <3>3. QED
      BY <3>2 DEF Streams, SameStream
  <2>5. /\ c = "degraded" => HearCondition(n, c) = Released(worse)
        /\ c = "ready" => HearCondition(n, c) \in {n, ready}
    BY DEF HearCondition
  <2>6. SameStream(n, n)
    BY DEF SameStream
  <2> HIDE DEF worse, ready
  <2>7. SameStream(worse, Released(worse)) /\ Released(worse).acc = worse.acc
        /\ Released(worse).cond = worse.cond
    BY <2>3, ReleasedStream
  <2>8. SameStream(n, Released(worse))
    BY <2>3, <2>7 DEF SameStream
  <2>9. QED
    BY <2>3, <2>4, <2>5, <2>6, <2>7, <2>8
<1>4. ASSUME NEW t \in Turns, NEW phase
      PROVE  LET q == HearTurn(n, t, phase)
             IN  /\ SameStream(n, q) /\ q.acc = n.acc
                 /\ \/ q.cond = n.cond /\ q.row = n.row
                    \/ phase = "failed" /\ q.cond = "degraded"
                 /\ n.cond = "degraded" => q.cond = "degraded"
  <2> DEFINE more == [n EXCEPT !.open = @ \cup {t}]
             closed == [n EXCEPT !.open = @ \ {t}]
             worse == [closed EXCEPT !.cond = "degraded"]
  <2>1. /\ SameStream(n, more) /\ more.acc = n.acc /\ more.cond = n.cond /\ more.row = n.row
        /\ SameStream(n, closed) /\ closed.acc = n.acc /\ closed.cond = n.cond
        /\ closed.row = n.row /\ SameStream(n, n)
        /\ worse \in Streams /\ SameStream(n, worse) /\ worse.acc = n.acc
        /\ worse.cond = "degraded"
    BY DEF Streams, SameStream
  <2>2. \/ HearTurn(n, t, phase) \in {more, n, closed}
        \/ phase = "failed" /\ HearTurn(n, t, phase) = Released(worse)
    BY DEF HearTurn
  <2> HIDE DEF more, closed, worse
  <2>3. SameStream(worse, Released(worse)) /\ Released(worse).acc = worse.acc
        /\ Released(worse).cond = worse.cond
    BY <2>1, ReleasedStream
  <2>4. SameStream(n, Released(worse))
    BY <2>1, <2>3 DEF SameStream
  <2>5. QED
    BY <2>1, <2>2, <2>3, <2>4
<1>5. QED
  BY <1>1, <1>2, <1>3, <1>4

LEMMA OutcomesStay ==
    ASSUME NEW n \in Streams, NEW a \in Acts, NEW m \in Msgs, n.row[m] \in Outcomes
    PROVE  Sent(n, a).row[m] = n.row[m]
<1>1. /\ a.do \in {"accept", "settle", "condition", "turn"}
      /\ n.row \in [Msgs -> RowStates]
      /\ n.row[m] # "accepted" /\ n.row[m] # "pending"
  BY ActOf DEF Streams, Outcomes
<1>2. CASE a.do = "accept"
  BY <1>1, <1>2 DEF Sent, Accepted, HearAccepted, Streams
<1>3. CASE a.do = "settle"
  <2>1. /\ Accepted(n, a.of).row[m] = n.row[m] /\ Accepted(n, a.of) \in Streams
        /\ a.of \in Receipts
    <3>1. HearAccepted(n, a.of[1]).row[m] = n.row[m] /\ a.of \in Receipts
          /\ HearAccepted(n, a.of[1]) \in Streams
      <4>1. a.of \in Receipts /\ a.of[1] \in Msgs
        BY <1>3, ActOf, ReceiptOf
      <4>2. HearAccepted(n, a.of[1]) \in Streams
        BY <4>1, HearTyped
      <4>3. \A k \in Msgs : HearAccepted(n, k).row[m] = n.row[m]
        BY <1>1 DEF HearAccepted, Streams
      <4>4. QED
        BY <4>1, <4>2, <4>3
    <3>2. QED
      BY <3>1, AcceptedTyped DEF Accepted, Streams
  <2>2. \A x \in Streams : x.row[m] = n.row[m] =>
            HearSettled(x, a.of[1], a.as).row[m] = n.row[m]
    BY <1>1 DEF HearSettled, Streams
  <2>3. QED
    BY <1>3, <2>1, <2>2 DEF Sent, Settled
<1>4. CASE a.do = "condition"
  BY <1>1, <1>4 DEF Sent, HearCondition, Released, Streams
<1>5. CASE a.do = "turn"
  BY <1>1, <1>5 DEF Sent, HearTurn, Released, Streams
<1>6. QED
  BY <1>1, <1>2, <1>3, <1>4, <1>5

LEMMA SentIs ==
    ASSUME NEW n \in Streams, NEW a \in Acts
    PROVE  LET q == Sent(n, a)
           IN  /\ SameStream(n, q)
               /\ q.acc = IF a.do \in {"accept", "settle"}
                          THEN [n.acc EXCEPT ![a.of] = n.gen] ELSE n.acc
               /\ \A m \in Msgs : \/ KeepsRow(n, q, m) \/ GivesBack(a, m)
                                  \/ Degrades(a) /\ q.cond = "degraded"
               /\ n.cond = "degraded" /\ ~Readies(a) => q.cond = "degraded"
               /\ a.do = "settle" \/ (a.do = "turn" /\ a.is # "failed") => q.cond = n.cond
               /\ a.do = "turn" /\ a.is # "failed" => q.row = n.row
               /\ a.do = "accept" /\ n.link = "up" /\ n.acc[a.of] # n.gen
                  /\ n.row[a.of[1]] # "none"
                  => q.row[a.of[1]] \in Outcomes \cup {"accepted"}
               /\ a.do = "settle" /\ a.as \in Outcomes /\ n.link = "up"
                  /\ n.row[a.of[1]] # "none" /\ Leased(n, a.of)
                  => q.row[a.of[1]] \in Outcomes
<1> DEFINE q == Sent(n, a)
           held == Accepted(n, a.of)
<1>1. /\ a.do \in {"accept", "settle", "condition", "turn"}
      /\ SameStream(n, n) /\ \A m : KeepsRow(n, n, m)
  BY ActOf DEF SameStream, KeepsRow
<1>2. ASSUME a.do \in {"accept", "settle"}
      PROVE  /\ SameStream(n, held) /\ held.cond = n.cond /\ held \in Streams
             /\ held.acc = [n.acc EXCEPT ![a.of] = n.gen]
             /\ \A m \in Msgs : KeepsRow(n, held, m)
             /\ n.link = "up" /\ n.acc[a.of] # n.gen /\ n.row[a.of[1]] # "none"
                => held.row[a.of[1]] \in Outcomes \cup {"accepted"}
             /\ n.acc[a.of] = n.gen => held = n
  <2>1. a.of \in Receipts /\ a.of[1] \in Msgs /\ held \in Streams
    BY <1>2, ActOf, ReceiptOf, AcceptedTyped
  <2>2. CASE n.acc[a.of] = n.gen
    <3>1. held = n /\ n.acc = [n.acc EXCEPT ![a.of] = n.gen]
      BY <2>1, <2>2 DEF Accepted, Streams
    <3>2. QED
      BY <1>1, <2>1, <2>2, <3>1
  <2>3. CASE n.acc[a.of] # n.gen
    <3> DEFINE heard == IF n.link = "up" THEN HearAccepted(n, a.of[1]) ELSE n
    <3>1. /\ SameStream(n, heard) /\ heard.acc = n.acc /\ heard.cond = n.cond
          /\ \A k \in Msgs : KeepsRow(n, heard, k)
          /\ n.link = "up" /\ n.row[a.of[1]] # "none"
             => heard.row[a.of[1]] \in Outcomes \cup {"accepted"}
          /\ heard \in Streams
      <4>1. CASE n.link = "up"
        <5>1. heard = HearAccepted(n, a.of[1])
          BY <4>1
        <5> HIDE DEF heard
        <5>2. PICK k \in Msgs : k = a.of[1]
          BY <2>1
        <5>3. HearAccepted(n, k) \in Streams
          BY HearTyped
        <5>4. /\ SameStream(n, HearAccepted(n, k)) /\ HearAccepted(n, k).acc = n.acc
              /\ HearAccepted(n, k).cond = n.cond
              /\ \A j \in Msgs : KeepsRow(n, HearAccepted(n, k), j)
              /\ n.row[k] # "none" => HearAccepted(n, k).row[k] \in Outcomes \cup {"accepted"}
          BY StreamHeard
        <5>5. QED
          BY <5>1, <5>2, <5>3, <5>4
      <4>2. CASE n.link # "up"
        BY <1>1, <4>2
      <4>3. QED
        BY <4>1, <4>2
    <3>2. held = [heard EXCEPT !.acc[a.of] = n.gen]
      BY <2>3 DEF Accepted
    <3> HIDE DEF heard, held
    <3>3. /\ held.acc = [n.acc EXCEPT ![a.of] = n.gen] /\ held.cond = n.cond
          /\ held.row = heard.row
      BY <3>1, <3>2 DEF Streams
    <3>4. SameStream(heard, held)
      BY <3>1, <3>2 DEF Streams, SameStream
    <3>5. SameStream(n, held)
      BY <3>1, <3>4 DEF SameStream
    <3>6. QED
      BY <2>1, <2>3, <3>1, <3>3, <3>5 DEF KeepsRow
  <2>4. QED
    BY <2>2, <2>3
<1>3. CASE a.do = "accept"
  <2>1. Sent(n, a) = held
    BY <1>3 DEF Sent
  <2> HIDE DEF held
  <2>2. QED
    BY <1>2, <1>3, <2>1
<1>4. CASE a.do = "settle"
  <2>1. q = (IF n.link = "up" THEN HearSettled(held, a.of[1], a.as) ELSE held)
    BY <1>4 DEF Sent, Settled
  <2> HIDE DEF held, q
  <2>2. /\ a.of \in Receipts /\ a.of[1] \in Msgs
        /\ a.as \in Outcomes \cup {"deferred"}
    BY <1>4, ActOf, ReceiptOf
  <2>3. /\ SameStream(held, q) /\ q.acc = held.acc /\ q.cond = held.cond
        /\ \A k \in Msgs : k # a.of[1] \/ a.as # "deferred" => KeepsRow(held, q, k)
        /\ n.link = "up" /\ a.as \in Outcomes
           /\ held.row[a.of[1]] \in Outcomes \cup {"accepted"} => q.row[a.of[1]] \in Outcomes
    <3>1. CASE n.link = "up"
      BY <1>2, <1>4, <2>1, <2>2, <3>1, StreamHeard
    <3>2. CASE n.link # "up"
      BY <2>1, <3>2 DEF SameStream, KeepsRow
    <3>3. QED
      BY <3>1, <3>2
  <2>4. SameStream(n, q)
    BY <1>2, <1>4, <2>3 DEF SameStream
  <2>5. \A m \in Msgs : KeepsRow(n, q, m) \/ GivesBack(a, m)
    BY <1>2, <1>4, <2>3 DEF KeepsRow, GivesBack
  <2>6. ASSUME a.as \in Outcomes, n.link = "up", n.row[a.of[1]] # "none", Leased(n, a.of)
        PROVE  q.row[a.of[1]] \in Outcomes
    <3>1. held.row[a.of[1]] \in Outcomes \cup {"accepted"}
      BY <1>2, <1>4, <2>2, <2>6 DEF Leased, KeepsRow
    <3>2. QED
      BY <2>3, <2>6, <3>1
  <2>7. QED
    BY <1>2, <1>4, <2>3, <2>4, <2>5, <2>6 DEF q
<1>5. CASE a.do = "condition"
  <2>1. a.is \in {"ready", "degraded"}
    BY <1>5, ActOf
  <2>2. q = (IF n.link = "up" THEN HearCondition(n, a.is) ELSE n)
    BY <1>5 DEF Sent
  <2> HIDE DEF q
  <2>3. CASE n.link = "up"
    <3>1. /\ SameStream(n, q) /\ q.acc = n.acc
          /\ a.is = "degraded" => q.cond = "degraded"
          /\ a.is = "ready" => q.row = n.row
      BY <2>1, <2>2, <2>3, StreamHeard
    <3>2. QED
      BY <1>5, <2>1, <3>1 DEF q, KeepsRow, Degrades, Readies
  <2>4. CASE n.link # "up"
    BY <1>1, <1>5, <2>2, <2>4 DEF q
  <2>5. QED
    BY <2>3, <2>4
<1>6. CASE a.do = "turn"
  <2>1. a.id \in Turns
    BY <1>6, ActOf
  <2>2. q = (IF n.link = "up" THEN HearTurn(n, a.id, a.is) ELSE n)
    BY <1>6 DEF Sent
  <2> HIDE DEF q
  <2>3. CASE n.link = "up"
    <3>1. /\ SameStream(n, q) /\ q.acc = n.acc
          /\ \/ q.cond = n.cond /\ q.row = n.row
             \/ a.is = "failed" /\ q.cond = "degraded"
          /\ n.cond = "degraded" => q.cond = "degraded"
      BY <2>1, <2>2, <2>3, StreamHeard
    <3>2. QED
      BY <1>6, <2>1, <3>1 DEF q, KeepsRow, Degrades, Readies
  <2>4. CASE n.link # "up"
    BY <1>1, <1>6, <2>2, <2>4 DEF q
  <2>5. QED
    BY <2>3, <2>4
<1>7. QED
  BY <1>1, <1>3, <1>4, <1>5, <1>6

(* The runner has a stream when it is live, and no act waits then.         *)
Wired(n) == (n.link = "up" => n.active) /\ (n.active => n.pend = <<>>)

(* An act performed is sent, or it is the last of those that wait.         *)
LEMMA PerformedIs ==
    ASSUME NEW n \in Streams, NEW a \in Acts
    PROVE  LET q == Performed(n, a)
           IN  /\ q \in Streams /\ q.copies = n.copies /\ q.gen = n.gen
               /\ q.link = n.link /\ q.active = n.active /\ q.sent = n.sent
               /\ n.active => q = Sent(n, a) /\ q.pend = n.pend
               /\ ~n.active =>
                     /\ q.acc = n.acc /\ q.row = n.row /\ q.cond = n.cond
                     /\ q.down = n.down
                     /\ Len(n.pend) \in Nat /\ Len(q.pend) = Len(n.pend) + 1
                     /\ q.pend[Len(n.pend) + 1] = a
                     /\ \A i \in 1 .. Len(n.pend) : q.pend[i] = n.pend[i]
<1> DEFINE q == Performed(n, a)
<1>1. q \in Streams
  BY PerformedTyped
<1>2. CASE n.active
  <2>1. q = Sent(n, a)
    BY <1>2 DEF Performed
  <2>2. SameStream(n, Sent(n, a))
    BY SentIs
  <2> HIDE DEF q
  <2>3. QED
    BY <1>1, <1>2, <2>1, <2>2 DEF SameStream, q
<1>3. CASE ~n.active
  <2>1. q = [n EXCEPT !.pend = Append(n.pend, a)]
    BY <1>3 DEF Performed
  <2> HIDE DEF q
  <2>2. /\ q.copies = n.copies /\ q.gen = n.gen /\ q.link = n.link
        /\ q.active = n.active /\ q.sent = n.sent
        /\ q.acc = n.acc /\ q.row = n.row /\ q.cond = n.cond
        /\ q.down = n.down /\ q.pend = Append(n.pend, a) /\ n.pend \in Seq(Acts)
    BY <2>1 DEF Streams
  <2>3. /\ Len(n.pend) \in Nat /\ Len(Append(n.pend, a)) = Len(n.pend) + 1
        /\ Append(n.pend, a)[Len(n.pend) + 1] = a
        /\ \A i \in 1 .. Len(n.pend) : Append(n.pend, a)[i] = n.pend[i]
    BY <2>2, AppendProperties, LenProperties
  <2>4. QED
    BY <1>1, <1>3, <2>2, <2>3 DEF q
<1>4. QED
  BY <1>2, <1>3

LEMMA WiredPerformed ==
    ASSUME NEW n \in Streams, NEW a \in Acts, Wired(n)
    PROVE  Wired(Performed(n, a))
BY PerformedIs DEF Wired

LEMMA UnacceptedPerformed ==
    ASSUME NEW n \in Streams, NEW a \in Acts, NEW r \in Receipts,
           Unaccepted(n, r), ~Concerns(a, r)
    PROVE  Unaccepted(Performed(n, a), r)
<1> DEFINE q == Performed(n, a)
<1>1. CASE n.active
  <2>1. q.acc = (IF a.do \in {"accept", "settle"}
                 THEN [n.acc EXCEPT ![a.of] = n.gen] ELSE n.acc)
        /\ q.pend = n.pend
    <3>1. q = Sent(n, a) /\ q.pend = n.pend
      BY <1>1, PerformedIs
    <3>2. Sent(n, a).acc = IF a.do \in {"accept", "settle"}
                           THEN [n.acc EXCEPT ![a.of] = n.gen] ELSE n.acc
      BY SentIs
    <3> HIDE DEF q
    <3>3. QED
      BY <3>1, <3>2
  <2>2. a.do \in {"accept", "settle"} => a.of # r
    BY DEF Concerns
  <2>3. q.acc[r] = n.acc[r]
    BY <2>1, <2>2 DEF Streams
  <2> HIDE DEF q
  <2>4. QED
    BY <2>1, <2>3 DEF Unaccepted, q
<1>2. CASE ~n.active
  <2>1. /\ q.acc = n.acc
        /\ Len(n.pend) \in Nat /\ Len(q.pend) = Len(n.pend) + 1
        /\ q.pend[Len(n.pend) + 1] = a
        /\ \A i \in 1 .. Len(n.pend) : q.pend[i] = n.pend[i]
    BY <1>2, PerformedIs
  <2> HIDE DEF q
  <2>2. \A i \in 1 .. Len(q.pend) : i \in 1 .. Len(n.pend) \/ i = Len(n.pend) + 1
    BY <2>1
  <2>3. \A i \in 1 .. Len(q.pend) : ~Concerns(q.pend[i], r)
    BY <2>1, <2>2 DEF Unaccepted
  <2>4. QED
    BY <2>1, <2>3 DEF Unaccepted, q
<1>3. QED
  BY <1>1, <1>2

LEMMA SoundPerformed ==
    ASSUME NEW n \in Streams, NEW a \in Acts, NetSound(n),
           a.do \in {"accept", "settle"} => Made(n, a.of)
    PROVE  NetSound(Performed(n, a))
<1> DEFINE q == Performed(n, a)
<1>1. /\ q \in Streams /\ q.copies = n.copies /\ q.gen = n.gen
      /\ q.active = n.active /\ q.sent = n.sent
  BY PerformedIs
<1>2. \A m \in Msgs : n.copies[m] > 0 \/ m \in ToSet(n.down) => n.row[m] # "none"
  BY DEF NetSound
<1>3. /\ \A m \in Msgs : q.row[m] = "none" <=> n.row[m] = "none"
      /\ \A m \in Msgs : m \in ToSet(q.down) => m \in ToSet(n.down) \/ n.row[m] # "none"
  <2>1. CASE n.active
    <3>1. q = Sent(n, a)
      BY <2>1, PerformedIs
    <3>2. SameStream(n, Sent(n, a))
      BY SentIs
    <3> HIDE DEF q
    <3>3. QED
      BY <3>1, <3>2 DEF SameStream
  <2>2. CASE ~n.active
    BY <2>2, PerformedIs
  <2>3. QED
    BY <2>1, <2>2
<1>4. \A r \in Receipts : n.acc[r] <= n.gen => q.acc[r] <= q.gen
  <2>1. CASE n.active
    <3>1. q.acc = (IF a.do \in {"accept", "settle"}
                   THEN [n.acc EXCEPT ![a.of] = n.gen] ELSE n.acc)
      BY <2>1, PerformedIs, SentIs
    <3>2. n.gen \in Int /\ n.acc \in [Receipts -> 0 .. MaxConns]
      BY StreamConstantsOK DEF Streams
    <3> HIDE DEF q
    <3>3. QED
      BY <1>1, <3>1, <3>2
  <2>2. CASE ~n.active
    BY <2>2, PerformedIs
  <2>3. QED
    BY <2>1, <2>2
<1>5. ASSUME NEW r \in Receipts, ~Made(q, r)
      PROVE  Unaccepted(q, r)
  <2>1. ~Made(n, r)
    BY <1>1, <1>5 DEF Made
  <2>2. Unaccepted(n, r) /\ ~Concerns(a, r)
    BY <2>1 DEF NetSound, Concerns
  <2>3. QED
    BY <2>2, UnacceptedPerformed
<1> HIDE DEF q
<1>6. /\ \A r \in Receipts : n.acc[r] <= n.gen
      /\ \A m \in Msgs : m > n.sent => n.row[m] = "none"
      /\ n.active => n.gen > 0
  BY DEF NetSound
<1>7. QED
  BY <1>1, <1>2, <1>3, <1>4, <1>5, <1>6 DEF NetSound, q

LEMMA LandsPerformed ==
    ASSUME NEW n \in Streams, NEW a \in Acts, NEW r \in Receipts, Wired(n), Lands(n, r),
           a.do = "settle" => a.of # r, ~GivesBack(a, r[1]), ~Readies(a),
           n.row[r[1]] # "none"
    PROVE  Lands(Performed(n, a), r)
<1> DEFINE q == Performed(n, a)
<1>0. r[1] \in Msgs
  BY ReceiptOf
<1>1. CASE n.active
  <2>1. /\ q = Sent(n, a) /\ q.pend = <<>> /\ q.link = n.link /\ q.gen = n.gen
    BY <1>1, PerformedIs DEF Wired
  <2> HIDE DEF q
  <2>2. /\ q.acc = IF a.do \in {"accept", "settle"}
                          THEN [n.acc EXCEPT ![a.of] = n.gen] ELSE n.acc
        /\ \/ KeepsRow(n, q, r[1]) \/ GivesBack(a, r[1])
           \/ Degrades(a) /\ q.cond = "degraded"
        /\ n.cond = "degraded" /\ ~Readies(a) => q.cond = "degraded"
        /\ a.do = "accept" /\ n.link = "up" /\ n.acc[a.of] # n.gen
           /\ n.row[a.of[1]] # "none" => q.row[a.of[1]] \in Outcomes \cup {"accepted"}
    BY <1>0, <2>1, SentIs
  <2>3. ASSUME q.link = "up" PROVE Leased(q, r) \/ q.cond = "degraded"
    <3>1. Leased(n, r) \/ n.cond = "degraded"
      BY <2>1, <2>3 DEF Lands
    <3>2. CASE n.cond = "degraded"
      BY <2>2, <3>2
    <3>3. CASE n.row[r[1]] \in Outcomes \cup {"accepted"}
      BY <2>2, <3>3 DEF KeepsRow, Leased
    <3>4. CASE n.acc[r] # n.gen
      <4>1. CASE a.do = "accept" /\ a.of = r
        BY <2>1, <2>2, <2>3, <3>4, <4>1 DEF Leased
      <4>2. CASE ~(a.do = "accept" /\ a.of = r)
        <5>1. q.acc[r] = n.acc[r]
          BY <2>2, <4>2 DEF Streams
        <5>2. QED
          BY <2>1, <3>4, <5>1 DEF Leased
      <4>3. QED
        BY <4>1, <4>2
    <3>5. QED
      BY <3>1, <3>2, <3>3, <3>4 DEF Leased
  <2>4. Len(q.pend) = 0
    BY <2>1
  <2>5. QED
    BY <2>3, <2>4 DEF Lands, q
<1>2. CASE ~n.active
  <2>1. /\ q.link = n.link /\ n.link # "up"
        /\ Len(n.pend) \in Nat /\ Len(q.pend) = Len(n.pend) + 1
        /\ q.pend[Len(n.pend) + 1] = a
        /\ \A i \in 1 .. Len(n.pend) : q.pend[i] = n.pend[i]
    BY <1>2, PerformedIs DEF Wired
  <2> HIDE DEF q
  <2>2. \A i \in 1 .. Len(q.pend) :
            i \in 1 .. Len(n.pend) \/ (i = Len(n.pend) + 1 /\ q.pend[i] = a)
    BY <2>1
  <2>3. \A i \in 1 .. Len(q.pend) : q.pend[i].do = "settle" => q.pend[i].of # r
    BY <2>1, <2>2 DEF Lands
  <2>4. ASSUME NEW i \in 1 .. Len(q.pend), NEW j \in 1 .. Len(q.pend), i < j,
               Accepts(q.pend[i], r)
        PROVE  /\ ~GivesBack(q.pend[j], r[1])
               /\ Degrades(q.pend[j]) =>
                      \A k \in 1 .. Len(q.pend) : j < k => ~Readies(q.pend[k])
    <3>1. i \in 1 .. Len(n.pend) /\ Accepts(n.pend[i], r)
      BY <2>1, <2>4
    <3>2. CASE j \in 1 .. Len(n.pend)
      <4>1. /\ ~GivesBack(n.pend[j], r[1])
            /\ Degrades(n.pend[j]) =>
                   \A k \in 1 .. Len(n.pend) : j < k => ~Readies(n.pend[k])
        BY <2>4, <3>1, <3>2 DEF Lands
      <4>2. q.pend[j] = n.pend[j]
        BY <2>1, <3>2
      <4>3. \A k \in 1 .. Len(q.pend) :
                (k \in 1 .. Len(n.pend) /\ q.pend[k] = n.pend[k]) \/ q.pend[k] = a
        BY <2>1, <2>2
      <4>4. QED
        BY <4>1, <4>2, <4>3
    <3>3. CASE j = Len(n.pend) + 1
      <4>1. \A k \in 1 .. Len(q.pend) : ~(j < k)
        BY <2>1, <3>3
      <4>2. QED
        BY <2>1, <3>3, <4>1
    <3>4. QED
      BY <2>2, <3>2, <3>3
  <2>5. QED
    BY <2>1, <2>3, <2>4 DEF Lands, q
<1>3. QED
  BY <1>1, <1>2

LEMMA LandsAccepted ==
    ASSUME NEW n \in Streams, NEW r \in Receipts, Wired(n), NetSound(n),
           Unaccepted(n, r), n.row[r[1]] # "none"
    PROVE  Lands(Performed(n, AcceptOf(r)), r)
<1> DEFINE a == AcceptOf(r)
           q == Performed(n, a)
<1>1. a \in Acts /\ a.do = "accept" /\ a.of = r
  BY DEF Acts, AcceptOf
<1> HIDE DEF a
<1>2. CASE n.active
  <2>1. q = Sent(n, a) /\ q.pend = <<>> /\ q.link = n.link
    BY <1>1, <1>2, PerformedIs DEF Wired
  <2>2. n.acc[r] # n.gen
    BY <1>2 DEF Unaccepted, NetSound
  <2> HIDE DEF q
  <2>3. n.link = "up" => q.row[r[1]] \in Outcomes \cup {"accepted"}
    BY <1>1, <2>1, <2>2, SentIs
  <2>4. Len(q.pend) = 0
    BY <2>1
  <2>5. QED
    BY <2>1, <2>3, <2>4 DEF Lands, Leased, q, a
<1>3. CASE ~n.active
  <2>1. /\ q.link = n.link /\ n.link # "up"
        /\ Len(n.pend) \in Nat /\ Len(q.pend) = Len(n.pend) + 1
        /\ q.pend[Len(n.pend) + 1] = a
        /\ \A i \in 1 .. Len(n.pend) : q.pend[i] = n.pend[i]
    BY <1>1, <1>3, PerformedIs DEF Wired
  <2> HIDE DEF q
  <2>2. \A i \in 1 .. Len(q.pend) :
            \/ i \in 1 .. Len(n.pend) /\ ~Concerns(q.pend[i], r)
            \/ i = Len(n.pend) + 1 /\ q.pend[i] = a
    BY <2>1 DEF Unaccepted
  <2>3. \A i \in 1 .. Len(q.pend) : q.pend[i].do = "settle" => q.pend[i].of # r
    BY <1>1, <2>2 DEF Concerns
  <2>4. \A i, j \in 1 .. Len(q.pend) : i < j => ~Accepts(q.pend[i], r)
    BY <2>1, <2>2 DEF Concerns, Accepts
  <2>5. QED
    BY <2>1, <2>3, <2>4 DEF Lands, q, a
<1>4. QED
  BY <1>2, <1>3

(* Acts performed one after the other.                                     *)
MadeActs(n, acts) ==
    \A i \in 1 .. Len(acts) : acts[i].do \in {"accept", "settle"} => Made(n, acts[i].of)

(* What an act finds and leaves of a stream n: its receipts stay made.     *)
Sound(n, x) ==
    /\ x \in Streams /\ NetSound(x) /\ Wired(x)
    /\ x.copies = n.copies /\ x.gen = n.gen /\ x.link = n.link /\ x.active = n.active

LEMMA MadeHasRow ==
    ASSUME NEW n \in Streams, NetSound(n), NEW r \in Receipts, Made(n, r)
    PROVE  n.row[r[1]] # "none" /\ r[1] \in Msgs
<1>1. r[1] \in Msgs /\ r[2] \in 1 .. MaxCopies /\ n.copies \in [Msgs -> 0 .. MaxCopies]
  BY ReceiptOf DEF Streams
<1>2. MaxCopies \in Nat
  BY StreamConstantsOK
<1>3. n.copies[r[1]] > 0
  BY <1>1, <1>2 DEF Made
<1>4. QED
  BY <1>1, <1>3 DEF NetSound

LEMMA SoundStep ==
    ASSUME NEW n, NEW x, Sound(n, x), NEW a \in Acts,
           a.do \in {"accept", "settle"} => Made(n, a.of)
    PROVE  Sound(n, Performed(x, a))
<1>1. a.do \in {"accept", "settle"} => Made(x, a.of)
  BY DEF Sound, Made
<1>2. NetSound(Performed(x, a)) /\ Wired(Performed(x, a))
  BY <1>1, SoundPerformed, WiredPerformed DEF Sound
<1>3. QED
  BY <1>2, PerformedIs DEF Sound

LEMMA ActsAre ==
    ASSUME NEW acts \in Seq(Acts)
    PROVE  Len(acts) \in Nat /\ \A i \in 1 .. Len(acts) : acts[i] \in Acts
BY LenProperties, ElementOfSeq

LEMMA AllSound ==
    ASSUME NEW n \in Streams, NetSound(n), Wired(n), NEW acts \in Seq(Acts),
           MadeActs(n, acts)
    PROVE  Sound(n, PerformAll(n, acts))
<1> DEFINE good == {x \in Streams : Sound(n, x)}
<1>1. Len(acts) \in Nat /\ \A i \in 1 .. Len(acts) : acts[i] \in Acts
  BY ActsAre
<1>2. n \in good
  BY DEF Sound
<1>3. \A i \in 1 .. Len(acts) : \A x \in good : Performed(x, acts[i]) \in good
  <2>1. TAKE i \in 1 .. Len(acts)
  <2>2. TAKE x \in good
  <2>3. Sound(n, Performed(x, acts[i]))
    BY <1>1, SoundStep DEF MadeActs
  <2>4. QED
    BY <2>3 DEF Sound
<1> HIDE DEF good
<1>4. PerformAll(n, acts) \in good
  BY <1>1, <1>2, <1>3, Performs
<1>5. QED
  BY <1>4 DEF good

LEMMA AllUnaccepted ==
    ASSUME NEW n \in Streams, NEW acts \in Seq(Acts), NEW r \in Receipts,
           Unaccepted(n, r), \A i \in 1 .. Len(acts) : ~Concerns(acts[i], r)
    PROVE  Unaccepted(PerformAll(n, acts), r)
<1> DEFINE good == {x \in Streams : Unaccepted(x, r)}
<1>1. Len(acts) \in Nat /\ \A i \in 1 .. Len(acts) : acts[i] \in Acts
  BY ActsAre
<1>2. n \in good
  OBVIOUS
<1>3. \A i \in 1 .. Len(acts) : \A x \in good : Performed(x, acts[i]) \in good
  BY <1>1, UnacceptedPerformed, PerformedTyped
<1> HIDE DEF good
<1>4. PerformAll(n, acts) \in good
  BY <1>1, <1>2, <1>3, Performs
<1>5. QED
  BY <1>4 DEF good

LEMMA AllLand ==
    ASSUME NEW n \in Streams, NetSound(n), Wired(n), NEW acts \in Seq(Acts),
           MadeActs(n, acts), NEW r \in Receipts, Made(n, r), Lands(n, r),
           \A i \in 1 .. Len(acts) : /\ acts[i].do = "settle" => acts[i].of # r
                                     /\ ~GivesBack(acts[i], r[1]) /\ ~Readies(acts[i])
    PROVE  Lands(PerformAll(n, acts), r)
<1> DEFINE good == {x \in Streams : Sound(n, x) /\ Lands(x, r)}
<1>1. Len(acts) \in Nat /\ \A i \in 1 .. Len(acts) : acts[i] \in Acts
  BY ActsAre
<1>2. n \in good
  BY DEF Sound
<1>3. \A i \in 1 .. Len(acts) : \A x \in good : Performed(x, acts[i]) \in good
  <2>1. TAKE i \in 1 .. Len(acts)
  <2>2. TAKE x \in good
  <2>3. Sound(n, Performed(x, acts[i]))
    BY <1>1, SoundStep DEF MadeActs
  <2>4. x.row[r[1]] # "none"
    BY MadeHasRow DEF Sound, Made
  <2>5. Lands(Performed(x, acts[i]), r)
    BY <1>1, <2>4, LandsPerformed DEF Sound
  <2>6. QED
    BY <2>3, <2>5 DEF Sound
<1> HIDE DEF good
<1>4. PerformAll(n, acts) \in good
  BY <1>1, <1>2, <1>3, Performs
<1>5. QED
  BY <1>4 DEF good

(* A receipt that is accepted among the acts lands from there on.          *)
LEMMA AllAccepted ==
    ASSUME NEW n \in Streams, NetSound(n), Wired(n), NEW acts \in Seq(Acts),
           MadeActs(n, acts), NEW r \in Receipts, Made(n, r), Unaccepted(n, r),
           NEW k \in 1 .. Len(acts), acts[k] = AcceptOf(r),
           \A i \in 1 .. Len(acts) : /\ acts[i].do # "settle"
                                     /\ Readies(acts[i]) => i = 1
    PROVE  Lands(PerformAll(n, acts), r)
<1> DEFINE Good(i, x) ==
               /\ Sound(n, x)
               /\ \/ Lands(x, r) /\ i # 0
                  \/ Unaccepted(x, r) /\ i < k
           good == [i \in 0 .. Len(acts) |-> {x \in Streams : Good(i, x)}]
<1>1. Len(acts) \in Nat /\ \A i \in 1 .. Len(acts) : acts[i] \in Acts
  BY ActsAre
<1>2. n \in good[0]
  BY <1>1 DEF Sound
<1>3. ASSUME NEW i \in 1 .. Len(acts), NEW x, Good(i - 1, x)
      PROVE  Good(i, Performed(x, acts[i]))
  <2> DEFINE a == acts[i]
             q == Performed(x, a)
  <2>1. /\ x \in Streams /\ NetSound(x) /\ Wired(x) /\ a \in Acts
        /\ x.row[r[1]] # "none" /\ a.do # "settle" /\ ~GivesBack(a, r[1])
    BY <1>1, <1>3, MadeHasRow DEF Sound, Made, GivesBack
  <2>2. Sound(n, q)
    BY <1>1, <1>3, SoundStep DEF MadeActs
  <2>3. CASE Lands(x, r) /\ i - 1 # 0
    <3>1. ~Readies(a)
      BY <2>3
    <3>2. Lands(q, r)
      BY <2>1, <2>3, <3>1, LandsPerformed
    <3>3. QED
      BY <2>2, <3>2
  <2>4. CASE Unaccepted(x, r) /\ i - 1 < k
    <3>1. CASE Concerns(a, r)
      <4>1. a.do = "accept" /\ a.of = r
        BY <2>1, <3>1 DEF Concerns
      <4>2. a = AcceptOf(r)
        BY <2>1, <4>1 DEF Acts, AcceptOf
      <4>3. Lands(q, r)
        BY <2>1, <2>4, <4>2, LandsAccepted
      <4>4. QED
        BY <2>2, <4>3
    <3>2. CASE ~Concerns(a, r)
      <4>1. i # k
        BY <3>2 DEF Concerns, AcceptOf
      <4>2. Unaccepted(q, r)
        BY <2>1, <2>4, <3>2, UnacceptedPerformed
      <4>3. i < k
        BY <1>1, <2>4, <4>1
      <4>4. QED
        BY <2>2, <4>2, <4>3
    <3>3. QED
      BY <3>1, <3>2
  <2>5. QED
    BY <1>3, <2>3, <2>4
<1>4. \A i \in 1 .. Len(acts) : \A x \in good[i - 1] : Performed(x, acts[i]) \in good[i]
  <2>1. TAKE i \in 1 .. Len(acts)
  <2>2. i - 1 \in 0 .. Len(acts) /\ i \in 0 .. Len(acts)
    BY <1>1
  <2>3. TAKE x \in good[i - 1]
  <2>4. Good(i - 1, x)
    BY <2>2, <2>3
  <2>5. Good(i, Performed(x, acts[i]))
    BY <1>3, <2>4
  <2>6. Performed(x, acts[i]) \in Streams
    BY <2>5 DEF Sound
  <2> HIDE DEF Good
  <2>7. QED
    BY <2>2, <2>5, <2>6
<1> HIDE DEF good
<1>5. PerformAll(n, acts) \in good[Len(acts)]
  BY <1>1, <1>2, <1>4, PerformsThrough
<1>6. Good(Len(acts), PerformAll(n, acts))
  <2> HIDE DEF Good
  <2>1. QED
    BY <1>1, <1>5 DEF good
<1>7. QED
  BY <1>1, <1>6

LEMMA LeasedOn ==
    ASSUME NEW n \in Streams, NEW a \in Acts, NEW r \in Receipts, r[1] \in Msgs,
           NEW q, q = Sent(n, a), q.gen = n.gen,
           n.link = "up", n.row[r[1]] # "none", Leased(n, r),
           \/ a.do = "turn" /\ a.is # "failed"
           \/ a.do = "settle" /\ a.as \in Outcomes
    PROVE  /\ a.do = "settle" /\ a.of = r => q.row[r[1]] \in Outcomes
           /\ ~(a.do = "settle" /\ a.of = r) => Leased(q, r)
<1>1. /\ q.acc = IF a.do \in {"accept", "settle"}
                 THEN [n.acc EXCEPT ![a.of] = n.gen] ELSE n.acc
      /\ \A m \in Msgs : \/ KeepsRow(n, q, m) \/ GivesBack(a, m)
                         \/ Degrades(a) /\ q.cond = "degraded"
      /\ a.do = "settle" /\ a.as \in Outcomes /\ n.link = "up"
         /\ n.row[a.of[1]] # "none" /\ Leased(n, a.of)
         => q.row[a.of[1]] \in Outcomes
  BY SentIs
<1>2. CASE a.do = "settle" /\ a.of = r
  BY <1>1, <1>2
<1>3. CASE ~(a.do = "settle" /\ a.of = r)
  <2>1. q.acc[r] = n.acc[r]
    BY <1>1, <1>3 DEF Streams
  <2>2. ~GivesBack(a, r[1]) /\ ~Degrades(a)
    BY DEF GivesBack, Degrades, Outcomes
  <2>3. KeepsRow(n, q, r[1])
    BY <1>1, <2>2
  <2>4. Leased(q, r)
    BY <2>1, <2>3 DEF Leased, KeepsRow
  <2>5. QED
    BY <1>3, <2>4
<1>4. QED
  BY <1>2, <1>3

(* A settlement lands when its receipt is in order.                        *)
LEMMA AllSettle ==
    ASSUME NEW n \in Streams, NetSound(n), Wired(n), n.link = "up",
           NEW acts \in Seq(Acts), MadeActs(n, acts),
           NEW r \in Receipts, Made(n, r), Leased(n, r),
           NEW k \in 1 .. Len(acts), acts[k].do = "settle", acts[k].of = r,
           \A i \in 1 .. Len(acts) :
               \/ acts[i].do = "turn" /\ acts[i].is # "failed"
               \/ acts[i].do = "settle" /\ acts[i].as \in Outcomes
    PROVE  PerformAll(n, acts).row[r[1]] \in Outcomes
<1> DEFINE Good(i, x) ==
               /\ Sound(n, x)
               /\ \/ x.row[r[1]] \in Outcomes
                  \/ Leased(x, r) /\ i < k
           good == [i \in 0 .. Len(acts) |-> {x \in Streams : Good(i, x)}]
<1>1. Len(acts) \in Nat /\ \A i \in 1 .. Len(acts) : acts[i] \in Acts
  BY ActsAre
<1>2. n \in good[0]
  BY <1>1 DEF Sound
<1>3. ASSUME NEW i \in 1 .. Len(acts), NEW x, Good(i - 1, x)
      PROVE  Good(i, Performed(x, acts[i]))
  <2> DEFINE a == acts[i]
             q == Performed(x, a)
  <2>1. /\ x \in Streams /\ NetSound(x) /\ Wired(x) /\ a \in Acts
        /\ x.row[r[1]] # "none" /\ r[1] \in Msgs /\ x.link = "up" /\ x.active
    BY <1>1, <1>3, MadeHasRow DEF Sound, Made, Wired
  <2>2. Sound(n, q)
    BY <1>1, <1>3, SoundStep DEF MadeActs
  <2>3. q = Sent(x, a) /\ q.gen = x.gen
    BY <2>1, PerformedIs
  <2> SUFFICES Good(i, q)
    OBVIOUS
  <2>8. /\ i = k => a.do = "settle" /\ a.of = r
        /\ \/ a.do = "turn" /\ a.is # "failed"
           \/ a.do = "settle" /\ a.as \in Outcomes
    OBVIOUS
  <2> HIDE DEF q, a
  <2>4. CASE x.row[r[1]] \in Outcomes
    <3>1. q.row[r[1]] \in Outcomes
      <4> HIDE DEF Good, good
      <4>1. Sent(x, a).row[r[1]] = x.row[r[1]]
        BY <2>1, <2>4, OutcomesStay
      <4>2. QED
        BY <2>3, <2>4, <4>1
    <3>2. QED
      BY <2>2, <3>1
  <2>5. CASE Leased(x, r) /\ i - 1 < k
    <3>1. /\ a.do = "settle" /\ a.of = r => q.row[r[1]] \in Outcomes
          /\ ~(a.do = "settle" /\ a.of = r) => Leased(q, r)
      <4> HIDE DEF Good, good
      <4>1. q.gen = x.gen /\ q = Sent(x, a) /\ Leased(x, r)
        BY <2>3, <2>5
      <4>2. QED
        BY <2>1, <2>8, <4>1, LeasedOn
    <3>2. CASE a.do = "settle" /\ a.of = r
      BY <2>2, <3>1, <3>2
    <3>3. CASE ~(a.do = "settle" /\ a.of = r)
      <4>1. Leased(q, r)
        BY <3>1, <3>3
      <4>2. i # k /\ i < k
        BY <1>1, <2>5, <2>8, <3>3
      <4>3. QED
        BY <2>2, <4>1, <4>2
    <3>4. QED
      BY <3>2, <3>3
  <2>6. QED
    BY <1>3, <2>4, <2>5
<1>4. \A i \in 1 .. Len(acts) : \A x \in good[i - 1] : Performed(x, acts[i]) \in good[i]
  <2>1. TAKE i \in 1 .. Len(acts)
  <2>2. i - 1 \in 0 .. Len(acts) /\ i \in 0 .. Len(acts)
    BY <1>1
  <2>3. TAKE x \in good[i - 1]
  <2>4. Good(i - 1, x)
    BY <2>2, <2>3
  <2>5. Good(i, Performed(x, acts[i]))
    BY <1>3, <2>4
  <2>6. Performed(x, acts[i]) \in Streams
    BY <2>5 DEF Sound
  <2> HIDE DEF Good
  <2>7. QED
    BY <2>2, <2>5, <2>6
<1> HIDE DEF good
<1>5. PerformAll(n, acts) \in good[Len(acts)]
  BY <1>1, <1>2, <1>4, PerformsThrough
<1>6. Good(Len(acts), PerformAll(n, acts))
  <2> HIDE DEF Good
  <2>1. QED
    BY <1>1, <1>5 DEF good
<1>7. QED
  BY <1>1, <1>6

(* A new stream: the introduction, then the acts that have waited.         *)
Introduces(acts) ==
    \A i \in 1 .. Len(acts) :
        \/ acts[i].do = "condition" /\ acts[i].is = "ready"
        \/ acts[i].do = "turn" /\ acts[i].is = "started"

LEMMA Introduced ==
    ASSUME NEW n \in Streams, NetSound(n), Wired(n), n.active,
           NEW acts \in Seq(Acts), Introduces(acts)
    PROVE  /\ Sound(n, PerformAll(n, acts))
           /\ PerformAll(n, acts).acc = n.acc
<1> DEFINE good == {x \in Streams : Sound(n, x) /\ x.acc = n.acc}
<1>1. /\ Len(acts) \in Nat /\ \A i \in 1 .. Len(acts) : acts[i] \in Acts
      /\ \A i \in 1 .. Len(acts) : acts[i].do \notin {"accept", "settle"}
  BY ActsAre DEF Introduces
<1>2. n \in good
  BY DEF Sound
<1>3. \A i \in 1 .. Len(acts) : \A x \in good : Performed(x, acts[i]) \in good
  <2>1. TAKE i \in 1 .. Len(acts)
  <2>2. TAKE x \in good
  <2>3. Sound(n, Performed(x, acts[i]))
    BY <1>1, SoundStep
  <2>4. Performed(x, acts[i]) = Sent(x, acts[i])
    BY <1>1, PerformedIs DEF Sound
  <2>5. Sent(x, acts[i]).acc = x.acc
    BY <1>1, SentIs
  <2>6. QED
    BY <2>3, <2>4, <2>5 DEF Sound
<1> HIDE DEF good
<1>4. PerformAll(n, acts) \in good
  BY <1>1, <1>2, <1>3, Performs
<1>5. QED
  BY <1>4 DEF good

(* The acts that wait for a stream, once it is there.                      *)
LandsAfter(acts, i, x, r) ==
    /\ \/ Leased(x, r)
       \/ x.cond = "degraded" /\ \E a, b \in 1 .. Len(acts) :
              a < b /\ b <= i /\ Accepts(acts[a], r) /\ Degrades(acts[b])
    /\ \/ x.acc[r] # x.gen
       \/ \E a \in 1 .. Len(acts) : a <= i /\ Accepts(acts[a], r)

LEMMA WaitedStep ==
    ASSUME NEW x \in Streams, x.active, x.link = "up",
           NEW acts \in Seq(Acts), NEW i \in 1 .. Len(acts), NEW r \in Receipts,
           x.row[r[1]] # "none", LandsAfter(acts, i - 1, x, r),
           \A j \in 1 .. Len(acts) : acts[j].do = "settle" => acts[j].of # r,
           \A a, b \in 1 .. Len(acts) : a < b /\ Accepts(acts[a], r) =>
               /\ ~GivesBack(acts[b], r[1])
               /\ Degrades(acts[b]) =>
                      \A k \in 1 .. Len(acts) : b < k => ~Readies(acts[k])
    PROVE  LandsAfter(acts, i, Performed(x, acts[i]), r)
<1> DEFINE a == acts[i]
           q == Performed(x, a)
<1>1. Len(acts) \in Nat /\ a \in Acts /\ i \in Nat
  BY ActsAre
<1>2. q = Sent(x, a) /\ q.gen = x.gen /\ r[1] \in Msgs
  BY <1>1, PerformedIs, ReceiptOf
<1> SUFFICES LandsAfter(acts, i, q, r)
  OBVIOUS
<1> HIDE DEF q
<1>3. /\ q.acc = IF a.do \in {"accept", "settle"}
                        THEN [x.acc EXCEPT ![a.of] = x.gen] ELSE x.acc
      /\ \/ KeepsRow(x, q, r[1]) \/ GivesBack(a, r[1])
         \/ Degrades(a) /\ q.cond = "degraded"
      /\ x.cond = "degraded" /\ ~Readies(a) => q.cond = "degraded"
      /\ a.do = "accept" /\ x.acc[a.of] # x.gen /\ x.row[a.of[1]] # "none"
            => q.row[a.of[1]] \in Outcomes \cup {"accepted"}
  BY <1>1, <1>2, SentIs
<1>4. \A j \in 1 .. Len(acts) : j <= i - 1 => j < i /\ j <= i
  BY <1>1
<1>5. CASE Accepts(a, r)
  <2>1. \E b \in 1 .. Len(acts) : b <= i /\ Accepts(acts[b], r)
    BY <1>1, <1>5
  <2>2. a.do = "accept" /\ a.of = r /\ ~GivesBack(a, r[1]) /\ ~Degrades(a) /\ ~Readies(a)
    BY <1>5 DEF Accepts, GivesBack, Degrades, Readies
  <2>3. CASE x.acc[r] # x.gen
    BY <1>3, <2>1, <2>2, <2>3 DEF LandsAfter, Leased
  <2>4. CASE x.acc[r] = x.gen /\ Leased(x, r)
    BY <1>3, <2>1, <2>2, <2>4 DEF LandsAfter, Leased, KeepsRow
  <2>5. CASE ~Leased(x, r)
    <3>1. PICK c \in 1 .. Len(acts), b \in 1 .. Len(acts) :
              c < b /\ b <= i - 1 /\ Accepts(acts[c], r) /\ Degrades(acts[b])
      BY <2>5 DEF LandsAfter
    <3>2. q.cond = "degraded"
      BY <1>3, <2>2, <2>5 DEF LandsAfter
    <3>3. QED
      BY <1>4, <2>1, <3>1, <3>2 DEF LandsAfter
  <2>6. QED
    BY <2>3, <2>4, <2>5
<1>6. CASE ~Accepts(a, r)
  <2>1. q.acc[r] = x.acc[r]
    <3>1. a.do \in {"accept", "settle"} => a.of # r
      BY <1>6 DEF Accepts
    <3>2. QED
      BY <1>3, <3>1 DEF Streams
  <2>2. CASE x.acc[r] # x.gen
    BY <1>2, <2>1, <2>2 DEF LandsAfter, Leased
  <2>3. CASE x.acc[r] = x.gen
    <3>1. PICK c \in 1 .. Len(acts) : c <= i - 1 /\ Accepts(acts[c], r)
      BY <2>3 DEF LandsAfter
    <3>2. c < i /\ c <= i /\ ~GivesBack(a, r[1])
      BY <1>4, <3>1
    <3>3. CASE Leased(x, r) /\ KeepsRow(x, q, r[1])
      BY <1>2, <2>3, <3>1, <3>2, <3>3 DEF LandsAfter, Leased, KeepsRow
    <3>4. CASE Degrades(a) /\ q.cond = "degraded"
      <4>1. i \in 1 .. Len(acts) /\ i <= i
        BY <1>1
      <4>2. QED
        BY <3>1, <3>2, <3>4, <4>1 DEF LandsAfter
    <3>5. CASE ~Leased(x, r)
      <4>1. x.cond = "degraded"
        BY <3>5 DEF LandsAfter
      <4>2. PICK c2 \in 1 .. Len(acts), b \in 1 .. Len(acts) :
                c2 < b /\ b <= i - 1 /\ Accepts(acts[c2], r) /\ Degrades(acts[b])
        BY <3>5 DEF LandsAfter
      <4>3. ~Readies(a) /\ b <= i
        BY <1>4, <4>2
      <4>4. q.cond = "degraded"
        BY <1>3, <4>1, <4>3
      <4>5. QED
        BY <3>1, <3>2, <4>2, <4>3, <4>4 DEF LandsAfter
    <3>6. QED
      BY <1>3, <3>2, <3>3, <3>4, <3>5
  <2>4. QED
    BY <2>2, <2>3
<1>7. QED
  BY <1>5, <1>6

LEMMA OpenedIs ==
    ASSUME NEW n \in Streams, NetSound(n), n.gen < MaxConns, NEW link \in {"up", "lost"},
           NEW acts \in Seq(Acts), Introduces(acts)
    PROVE  LET q == Opened([n EXCEPT !.active = TRUE, !.gen = @ + 1, !.link = link], acts)
           IN  /\ q \in Streams /\ NetSound(q) /\ q.copies = n.copies
               /\ \A r \in Receipts : Unaccepted(n, r) => Unaccepted(q, r)
               /\ \A r \in Receipts : Made(n, r) /\ Lands(n, r) => Lands(q, r)
<1> DEFINE n1 == [n EXCEPT !.active = TRUE, !.gen = @ + 1, !.link = link]
           x == [n1 EXCEPT !.pend = <<>>]
           y == PerformAll(x, acts)
           q == PerformAll(y, n.pend)
<1>1. /\ x.active = TRUE /\ x.gen = n.gen + 1 /\ x.link = link /\ x.pend = <<>>
      /\ x.acc = n.acc /\ x.copies = n.copies /\ x.down = n.down /\ x.sent = n.sent
      /\ x.row = n.row /\ n1.pend = n.pend
  BY DEF Streams
<1>2. n.gen \in Nat /\ n.gen + 1 \in 0 .. MaxConns /\ n.acc \in [Receipts -> 0 .. MaxConns]
  BY StreamConstantsOK DEF Streams
<1>3. x \in Streams
  <2>1. n1 \in Streams
    BY <1>2 DEF Streams
  <2> HIDE DEF n1
  <2>2. <<>> \in Seq(Acts)
    OBVIOUS
  <2>3. QED
    BY <2>1, <2>2 DEF Streams
<1>4. Opened(n1, acts) = q
  BY <1>1 DEF Opened
<1> HIDE DEF n1, x
<1>5. ASSUME NEW r \in Receipts, Unaccepted(n, r) PROVE Unaccepted(x, r)
  <2>1. Len(x.pend) = 0
    BY <1>1
  <2>2. QED
    BY <1>1, <1>5, <2>1 DEF Unaccepted
<1>6. \A r \in Receipts : n.acc[r] <= n.gen /\ n.acc[r] \in Nat
  BY <1>2, StreamConstantsOK DEF NetSound
<1>7. NetSound(x) /\ Wired(x)
  <2>1. \A r \in Receipts : x.acc[r] <= x.gen
    BY <1>1, <1>2, <1>6
  <2>2. \A r \in Receipts : ~Made(x, r) => Unaccepted(x, r)
    BY <1>1, <1>5 DEF NetSound, Made
  <2>3. QED
    BY <1>1, <1>2, <2>1, <2>2 DEF NetSound, Wired
<1>8. Sound(x, y) /\ y.acc = x.acc
  BY <1>1, <1>3, <1>7, Introduced
<1>9. /\ Len(n.pend) \in Nat /\ n.pend \in Seq(Acts)
      /\ \A i \in 1 .. Len(n.pend) : n.pend[i] \in Acts
  BY ActsAre DEF Streams
<1>10. MadeActs(y, n.pend)
  <2> SUFFICES ASSUME NEW i \in 1 .. Len(n.pend), n.pend[i].do \in {"accept", "settle"}
               PROVE  Made(y, n.pend[i].of)
    BY DEF MadeActs
  <2>1. n.pend[i].of \in Receipts
    BY <1>9, ActOf
  <2>2. Made(n, n.pend[i].of)
    BY <2>1 DEF NetSound, Unaccepted, Concerns
  <2>3. QED
    BY <1>1, <1>8, <2>2 DEF Made, Sound
<1> HIDE DEF y
<1>11. Sound(y, q)
  BY <1>8, <1>9, <1>10, AllSound DEF Sound
<1>12. /\ q \in Streams /\ NetSound(q) /\ q.copies = n.copies /\ q.link = link
       /\ q.pend = <<>> /\ q.active = TRUE
  BY <1>1, <1>8, <1>11 DEF Sound, Wired
<1>13. ASSUME NEW r \in Receipts, Unaccepted(n, r) PROVE Unaccepted(q, r)
  <2>1. Unaccepted(y, r)
    <3>1. \A i \in 1 .. Len(acts) : ~Concerns(acts[i], r)
      BY DEF Introduces, Concerns
    <3>2. QED
      BY <1>3, <1>5, <1>13, <3>1, AllUnaccepted DEF y
  <2>2. \A i \in 1 .. Len(n.pend) : ~Concerns(n.pend[i], r)
    BY <1>13 DEF Unaccepted
  <2>3. QED
    BY <1>8, <1>9, <2>1, <2>2, AllUnaccepted DEF Sound
<1>14. ASSUME NEW r \in Receipts, Made(n, r), Lands(n, r) PROVE Lands(q, r)
  <2>1. CASE link = "up"
    <3> DEFINE acts2 == n.pend
               Good(i, z) == Sound(y, z) /\ LandsAfter(acts2, i, z, r)
               good == [i \in 0 .. Len(acts2) |-> {z \in Streams : Good(i, z)}]
    <3>1. Len(acts2) \in Nat /\ acts2 \in Seq(Acts) /\ y \in Streams
      BY <1>8, <1>9 DEF Sound
    <3>2. y.acc[r] # y.gen
      <4>1. y.acc[r] = n.acc[r] /\ y.gen = n.gen + 1
        BY <1>1, <1>8 DEF Sound
      <4>2. QED
        BY <1>2, <1>6, <4>1
    <3>3. Good(0, y)
      BY <1>8, <3>2 DEF Sound, LandsAfter, Leased
    <3>4. y \in good[0]
      <4> HIDE DEF Good
      <4>1. QED
        BY <3>1, <3>3
    <3>5. ASSUME NEW i \in 1 .. Len(acts2), NEW z, Good(i - 1, z)
          PROVE  Good(i, Performed(z, acts2[i]))
      <4>1. Sound(y, Performed(z, acts2[i]))
        BY <1>9, <1>10, <3>5, SoundStep DEF MadeActs
      <4>2. /\ z \in Streams /\ z.active /\ z.link = "up" /\ NetSound(z)
            /\ z.copies = n.copies
        BY <1>1, <1>8, <2>1, <3>5 DEF Sound
      <4>3. z.row[r[1]] # "none"
        BY <1>14, <4>2, MadeHasRow DEF Made
      <4>4. \A j \in 1 .. Len(acts2) : acts2[j].do = "settle" => acts2[j].of # r
        BY <1>14 DEF Lands
      <4>5. \A a, b \in 1 .. Len(acts2) : a < b /\ Accepts(acts2[a], r) =>
               /\ ~GivesBack(acts2[b], r[1])
               /\ Degrades(acts2[b]) =>
                      \A k \in 1 .. Len(acts2) : b < k => ~Readies(acts2[k])
        BY <1>14 DEF Lands
      <4>6. LandsAfter(acts2, i - 1, z, r)
        BY <3>5
      <4> HIDE DEF acts2
      <4>7. LandsAfter(acts2, i, Performed(z, acts2[i]), r)
        BY <3>1, <4>2, <4>3, <4>4, <4>5, <4>6, WaitedStep
      <4>8. QED
        BY <4>1, <4>7
    <3> HIDE DEF acts2
    <3>6. \A i \in 1 .. Len(acts2) : \A z \in good[i - 1] :
              Performed(z, acts2[i]) \in good[i]
      <4>1. TAKE i \in 1 .. Len(acts2)
      <4>2. i - 1 \in 0 .. Len(acts2) /\ i \in 0 .. Len(acts2)
        BY <3>1
      <4>3. TAKE z \in good[i - 1]
      <4>4. Good(i - 1, z)
        BY <4>2, <4>3
      <4>5. Good(i, Performed(z, acts2[i]))
        BY <3>5, <4>4
      <4>6. Performed(z, acts2[i]) \in Streams
        BY <4>5 DEF Sound
      <4> HIDE DEF Good
      <4>7. QED
        BY <4>2, <4>5, <4>6
    <3> HIDE DEF good
    <3>7. PerformAll(y, acts2) \in good[Len(acts2)]
      BY <3>1, <3>4, <3>6, PerformsThrough
    <3>8. Good(Len(acts2), PerformAll(y, acts2))
      <4> HIDE DEF Good
      <4>1. QED
        BY <3>1, <3>7 DEF good
    <3>9. LandsAfter(acts2, Len(acts2), q, r)
      BY <3>8 DEF acts2
    <3>10. Len(q.pend) = 0
      BY <1>12
    <3>11. QED
      BY <3>9, <3>10 DEF Lands, LandsAfter
  <2>2. CASE link # "up"
    <3>1. Len(q.pend) = 0
      BY <1>12
    <3>2. QED
      BY <1>12, <2>2, <3>1 DEF Lands
  <2>3. QED
    BY <2>1, <2>2
<1> HIDE DEF q
<1>15. QED
  BY <1>4, <1>12, <1>13, <1>14 DEF n1

(* The sequence ol is o and then l.                                        *)
Parts(o, l, ol) ==
    /\ Len(o) \in Nat /\ Len(l) \in Nat /\ Len(ol) = Len(o) + Len(l)
    /\ \A i \in 1 .. Len(ol) :
           \/ i \in 1 .. Len(o) /\ ol[i] = o[i]
           \/ \E k \in 1 .. Len(l) : i = Len(o) + k /\ ol[i] = l[k]
    /\ \A i \in 1 .. Len(o) : i \in 1 .. Len(ol) /\ ol[i] = o[i]
    /\ \A k \in 1 .. Len(l) : \E i \in 1 .. Len(ol) : i = Len(o) + k /\ ol[i] = l[k]

LEMMA ConcatParts ==
    ASSUME NEW S, NEW o \in Seq(S), NEW l \in Seq(S)
    PROVE  o \o l \in Seq(S) /\ Parts(o, l, o \o l)
<1>1. PICK ol : ol = o \o l
  OBVIOUS
<1>2. /\ Len(o) \in Nat /\ Len(l) \in Nat /\ ol \in Seq(S)
      /\ Len(ol) = Len(o) + Len(l)
      /\ \A i \in 1 .. Len(o) + Len(l) :
             ol[i] = IF i <= Len(o) THEN o[i] ELSE l[i - Len(o)]
  BY <1>1, ConcatProperties, LenProperties
<1>3. ASSUME NEW i \in 1 .. Len(ol)
      PROVE  \/ i \in 1 .. Len(o) /\ ol[i] = o[i]
             \/ \E k \in 1 .. Len(l) : i = Len(o) + k /\ ol[i] = l[k]
  <2>1. CASE i <= Len(o)
    BY <1>2, <2>1
  <2>2. CASE ~(i <= Len(o))
    <3>1. PICK k : k = i - Len(o)
      OBVIOUS
    <3>2. k \in 1 .. Len(l) /\ i = Len(o) + k /\ ol[i] = l[k]
      BY <1>2, <2>2, <3>1
    <3>3. QED
      BY <3>2
  <2>3. QED
    BY <2>1, <2>2
<1>4. \A i \in 1 .. Len(o) : i \in 1 .. Len(ol) /\ ol[i] = o[i]
  BY <1>2
<1>5. ASSUME NEW k \in 1 .. Len(l)
      PROVE  \E i \in 1 .. Len(ol) : i = Len(o) + k /\ ol[i] = l[k]
  <2>1. PICK i : i = Len(o) + k
    OBVIOUS
  <2>2. i \in 1 .. Len(ol) /\ ~(i <= Len(o)) /\ i - Len(o) = k
    BY <1>2, <2>1
  <2>3. QED
    BY <1>2, <2>1, <2>2
<1>6. Parts(o, l, ol)
  BY <1>2, <1>3, <1>4, <1>5 DEF Parts
<1>7. QED
  BY <1>1, <1>2, <1>6

LEMMA Introducing ==
    ASSUME Typed
    PROVE  Introduction \in Seq(Acts) /\ Introduces(Introduction)
<1>1. seat.turn \in Turns \cup {NoTurn}
  BY DEF Typed, Seats
<1>2. /\ <<Condition("ready")>> \in Seq(Acts) /\ <<>> \in Seq(Acts)
      /\ (seat.turn # NoTurn => <<Turn(seat.turn, "started")>> \in Seq(Acts))
  BY <1>1, ActsTyped
<1> DEFINE a == <<Condition("ready")>>
           b == IF seat.turn = NoTurn THEN <<>> ELSE <<Turn(seat.turn, "started")>>
<1>3. /\ a \in Seq(Acts) /\ b \in Seq(Acts)
      /\ Introduces(a) /\ Introduces(b) /\ Introduces(<<>>)
  BY <1>2 DEF Introduces, Condition, Turn
<1>4. Introduction = <<>> \/ Introduction = a \o b
  BY DEF Introduction
<1> HIDE DEF a, b
<1>5. PICK ab : ab = a \o b
  OBVIOUS
<1>6. ab \in Seq(Acts) /\ Introduces(ab)
  <2>1. ab \in Seq(Acts) /\ Parts(a, b, ab)
    BY <1>3, <1>5, ConcatParts
  <2>2. \A i \in 1 .. Len(ab) :
            \/ \E k \in 1 .. Len(a) : ab[i] = a[k]
            \/ \E k \in 1 .. Len(b) : ab[i] = b[k]
    BY <2>1 DEF Parts
  <2>3. QED
    BY <1>3, <2>1, <2>2 DEF Introduces
<1>7. QED
  BY <1>2, <1>3, <1>4, <1>5, <1>6

(* Receipts in order.                                                      *)
LEMMA OrderedParts ==
    ASSUME NEW a \in Seq(Receipts), NEW b \in Seq(Receipts), InOrder(a \o b)
    PROVE  /\ InOrder(a) /\ InOrder(b)
           /\ \A x \in ToSet(a), y \in ToSet(b) : x[1] = y[1] => x[2] < y[2]
<1>1. PICK ab : ab = a \o b
  OBVIOUS
<1>2. /\ Len(a) \in Nat /\ Len(b) \in Nat
      /\ \A i \in 1 .. Len(a) : i \in 1 .. Len(ab) /\ ab[i] = a[i]
      /\ \A k \in 1 .. Len(b) : \E i \in 1 .. Len(ab) : i = Len(a) + k /\ ab[i] = b[k]
  BY <1>1, ConcatParts DEF Parts
<1>3. \A i, j \in 1 .. Len(ab) : i < j /\ ab[i][1] = ab[j][1] => ab[i][2] < ab[j][2]
  BY <1>1 DEF InOrder
<1>4. InOrder(a)
  BY <1>2, <1>3 DEF InOrder
<1>5. InOrder(b)
  <2> SUFFICES ASSUME NEW i \in 1 .. Len(b), NEW j \in 1 .. Len(b), i < j,
                      b[i][1] = b[j][1]
               PROVE  b[i][2] < b[j][2]
    BY DEF InOrder
  <2>1. PICK x \in 1 .. Len(ab) : x = Len(a) + i /\ ab[x] = b[i]
    BY <1>2
  <2>2. PICK y \in 1 .. Len(ab) : y = Len(a) + j /\ ab[y] = b[j]
    BY <1>2
  <2>3. x < y
    BY <1>2, <2>1, <2>2
  <2>4. QED
    BY <1>3, <2>1, <2>2, <2>3
<1>6. ASSUME NEW x \in ToSet(a), NEW y \in ToSet(b), x[1] = y[1]
      PROVE  x[2] < y[2]
  <2>1. PICK i \in 1 .. Len(a) : x = a[i]
    BY ElementsOf
  <2>2. PICK k \in 1 .. Len(b) : y = b[k]
    BY ElementsOf
  <2>3. PICK j \in 1 .. Len(ab) : j = Len(a) + k /\ ab[j] = b[k]
    BY <1>2
  <2>4. i \in 1 .. Len(ab) /\ ab[i] = a[i] /\ i < j
    BY <1>2, <2>3
  <2>5. QED
    BY <1>3, <1>6, <2>1, <2>2, <2>3, <2>4
<1>7. QED
  BY <1>4, <1>5, <1>6

(* Of the last copy of a message nothing comes behind it in the queue.     *)
LEMMA QueuedParts ==
    ASSUME NEW n \in Streams, NEW a \in Seq(Receipts), NEW b \in Seq(Receipts),
           Queued(a \o b, n)
    PROVE  /\ Queued(a, n) /\ Queued(b, n) /\ ToSet(a \o b) = ToSet(a) \cup ToSet(b)
           /\ \A r \in ToSet(a) : Latest(n, r) => NoCopy(b, r[1])
<1>1. ToSet(a \o b) = ToSet(a) \cup ToSet(b)
  BY ElementsOf
<1>2. /\ InOrder(a) /\ InOrder(b)
      /\ \A x \in ToSet(a), y \in ToSet(b) : x[1] = y[1] => x[2] < y[2]
  BY OrderedParts DEF Queued
<1>3. Queued(a, n) /\ Queued(b, n)
  BY <1>1, <1>2 DEF Queued
<1>4. ASSUME NEW x \in ToSet(a), Latest(n, x), NEW y \in ToSet(b), x[1] = y[1]
      PROVE  FALSE
  <2>1. x \in Receipts /\ y \in Receipts
    BY ElementsOf
  <2>2. x[2] < y[2] /\ y[2] <= n.copies[y[1]] /\ x[2] = n.copies[x[1]]
    BY <1>2, <1>3, <1>4 DEF Queued, Made, Latest
  <2>3. x[2] \in Int /\ y[2] \in Int
    BY <2>1, ReceiptOf, StreamConstantsOK
  <2>4. QED
    BY <1>4, <2>2, <2>3
<1>5. QED
  BY <1>1, <1>3, <1>4 DEF NoCopy

(* A turn may come to have nothing, and turns with something to be over.   *)
LEMMA PlacedLess ==
    ASSUME NEW s, NEW q, NEW n, NEW U, NEW A, Placed(s, q, n, U, A),
           NEW s2, NEW q2, NEW U2, NEW A2,
           ToSet(q2) \subseteq ToSet(q), InOrder(q2),
           \A t \in Turns : /\ s2.awaiting[t] = s.awaiting[t] \/ s2.awaiting[t] = <<>>
                            /\ s2.held[t] = s.held[t] \/ s2.held[t] = <<>>,
           U2 \subseteq Turns, A2 \subseteq Turns,
           \A t \in U2 : t \in U \/ s2.awaiting[t] = <<>>,
           \A t \in A2 : t \in A \/ s2.held[t] = <<>>
    PROVE  Placed(s2, q2, n, U2, A2)
<1>1. ToSet(<<>>) = {}
  BY DEF ToSet
<1>2. Queued(q2, n)
  BY DEF Placed, Queued
<1>3. InTurns(s2, n)
  BY <1>1 DEF Placed, InTurns
<1>4. Awaits(s2, q2, n, U2, A2)
  <2> SUFFICES ASSUME NEW t \in U2, NEW r \in ToSet(s2.awaiting[t]), Latest(n, r)
               PROVE  /\ Unaccepted(n, r) /\ NoCopy(q2, r[1])
                      /\ \A t2 \in A2 : r \notin ToSet(s2.held[t2])
                      /\ \A t2 \in U2 : t2 # t => r \notin ToSet(s2.awaiting[t2])
    BY DEF Awaits
  <2>1. t \in U /\ t \in Turns /\ s2.awaiting[t] = s.awaiting[t]
    BY <1>1
  <2>2. /\ Unaccepted(n, r) /\ NoCopy(q, r[1])
        /\ \A t2 \in A : r \notin ToSet(s.held[t2])
        /\ \A t2 \in U : t2 # t => r \notin ToSet(s.awaiting[t2])
    BY <2>1 DEF Placed, Awaits
  <2>3. NoCopy(q2, r[1])
    BY <2>2 DEF NoCopy
  <2>4. QED
    BY <1>1, <2>2, <2>3
<1>5. Landing(s2, q2, n, A2)
  <2> SUFFICES ASSUME NEW t \in A2, NEW r \in ToSet(s2.held[t]), Latest(n, r)
               PROVE  Lands(n, r) /\ NoCopy(q2, r[1])
    BY DEF Landing
  <2>1. t \in A /\ s2.held[t] = s.held[t]
    BY <1>1
  <2>2. Lands(n, r) /\ NoCopy(q, r[1])
    BY <2>1 DEF Placed, Landing
  <2>3. QED
    BY <2>2 DEF NoCopy
<1>6. QED
  BY <1>2, <1>3, <1>4, <1>5 DEF Placed

(* Acts that leave alone what waits, and settle nothing that is held.      *)
LeavesAlone(s, q, n, U, A, acts) ==
    /\ MadeActs(n, acts)
    /\ \A r \in ToSet(q) : Latest(n, r) =>
           \A i \in 1 .. Len(acts) : ~Concerns(acts[i], r)
    /\ \A t \in U : \A r \in ToSet(s.awaiting[t]) : Latest(n, r) =>
           \A i \in 1 .. Len(acts) : ~Concerns(acts[i], r)
    /\ \A t \in A : \A r \in ToSet(s.held[t]) : Latest(n, r) =>
           \A i \in 1 .. Len(acts) : /\ acts[i].do = "settle" => acts[i].of # r
                                     /\ ~GivesBack(acts[i], r[1])
                                     /\ ~Readies(acts[i])

LEMMA PlacedActs ==
    ASSUME NEW s \in Seats, NEW q \in Seq(Receipts), NEW n \in Streams,
           NetSound(n), Wired(n), NEW U \in SUBSET Turns, NEW A \in SUBSET Turns,
           Placed(s, q, n, U, A), NEW acts \in Seq(Acts), LeavesAlone(s, q, n, U, A, acts)
    PROVE  Sound(n, PerformAll(n, acts)) /\ Placed(s, q, PerformAll(n, acts), U, A)
<1> DEFINE n2 == PerformAll(n, acts)
<1>1. Sound(n, n2)
  BY AllSound DEF LeavesAlone
<1>2. \A r : (Made(n2, r) <=> Made(n, r)) /\ (Latest(n2, r) <=> Latest(n, r))
  BY <1>1 DEF Sound, Made, Latest
<1>3. /\ \A r \in ToSet(q) : r \in Receipts
      /\ \A t \in Turns : \A r \in ToSet(s.awaiting[t]) : r \in Receipts
      /\ \A t \in Turns : \A r \in ToSet(s.held[t]) : r \in Receipts
  BY ElementsOf DEF Seats
<1>4. \A r \in ToSet(q) : Latest(n, r) => Unaccepted(n2, r)
  BY <1>3, AllUnaccepted DEF LeavesAlone, Placed, Queued
<1>5. \A t \in U : \A r \in ToSet(s.awaiting[t]) : Latest(n, r) => Unaccepted(n2, r)
  BY <1>3, AllUnaccepted DEF LeavesAlone, Placed, Awaits
<1>6. \A t \in A : \A r \in ToSet(s.held[t]) : Latest(n, r) => Lands(n2, r)
  BY <1>3, AllLand DEF LeavesAlone, Placed, Landing, InTurns
<1> HIDE DEF n2
<1>7. Queued(q, n2)
  BY <1>2, <1>4 DEF Placed, Queued
<1>8. InTurns(s, n2)
  BY <1>2 DEF Placed, InTurns
<1>9. Awaits(s, q, n2, U, A)
  BY <1>2, <1>5 DEF Placed, Awaits
<1>10. Landing(s, q, n2, A)
  BY <1>2, <1>6 DEF Placed, Landing
<1>11. Placed(s, q, n2, U, A)
  BY <1>7, <1>8, <1>9, <1>10 DEF Placed
<1>12. QED
  BY <1>1, <1>11 DEF n2

(* The acts of receipts.                                                   *)
LEMMA AcceptsAre ==
    ASSUME NEW s \in Seq(Receipts), NEW acts, acts = AcceptEach(s)
    PROVE  /\ Len(acts) = Len(s)
           /\ \A i \in 1 .. Len(acts) : \E r \in ToSet(s) :
                  acts[i].do = "accept" /\ acts[i].of = r
           /\ \A r \in ToSet(s) : \E i \in 1 .. Len(acts) : acts[i] = AcceptOf(r)
<1>1. /\ DOMAIN s = 1 .. Len(s) /\ Len(s) \in Nat
      /\ \A i \in 1 .. Len(s) : s[i] \in ToSet(s)
      /\ \A r \in ToSet(s) : \E i \in 1 .. Len(s) : r = s[i]
  BY ElementsOf
<1>2. Len(acts) = Len(s) /\ \A i \in 1 .. Len(s) : acts[i] = AcceptOf(s[i])
  BY <1>1 DEF AcceptEach
<1>3. \A i \in 1 .. Len(s) : acts[i].do = "accept" /\ acts[i].of = s[i]
  BY <1>1 DEF AcceptEach, AcceptOf
<1>4. QED
  BY <1>1, <1>2, <1>3

(* The receipts rs are settled, and by none but these acts.                *)
Settling(rs, acts, d) ==
    /\ \A i \in 1 .. Len(acts) : \E r \in rs :
           acts[i].do = "settle" /\ acts[i].of = r /\ acts[i].as = d
    /\ \A r \in rs : \E i \in 1 .. Len(acts) :
           acts[i].do = "settle" /\ acts[i].of = r /\ acts[i].as = d

LEMMA SettlesAre ==
    ASSUME NEW s \in Seq(Receipts), NEW d
    PROVE  Settling(ToSet(s), SettleEach(s, d), d)
<1>1. /\ DOMAIN s = 1 .. Len(s) /\ Len(s) \in Nat
      /\ \A i \in 1 .. Len(s) : s[i] \in ToSet(s)
      /\ \A r \in ToSet(s) : \E i \in 1 .. Len(s) : r = s[i]
  BY ElementsOf
<1>2. PICK acts : acts = SettleEach(s, d)
  OBVIOUS
<1>3. /\ Len(acts) = Len(s)
      /\ \A i \in 1 .. Len(s) :
             acts[i].do = "settle" /\ acts[i].of = s[i] /\ acts[i].as = d
  BY <1>1, <1>2 DEF SettleEach, SettleOf
<1>4. Settling(ToSet(s), acts, d)
  BY <1>1, <1>3 DEF Settling
<1>5. QED
  BY <1>2, <1>4

LEMMA EmptyHasNone == ToSet(<<>>) = {}
BY DEF ToSet

(* Receipts leave the queue: they are given back, join a turn or wait.     *)
LEMMA PlacedGiven ==
    ASSUME NEW s \in Seats, NEW ev \in Seq(Receipts), NEW rest \in Seq(Receipts),
           NEW n \in Streams, NetSound(n), Wired(n),
           NEW U \in SUBSET Turns, NEW A \in SUBSET Turns,
           Placed(s, ev \o rest, n, U, A)
    PROVE  LET n2 == PerformAll(n, SettleEach(ev, "deferred"))
           IN  Sound(n, n2) /\ Placed(s, rest, n2, U, A)
<1> DEFINE acts == SettleEach(ev, "deferred")
<1>1. acts \in Seq(Acts)
  BY ActsTyped
<1>2. \A i \in 1 .. Len(acts) : \E r \in ToSet(ev) :
          /\ acts[i].do = "settle" /\ acts[i].of = r /\ acts[i].as = "deferred"
  <2>1. Settling(ToSet(ev), acts, "deferred")
    BY SettlesAre
  <2> HIDE DEF acts
  <2>2. QED
    BY <2>1 DEF Settling
<1> HIDE DEF acts
<1>3. /\ Queued(ev, n) /\ Queued(rest, n)
      /\ ToSet(ev \o rest) = ToSet(ev) \cup ToSet(rest)
      /\ \A r \in ToSet(ev) : Latest(n, r) => NoCopy(rest, r[1])
  BY QueuedParts DEF Placed
<1>4. Placed(s, rest, n, U, A)
  BY <1>3, PlacedLess DEF Queued
<1>5. LeavesAlone(s, rest, n, U, A, acts)
  <2>1. MadeActs(n, acts)
    BY <1>2, <1>3 DEF MadeActs, Queued
  <2>2. \A r \in ToSet(rest) : Latest(n, r) => \A i \in 1 .. Len(acts) : ~Concerns(acts[i], r)
    BY <1>2, <1>3 DEF Concerns, NoCopy
  <2>3. \A t \in U : \A r \in ToSet(s.awaiting[t]) : Latest(n, r) =>
           \A i \in 1 .. Len(acts) : ~Concerns(acts[i], r)
    BY <1>2, <1>3 DEF Concerns, NoCopy, Placed, Awaits
  <2>4. \A t \in A : \A r \in ToSet(s.held[t]) : Latest(n, r) =>
           \A i \in 1 .. Len(acts) : /\ acts[i].do = "settle" => acts[i].of # r
                                     /\ ~GivesBack(acts[i], r[1])
                                     /\ ~Readies(acts[i])
    BY <1>2, <1>3 DEF GivesBack, Readies, NoCopy, Placed, Landing
  <2>5. QED
    BY <2>1, <2>2, <2>3, <2>4 DEF LeavesAlone
<1>6. Sound(n, PerformAll(n, acts)) /\ Placed(s, rest, PerformAll(n, acts), U, A)
  BY <1>1, <1>4, <1>5, PlacedActs
<1>7. QED
  BY <1>6 DEF acts

LEMMA PlacedJoined ==
    ASSUME NEW s \in Seats, NEW ev \in Seq(Receipts), NEW rest \in Seq(Receipts),
           NEW n \in Streams, NetSound(n), Wired(n),
           NEW U \in SUBSET Turns, NEW A \in SUBSET Turns,
           Placed(s, ev \o rest, n, U, A), NEW t \in Turns,
           NEW s2, s2.awaiting = s.awaiting,
           s2.held = [s.held EXCEPT ![t] = @ \o ev]
    PROVE  LET n2 == PerformAll(n, AcceptEach(ev))
           IN  Sound(n, n2) /\ Placed(s2, rest, n2, U, A)
<1> DEFINE acts == AcceptEach(ev)
           n2 == PerformAll(n, acts)
<1>1. acts \in Seq(Acts)
  BY ActsTyped
<1>2. /\ \A i \in 1 .. Len(acts) : \E r \in ToSet(ev) :
             acts[i].do = "accept" /\ acts[i].of = r
      /\ \A r \in ToSet(ev) : \E i \in 1 .. Len(acts) : acts[i] = AcceptOf(r)
  BY AcceptsAre
<1> HIDE DEF acts
<1>3. /\ Queued(ev, n) /\ Queued(rest, n)
      /\ ToSet(ev \o rest) = ToSet(ev) \cup ToSet(rest)
      /\ \A r \in ToSet(ev) : Latest(n, r) => NoCopy(rest, r[1])
  BY QueuedParts DEF Placed
<1>4. Placed(s, rest, n, U, A)
  BY <1>3, PlacedLess DEF Queued
<1>5. MadeActs(n, acts)
  BY <1>2, <1>3 DEF MadeActs, Queued
<1>6. LeavesAlone(s, rest, n, U, A, acts)
  <2>1. \A r \in ToSet(rest) : Latest(n, r) => \A i \in 1 .. Len(acts) : ~Concerns(acts[i], r)
    BY <1>2, <1>3 DEF Concerns, NoCopy
  <2>2. \A t2 \in U : \A r \in ToSet(s.awaiting[t2]) : Latest(n, r) =>
           \A i \in 1 .. Len(acts) : ~Concerns(acts[i], r)
    BY <1>2, <1>3 DEF Concerns, NoCopy, Placed, Awaits
  <2>3. \A t2 \in A : \A r \in ToSet(s.held[t2]) : Latest(n, r) =>
           \A i \in 1 .. Len(acts) : /\ acts[i].do = "settle" => acts[i].of # r
                                     /\ ~GivesBack(acts[i], r[1])
                                     /\ ~Readies(acts[i])
    BY <1>2 DEF GivesBack, Readies
  <2>4. QED
    BY <1>5, <2>1, <2>2, <2>3 DEF LeavesAlone
<1>7. Sound(n, n2) /\ Placed(s, rest, n2, U, A)
  BY <1>1, <1>4, <1>6, PlacedActs
<1>8. \A r \in ToSet(ev) : Latest(n, r) => Lands(n2, r)
  <2> SUFFICES ASSUME NEW r \in ToSet(ev), Latest(n, r) PROVE Lands(n2, r)
    OBVIOUS
  <2>1. r \in Receipts /\ Made(n, r) /\ Unaccepted(n, r)
    BY <1>3, ElementsOf DEF Queued
  <2>2. PICK k \in 1 .. Len(acts) : acts[k] = AcceptOf(r)
    BY <1>2
  <2>3. \A i \in 1 .. Len(acts) : acts[i].do # "settle" /\ (Readies(acts[i]) => i = 1)
    BY <1>2 DEF Readies
  <2>4. QED
    BY <1>1, <1>5, <2>1, <2>2, <2>3, AllAccepted
<1> HIDE DEF n2
<1>9. \A r : (Made(n2, r) <=> Made(n, r)) /\ (Latest(n2, r) <=> Latest(n, r))
  BY <1>7 DEF Sound, Made, Latest
<1>10. /\ \A t2 \in Turns : t2 # t => s2.held[t2] = s.held[t2]
       /\ ToSet(s2.held[t]) = ToSet(s.held[t]) \cup ToSet(ev)
  <2>1. s.held \in [Turns -> Seq(Receipts)] /\ s.held[t] \in Seq(Receipts)
    BY DEF Seats
  <2>2. s2.held[t] = s.held[t] \o ev /\ \A t2 \in Turns : t2 # t => s2.held[t2] = s.held[t2]
    BY <2>1
  <2>3. QED
    BY <2>1, <2>2, ElementsOf
<1>11. \A t2 \in Turns : \A r \in ToSet(s2.held[t2]) : r \in ToSet(s.held[t2]) \/ r \in ToSet(ev)
  BY <1>10
<1>12. InTurns(s2, n2)
  BY <1>3, <1>7, <1>9, <1>11 DEF Placed, InTurns, Queued
<1>13. Awaits(s2, rest, n2, U, A)
  <2>1. \A t2 \in U : \A r \in ToSet(s.awaiting[t2]) : Latest(n, r) => r \notin ToSet(ev)
    BY <1>3 DEF Placed, Awaits, NoCopy
  <2>2. QED
    BY <1>7, <1>9, <1>11, <2>1 DEF Placed, Awaits
<1>14. Landing(s2, rest, n2, A)
  BY <1>3, <1>7, <1>8, <1>9, <1>11 DEF Placed, Landing
<1>15. Placed(s2, rest, n2, U, A)
  BY <1>7, <1>12, <1>13, <1>14 DEF Placed
<1>16. QED
  BY <1>7, <1>15 DEF n2, acts

LEMMA PlacedAwaiting ==
    ASSUME NEW s \in Seats, NEW ev \in Seq(Receipts), NEW rest \in Seq(Receipts),
           NEW n \in Streams, NEW U \in SUBSET Turns, NEW A \in SUBSET Turns,
           Placed(s, ev \o rest, n, U, A), NEW t \in Turns,
           NEW s2, s2.held = s.held, s2.awaiting = [s.awaiting EXCEPT ![t] = ev]
    PROVE  Placed(s2, rest, n, U, A)
<1>1. /\ Queued(ev, n) /\ Queued(rest, n)
      /\ ToSet(ev \o rest) = ToSet(ev) \cup ToSet(rest)
      /\ \A r \in ToSet(ev) : Latest(n, r) => NoCopy(rest, r[1])
  BY QueuedParts DEF Placed
<1>2. Placed(s, rest, n, U, A)
  BY <1>1, PlacedLess DEF Queued
<1>3. s2.awaiting[t] = ev /\ \A t2 \in Turns : t2 # t => s2.awaiting[t2] = s.awaiting[t2]
  BY DEF Seats
<1>4. InTurns(s2, n)
  BY <1>1, <1>2, <1>3 DEF Placed, InTurns, Queued
<1>5. Landing(s2, rest, n, A)
  BY <1>2 DEF Placed, Landing
<1>6. \A t2 \in A : \A r \in ToSet(s.held[t2]) : Latest(n, r) => r \notin ToSet(ev)
  BY <1>1 DEF Placed, Landing, NoCopy
<1>7. \A t2 \in U : \A r \in ToSet(s.awaiting[t2]) : Latest(n, r) => r \notin ToSet(ev)
  BY <1>1 DEF Placed, Awaits, NoCopy
<1>8. Awaits(s2, rest, n, U, A)
  <2> SUFFICES ASSUME NEW u \in U, NEW r \in ToSet(s2.awaiting[u]), Latest(n, r)
               PROVE  /\ Unaccepted(n, r) /\ NoCopy(rest, r[1])
                      /\ \A t2 \in A : r \notin ToSet(s2.held[t2])
                      /\ \A t2 \in U : t2 # u => r \notin ToSet(s2.awaiting[t2])
    BY DEF Awaits
  <2>1. CASE u = t
    <3>1. r \in ToSet(ev)
      BY <1>3, <2>1
    <3>2. \A t2 \in U : t2 # u => r \notin ToSet(s2.awaiting[t2])
      BY <1>3, <1>7, <2>1, <3>1
    <3>3. QED
      BY <1>1, <1>6, <3>1, <3>2 DEF Queued
  <2>2. CASE u # t
    <3>1. r \in ToSet(s.awaiting[u])
      BY <1>3, <2>2
    <3>2. /\ Unaccepted(n, r) /\ NoCopy(rest, r[1])
          /\ \A t2 \in A : r \notin ToSet(s.held[t2])
          /\ \A t2 \in U : t2 # u => r \notin ToSet(s.awaiting[t2])
      BY <1>2, <3>1 DEF Placed, Awaits
    <3>3. QED
      BY <1>3, <1>7, <3>1, <3>2
  <2>3. QED
    BY <2>1, <2>2
<1>9. QED
  BY <1>2, <1>4, <1>5, <1>8 DEF Placed

(* A turn starts: what awaited it is accepted and held for it.             *)
LEMMA StartedAre ==
    ASSUME NEW s \in Seats, NEW t \in Turns, NEW acts, acts = StartedActs(s, t)
    PROVE  /\ acts \in Seq(Acts)
           /\ \A i \in 1 .. Len(acts) :
                 /\ \/ acts[i].do \in {"condition", "turn"}
                    \/ /\ acts[i].do = "accept"
                       /\ acts[i].of \in ToSet(s.awaiting[t])
                 /\ Readies(acts[i]) => i = 1
           /\ \A r \in ToSet(s.awaiting[t]) : \E i \in 1 .. Len(acts) : acts[i] = AcceptOf(r)
<1>1. PICK a, b : a = <<Condition("ready"), Turn(t, "started")>>
                  /\ b = AcceptEach(s.awaiting[t])
  OBVIOUS
<1>2. acts = a \o b
  BY <1>1 DEF StartedActs
<1>3. s.awaiting[t] \in Seq(Receipts)
  BY DEF Seats
<1>4. a \in Seq(Acts) /\ b \in Seq(Acts)
  BY <1>1, <1>3, ActsTyped
<1>5. /\ Len(a) = 2 /\ a[1].do = "condition" /\ a[2].do = "turn"
      /\ \A i \in 1 .. 2 : i = 1 \/ i = 2
  BY <1>1 DEF Condition, Turn
<1>6. /\ \A i \in 1 .. Len(b) : \E r \in ToSet(s.awaiting[t]) :
             b[i].do = "accept" /\ b[i].of = r
      /\ \A r \in ToSet(s.awaiting[t]) : \E i \in 1 .. Len(b) : b[i] = AcceptOf(r)
  BY <1>1, <1>3, AcceptsAre
<1>13. acts \in Seq(Acts) /\ Parts(a, b, acts)
  BY <1>2, <1>4, ConcatParts
<1>7. \A i \in 1 .. Len(acts) :
          \/ i \in 1 .. Len(a) /\ acts[i] = a[i]
          \/ \E k \in 1 .. Len(b) : acts[i] = b[k]
  BY <1>13 DEF Parts
<1>8. \A i \in 1 .. Len(acts) :
          /\ \/ acts[i].do \in {"condition", "turn"}
             \/ acts[i].do = "accept" /\ acts[i].of \in ToSet(s.awaiting[t])
          /\ Readies(acts[i]) => i = 1
  <2> SUFFICES ASSUME NEW i \in 1 .. Len(acts)
               PROVE  /\ \/ acts[i].do \in {"condition", "turn"}
                         \/ acts[i].do = "accept" /\ acts[i].of \in ToSet(s.awaiting[t])
                      /\ Readies(acts[i]) => i = 1
    OBVIOUS
  <2>1. CASE i \in 1 .. Len(a) /\ acts[i] = a[i]
    <3>1. i = 1 \/ i = 2
      BY <1>5, <2>1
    <3>2. QED
      BY <1>5, <2>1, <3>1 DEF Readies
  <2>2. CASE \E k \in 1 .. Len(b) : acts[i] = b[k]
    <3>1. acts[i].do = "accept" /\ acts[i].of \in ToSet(s.awaiting[t])
      BY <1>6, <2>2
    <3>2. QED
      BY <3>1 DEF Readies
  <2>3. QED
    BY <1>7, <2>1, <2>2
<1>9. \A k \in 1 .. Len(b) : \E i \in 1 .. Len(acts) : acts[i] = b[k]
  BY <1>13 DEF Parts
<1>10. acts \in Seq(Acts)
  BY <1>13
<1>11. \A r \in ToSet(s.awaiting[t]) : \E i \in 1 .. Len(acts) : acts[i] = AcceptOf(r)
  <2> SUFFICES ASSUME NEW r \in ToSet(s.awaiting[t])
               PROVE  \E i \in 1 .. Len(acts) : acts[i] = AcceptOf(r)
    OBVIOUS
  <2>1. PICK k \in 1 .. Len(b) : b[k] = AcceptOf(r)
    BY <1>6
  <2>2. PICK i \in 1 .. Len(acts) : acts[i] = b[k]
    BY <1>9
  <2>3. QED
    BY <2>1, <2>2
<1>12. QED
  BY <1>8, <1>10, <1>11

LEMMA PlacedStarted ==
    ASSUME NEW s \in Seats, NEW q \in Seq(Receipts),
           NEW n \in Streams, NetSound(n), Wired(n),
           NEW U \in SUBSET Turns, NEW A \in SUBSET Turns, Placed(s, q, n, U, A),
           NEW t \in U, \A u \in A : s.held[u] = <<>>,
           NEW s2, s2.awaiting = [s.awaiting EXCEPT ![t] = <<>>],
           s2.held = IF s.awaiting[t] = <<>> THEN s.held
                     ELSE [s.held EXCEPT ![t] = s.awaiting[t]]
    PROVE  LET n2 == PerformAll(n, StartedActs(s, t))
           IN  Sound(n, n2) /\ Placed(s2, q, n2, U \ {t}, A)
<1> DEFINE acts == StartedActs(s, t)
           n2 == PerformAll(n, acts)
           V == U \ {t}
<1>1. t \in Turns
  OBVIOUS
<1>2. /\ acts \in Seq(Acts)
      /\ \A i \in 1 .. Len(acts) :
            /\ \/ acts[i].do \in {"condition", "turn"}
               \/ /\ acts[i].do = "accept"
                  /\ acts[i].of \in ToSet(s.awaiting[t])
            /\ Readies(acts[i]) => i = 1
      /\ \A r \in ToSet(s.awaiting[t]) : \E i \in 1 .. Len(acts) : acts[i] = AcceptOf(r)
  BY <1>1, StartedAre
<1> HIDE DEF acts
<1>3. Placed(s, q, n, V, A)
  BY PlacedLess DEF Placed, Queued
<1>4. MadeActs(n, acts)
  BY <1>1, <1>2 DEF MadeActs, Placed, InTurns
<1>5. /\ \A r \in ToSet(s.awaiting[t]) : Latest(n, r) =>
             /\ Unaccepted(n, r) /\ NoCopy(q, r[1])
             /\ \A u \in V : r \notin ToSet(s.awaiting[u])
      /\ \A r \in ToSet(s.awaiting[t]) : Made(n, r) /\ r \in Receipts
  <2>1. \A r \in ToSet(s.awaiting[t]) : r \in Receipts
    BY <1>1, ElementsOf DEF Seats
  <2>2. QED
    BY <1>1, <2>1 DEF Placed, Awaits, InTurns
<1>6. LeavesAlone(s, q, n, V, A, acts)
  <2>1. \A r \in ToSet(q) : Latest(n, r) => \A i \in 1 .. Len(acts) : ~Concerns(acts[i], r)
    BY <1>2, <1>5 DEF Concerns, NoCopy
  <2>2. \A u \in V : \A r \in ToSet(s.awaiting[u]) : Latest(n, r) =>
           \A i \in 1 .. Len(acts) : ~Concerns(acts[i], r)
    BY <1>2, <1>5 DEF Concerns
  <2>3. \A u \in A : ToSet(s.held[u]) = {}
    BY EmptyHasNone
  <2>4. QED
    BY <1>4, <2>1, <2>2, <2>3 DEF LeavesAlone
<1>7. Sound(n, n2) /\ Placed(s, q, n2, V, A)
  BY <1>2, <1>3, <1>6, PlacedActs
<1>8. \A r \in ToSet(s.awaiting[t]) : Latest(n, r) => Lands(n2, r)
  <2> SUFFICES ASSUME NEW r \in ToSet(s.awaiting[t]), Latest(n, r) PROVE Lands(n2, r)
    OBVIOUS
  <2>1. r \in Receipts /\ Made(n, r) /\ Unaccepted(n, r)
    BY <1>5
  <2>2. PICK k \in 1 .. Len(acts) : acts[k] = AcceptOf(r)
    BY <1>2
  <2>3. \A i \in 1 .. Len(acts) : acts[i].do # "settle" /\ (Readies(acts[i]) => i = 1)
    BY <1>2
  <2>4. QED
    BY <1>2, <1>4, <2>1, <2>2, <2>3, AllAccepted
<1> HIDE DEF n2
<1>9. \A r : (Made(n2, r) <=> Made(n, r)) /\ (Latest(n2, r) <=> Latest(n, r))
  BY <1>7 DEF Sound, Made, Latest
<1>10. /\ \A u \in Turns : u # t =>
              s2.held[u] = s.held[u] /\ s2.awaiting[u] = s.awaiting[u]
       /\ s2.held[t] = s.held[t] \/ s2.held[t] = s.awaiting[t]
       /\ s2.awaiting[t] = <<>>
  BY <1>1 DEF Seats
<1>11. InTurns(s2, n2)
  <2>1. \A u \in Turns : ToSet(s2.awaiting[u]) \subseteq ToSet(s.awaiting[u])
    BY <1>10, EmptyHasNone
  <2>2. \A u \in Turns : \A r \in ToSet(s2.held[u]) :
            r \in ToSet(s.held[u]) \/ r \in ToSet(s.awaiting[t])
    BY <1>10
  <2>3. QED
    BY <1>5, <1>7, <1>9, <2>1, <2>2 DEF Placed, InTurns
<1>12. \A u \in A : \A r \in ToSet(s2.held[u]) : r \in ToSet(s.awaiting[t])
  BY <1>10, EmptyHasNone
<1>13. Awaits(s2, q, n2, V, A)
  <2> SUFFICES ASSUME NEW u \in V, NEW r \in ToSet(s2.awaiting[u]), Latest(n2, r)
               PROVE  /\ Unaccepted(n2, r) /\ NoCopy(q, r[1])
                      /\ \A t2 \in A : r \notin ToSet(s2.held[t2])
                      /\ \A t2 \in V : t2 # u => r \notin ToSet(s2.awaiting[t2])
    BY DEF Awaits
  <2>1. s2.awaiting[u] = s.awaiting[u] /\ \A t2 \in V : s2.awaiting[t2] = s.awaiting[t2]
    BY <1>10
  <2>2. /\ Unaccepted(n2, r) /\ NoCopy(q, r[1])
        /\ \A t2 \in V : t2 # u => r \notin ToSet(s.awaiting[t2])
    BY <1>7, <2>1 DEF Placed, Awaits
  <2>3. r \notin ToSet(s.awaiting[t])
    BY <1>5, <1>9, <2>1
  <2>4. QED
    BY <1>12, <2>1, <2>2, <2>3
<1>14. Landing(s2, q, n2, A)
  BY <1>5, <1>8, <1>9, <1>12 DEF Landing
<1>15. Placed(s2, q, n2, V, A)
  BY <1>7, <1>11, <1>13, <1>14 DEF Placed
<1>16. QED
  BY <1>7, <1>15 DEF n2, acts

(* Receipts of a turn are settled, when it ends or a tool is used.         *)
LEMMA PlacedEnded ==
    ASSUME NEW s \in Seats, NEW q \in Seq(Receipts),
           NEW n \in Streams, NetSound(n), Wired(n),
           NEW U \in SUBSET Turns, NEW A \in SUBSET Turns, Placed(s, q, n, U, A),
           NEW t \in A, \A u \in A : u # t => s.held[u] = <<>>,
           NEW acts \in Seq(Acts),
           \A i \in 1 .. Len(acts) :
               \/ acts[i].do = "turn"
               \/ acts[i].do = "settle" /\ acts[i].of \in ToSet(s.held[t]),
           NEW s2, s2.awaiting = s.awaiting, s2.held = [s.held EXCEPT ![t] = <<>>]
    PROVE  LET n2 == PerformAll(n, acts)
           IN  Sound(n, n2) /\ Placed(s2, q, n2, U, A)
<1>1. t \in Turns
  OBVIOUS
<1>2. /\ \A u \in Turns : s2.held[u] = s.held[u] \/ s2.held[u] = <<>>
      /\ s2.held[t] = <<>>
  BY <1>1 DEF Seats
<1>3. Placed(s, q, n, U, A \ {t})
  BY PlacedLess DEF Placed, Queued
<1>4. LeavesAlone(s, q, n, U, A \ {t}, acts)
  <2>1. MadeActs(n, acts)
    BY <1>1 DEF MadeActs, Placed, InTurns
  <2>2. \A r \in ToSet(q) : Latest(n, r) => \A i \in 1 .. Len(acts) : ~Concerns(acts[i], r)
    BY DEF Concerns, NoCopy, Placed, Landing
  <2>3. \A u \in U : \A r \in ToSet(s.awaiting[u]) : Latest(n, r) =>
           \A i \in 1 .. Len(acts) : ~Concerns(acts[i], r)
    BY DEF Concerns, Placed, Awaits
  <2>4. \A u \in A \ {t} : ToSet(s.held[u]) = {}
    BY EmptyHasNone
  <2>5. QED
    BY <2>1, <2>2, <2>3, <2>4 DEF LeavesAlone
<1>5. Sound(n, PerformAll(n, acts)) /\ Placed(s, q, PerformAll(n, acts), U, A \ {t})
  BY <1>3, <1>4, PlacedActs
<1>6. Placed(s2, q, PerformAll(n, acts), U, A)
  <2>1. InOrder(q) /\ U \subseteq Turns /\ A \subseteq Turns
    BY DEF Placed, Queued
  <2>2. \A u \in A : u \in A \ {t} \/ s2.held[u] = <<>>
    BY <1>2
  <2>3. \A u \in Turns : /\ s2.awaiting[u] = s.awaiting[u] \/ s2.awaiting[u] = <<>>
                         /\ s2.held[u] = s.held[u] \/ s2.held[u] = <<>>
    BY <1>2
  <2>4. PICK n2, B : n2 = PerformAll(n, acts) /\ B = A \ {t}
    OBVIOUS
  <2>5. Placed(s, q, n2, U, B) /\ \A u \in A : u \in B \/ s2.held[u] = <<>>
    BY <1>5, <2>2, <2>4
  <2>6. Placed(s2, q, n2, U, A)
    BY <2>1, <2>3, <2>5, PlacedLess
  <2>7. QED
    BY <2>4, <2>6
<1>7. QED
  BY <1>5, <1>6

(* The acts at the end of a turn.                                          *)
EndsAs(rs, acts, is, d) ==
    /\ acts \in Seq(Acts)
    /\ \A i \in 1 .. Len(acts) :
           \/ acts[i].do = "turn" /\ acts[i].is = is
           \/ acts[i].do = "settle" /\ acts[i].of \in rs /\ acts[i].as = d
    /\ \A r \in rs : \E i \in 1 .. Len(acts) : acts[i].do = "settle" /\ acts[i].of = r

LEMMA CompletedAre ==
    ASSUME NEW s \in Seats, NEW t \in Turns, NEW how
    PROVE  EndsAs(ToSet(s.held[t]), CompletedActs(s, t, how),
                  IF how = "failed" THEN "failed" ELSE "completed",
                  IF how = "failed" THEN "deferred" ELSE "handled")
<1>1. PICK is, d : /\ is = (IF how = "failed" THEN "failed" ELSE "completed")
                   /\ d = (IF how = "failed" THEN "deferred" ELSE "handled")
  OBVIOUS
<1>2. PICK e, a, b, acts : /\ e = s.held[t] /\ a = <<Turn(t, is)>>
                           /\ b = SettleEach(e, d) /\ acts = a \o b
  OBVIOUS
<1>3. is \in {"completed", "failed"} /\ d \in Outcomes \cup {"deferred"}
  BY <1>1 DEF Outcomes
<1>4. e \in Seq(Receipts)
  BY <1>2 DEF Seats
<1>5. CompletedActs(s, t, how) = acts
  BY <1>1, <1>2 DEF CompletedActs
<1>6. Settling(ToSet(e), b, d)
  BY <1>2, <1>4, SettlesAre
<1>7. Len(a) = 1 /\ a[1].do = "turn" /\ a[1].is = is
  BY <1>2 DEF Turn
<1>8. a \in Seq(Acts) /\ b \in Seq(Acts)
  BY <1>2, <1>3, <1>4, ActsTyped
<1>9. acts \in Seq(Acts) /\ Parts(a, b, acts)
  BY <1>2, <1>8, ConcatParts
<1>10. EndsAs(ToSet(e), acts, is, d)
  <2>1. /\ \A i \in 1 .. Len(acts) :
               \/ i \in 1 .. Len(a) /\ acts[i] = a[i]
               \/ \E k \in 1 .. Len(b) : acts[i] = b[k]
        /\ \A k \in 1 .. Len(b) : \E i \in 1 .. Len(acts) : acts[i] = b[k]
    BY <1>9 DEF Parts
  <2>2. \A i \in 1 .. Len(a) : a[i] = a[1]
    BY <1>7
  <2>3. /\ \A i \in 1 .. Len(b) : \E r \in ToSet(e) :
               b[i].do = "settle" /\ b[i].of = r /\ b[i].as = d
        /\ \A r \in ToSet(e) : \E i \in 1 .. Len(b) :
               b[i].do = "settle" /\ b[i].of = r /\ b[i].as = d
    BY <1>6 DEF Settling
  <2>4. ASSUME NEW i \in 1 .. Len(acts)
        PROVE  \/ acts[i].do = "turn" /\ acts[i].is = is
               \/ acts[i].do = "settle" /\ acts[i].of \in ToSet(e) /\ acts[i].as = d
    <3>1. CASE \E k \in 1 .. Len(b) : acts[i] = b[k]
      BY <2>3, <3>1
    <3>2. CASE i \in 1 .. Len(a) /\ acts[i] = a[i]
      BY <1>7, <2>2, <3>2
    <3>3. QED
      BY <2>1, <3>1, <3>2
  <2>5. ASSUME NEW r \in ToSet(e)
        PROVE  \E i \in 1 .. Len(acts) : acts[i].do = "settle" /\ acts[i].of = r
    <3>1. PICK k \in 1 .. Len(b) : b[k].do = "settle" /\ b[k].of = r
      BY <2>3
    <3>2. PICK i \in 1 .. Len(acts) : acts[i] = b[k]
      BY <2>1
    <3>3. QED
      BY <3>1, <3>2
  <2>6. QED
    BY <1>9, <2>4, <2>5 DEF EndsAs
<1>11. QED
  BY <1>1, <1>2, <1>5, <1>10

(* A runner that degrades, and one that recovers with nothing in a turn.   *)
LEMMA PlacedDegraded ==
    ASSUME NEW s \in Seats, NEW q \in Seq(Receipts),
           NEW n \in Streams, NetSound(n), Wired(n),
           NEW U \in SUBSET Turns, NEW A \in SUBSET Turns, Placed(s, q, n, U, A)
    PROVE  LET n2 == PerformAll(n, <<Condition("degraded")>>)
           IN  Sound(n, n2) /\ Placed(s, q, n2, U, A)
<1>1. PICK acts : acts = <<Condition("degraded")>>
  OBVIOUS
<1>2. acts \in Seq(Acts)
  BY <1>1, ActsTyped
<1>3. \A i \in 1 .. Len(acts) : acts[i].do = "condition" /\ ~Readies(acts[i])
  BY <1>1 DEF Condition, Readies
<1>4. LeavesAlone(s, q, n, U, A, acts)
  BY <1>3 DEF LeavesAlone, MadeActs, Concerns, GivesBack
<1>5. QED
  BY <1>1, <1>2, <1>4, PlacedActs

(* The queue of a sink, its stream and its turns.                          *)
Sits(p, e, U, A) ==
    /\ NetSound(p.net) /\ Wired(p.net)
    /\ Placed(p.seat, Queue(p.seat, e), p.net, U, A) /\ Flown(p.seat)

LEMMA PlacedSame ==
    ASSUME NEW s, NEW s2, s2.awaiting = s.awaiting, s2.held = s.held,
           NEW q, NEW n, NEW U, NEW A, Placed(s, q, n, U, A)
    PROVE  Placed(s2, q, n, U, A)
BY DEF Placed, InTurns, Awaits, Landing

LEMMA QueueTyped ==
    ASSUME NEW s \in Seats, NEW e \in Seq(Receipts)
    PROVE  /\ Queue(s, e) \in Seq(Receipts) /\ s.buffer \o e \in Seq(Receipts)
           /\ s.flight.events \in Seq(Receipts) /\ s.buffer \in Seq(Receipts)
           /\ s.flight.events = <<>> => Queue(s, e) = s.buffer \o e
<1>1. s.flight.events \in Seq(Receipts) /\ s.buffer \in Seq(Receipts)
  BY DEF Seats, Flights
<1>2. PICK b : b = s.buffer \o e
  OBVIOUS
<1>3. b \in Seq(Receipts)
  BY <1>1, <1>2, ConcatProperties
<1>4. s.flight.events \o b \in Seq(Receipts) /\ <<>> \o b = b
  BY <1>1, <1>3, ConcatProperties, ConcatEmptySeq
<1>5. QED
  BY <1>1, <1>2, <1>3, <1>4 DEF Queue

LEMMA DrainsPlaced ==
    ASSUME NEW s \in Seats, NEW s2 \in Seats, NEW n \in Streams, NEW n2,
           NEW e \in Seq(Receipts), NetSound(n), Wired(n),
           NEW U \in SUBSET Turns, NEW A \in SUBSET Turns,
           Placed(s, Queue(s, e), n, U, A), Flown(s),
           s.buffer # <<>> => s.flight.events = <<>>,
           SameTurns(s, s2), Drains(s, n, s2, n2)
    PROVE  NetSound(n2) /\ Wired(n2) /\ Placed(s2, Queue(s2, e), n2, U, A) /\ Flown(s2)
<1>1. /\ Queue(s, e) \in Seq(Receipts) /\ s.buffer \o e \in Seq(Receipts)
      /\ s.buffer \in Seq(Receipts)
      /\ s.flight.events = <<>> => Queue(s, e) = s.buffer \o e
  BY QueueTyped
<1>2. s2.flight.events = <<>> => Queue(s2, e) = s2.buffer \o e
  BY QueueTyped
<1>3. <<>> \o e = e
  BY ConcatEmptySeq
<1>4. s2.awaiting = s.awaiting /\ s2.held = s.held
  BY DEF SameTurns
<1>5. CASE s2.buffer = s.buffer /\ s2.flight = s.flight /\ n2 = n
  <2>1. Queue(s2, e) = Queue(s, e) /\ Flown(s2)
    BY <1>5 DEF Queue, Flown
  <2>2. QED
    BY <1>4, <1>5, <2>1, PlacedSame
<1>6. CASE /\ s.buffer # <<>> /\ s2.buffer = <<>> /\ s2.flight = s.flight
           /\ n2 = PerformAll(n, SettleEach(s.buffer, "deferred"))
  <2>1. Queue(s, e) = s.buffer \o e /\ Queue(s2, e) = e /\ Flown(s2)
    BY <1>1, <1>2, <1>3, <1>6 DEF Flown
  <2>2. Placed(s, s.buffer \o e, n, U, A)
    BY <2>1
  <2>3. Sound(n, n2) /\ Placed(s, e, n2, U, A)
    BY <1>1, <1>6, <2>2, PlacedGiven
  <2>4. QED
    BY <1>4, <2>1, <2>3, PlacedSame DEF Sound
<1>7. CASE /\ s.buffer # <<>> /\ s2.buffer = <<>> /\ n2 = n
           /\ s2.flight.at = "sent" /\ s2.flight.events = s.buffer
  <2>1. Queue(s, e) = s.buffer \o e
    BY <1>1, <1>7
  <2>2. Queue(s2, e) = s.buffer \o e
    BY <1>3, <1>7 DEF Queue
  <2>3. Flown(s2)
    BY <1>7 DEF Flown
  <2>4. QED
    BY <1>4, <1>7, <2>1, <2>2, <2>3, PlacedSame
<1>8. QED
  BY <1>5, <1>6, <1>7 DEF Drains

LEMMA FlushedPlaced ==
    ASSUME NEW p \in Plans, NEW e \in Seq(Receipts),
           NEW U \in SUBSET Turns, NEW A \in SUBSET Turns, Sits(p, e, U, A)
    PROVE  Sits(Flushed(p), e, U, A)
<1> DEFINE q == Flushed(p)
           s == p.seat
           s2 == q.seat
<1>1. /\ q \in Plans /\ s \in Seats /\ s2 \in Seats /\ p.net \in Streams
  BY FlushedTyped DEF Plans
<1>2. /\ SameTurns(s, s2)
      /\ \/ /\ s2.buffer = s.buffer /\ s2.flight = s.flight /\ q.net = p.net
         \/ /\ s.buffer = <<>> \/ s.flight.at = "none"
            /\ Drains(s, p.net, s2, q.net)
  BY FlushedIs
<1> HIDE DEF q, s, s2
<1>3. /\ NetSound(p.net) /\ Wired(p.net) /\ Placed(s, Queue(s, e), p.net, U, A) /\ Flown(s)
  BY DEF Sits, s
<1>4. NetSound(q.net) /\ Wired(q.net) /\ Placed(s2, Queue(s2, e), q.net, U, A) /\ Flown(s2)
  <2>1. CASE s2.buffer = s.buffer /\ s2.flight = s.flight /\ q.net = p.net
    <3>1. Queue(s2, e) = Queue(s, e) /\ Flown(s2)
      BY <1>3, <2>1 DEF Queue, Flown
    <3>2. s2.awaiting = s.awaiting /\ s2.held = s.held
      BY <1>2 DEF SameTurns
    <3>3. QED
      BY <1>3, <2>1, <3>1, <3>2, PlacedSame
  <2>2. CASE (s.buffer = <<>> \/ s.flight.at = "none") /\ Drains(s, p.net, s2, q.net)
    <3>1. s.buffer # <<>> => s.flight.events = <<>>
      BY <1>3, <2>2 DEF Flown
    <3>2. QED
      BY <1>1, <1>2, <1>3, <2>2, <3>1, DrainsPlaced
  <2>3. QED
    BY <1>2, <2>1, <2>2
<1>5. QED
  BY <1>4 DEF Sits, q, s2

LEMMA FinishedPlaced ==
    ASSUME NEW p \in Plans, NEW e \in Seq(Receipts),
           NEW U \in SUBSET Turns, NEW A \in SUBSET Turns,
           NetSound(p.net), Wired(p.net),
           Placed(p.seat, p.seat.buffer \o e, p.net, U, A)
    PROVE  Sits(Finished(p), e, U, A)
<1> DEFINE q == Finished(p)
           s == [p.seat EXCEPT !.flight = NoFlight]
           s2 == q.seat
<1>1. /\ q \in Plans /\ s2 \in Seats /\ p.net \in Streams /\ p.seat \in Seats
  BY FinishedTyped DEF Plans
<1>2. /\ s \in Seats /\ s.awaiting = p.seat.awaiting /\ s.held = p.seat.held
      /\ s.buffer = p.seat.buffer /\ s.flight = NoFlight /\ s.turn = p.seat.turn
  BY <1>1, NewTyped DEF Seats
<1>3. /\ SameTurns(p.seat, s2)
      /\ \/ /\ q.net = p.net /\ s2.buffer = p.seat.buffer /\ s2.flight = NoFlight
         \/ Drains(s, p.net, s2, q.net)
  BY FinishedIs
<1> HIDE DEF q, s, s2
<1>4. SameTurns(s, s2)
  BY <1>2, <1>3 DEF SameTurns
<1>5. NoFlight.events = <<>> /\ Flown(s)
  BY <1>2 DEF NoFlight, Flown
<1>6. Placed(s, Queue(s, e), p.net, U, A)
  <2>1. Queue(s, e) = p.seat.buffer \o e
    BY <1>2, <1>5, QueueTyped
  <2>2. QED
    BY <1>2, <2>1, PlacedSame
<1>7. NetSound(q.net) /\ Wired(q.net) /\ Placed(s2, Queue(s2, e), q.net, U, A) /\ Flown(s2)
  <2>1. CASE q.net = p.net /\ s2.buffer = p.seat.buffer /\ s2.flight = NoFlight
    <3>1. Queue(s2, e) = Queue(s, e) /\ Flown(s2)
      BY <1>2, <1>5, <2>1 DEF Queue, Flown
    <3>2. s2.awaiting = s.awaiting /\ s2.held = s.held
      BY <1>4 DEF SameTurns
    <3>3. QED
      BY <1>6, <2>1, <3>1, <3>2, PlacedSame
  <2>2. CASE Drains(s, p.net, s2, q.net)
    <3>1. s.flight.events = <<>>
      BY <1>2, <1>5
    <3>2. QED
      BY <1>1, <1>2, <1>4, <1>5, <1>6, <2>2, <3>1, DrainsPlaced
  <2>3. QED
    BY <1>3, <2>1, <2>2
<1>8. QED
  BY <1>7 DEF Sits, q, s2

LEMMA PlacedRest ==
    ASSUME NEW s, NEW ev \in Seq(Receipts), NEW rest \in Seq(Receipts),
           NEW n \in Streams, NEW U \in SUBSET Turns, NEW A \in SUBSET Turns,
           Placed(s, ev \o rest, n, U, A)
    PROVE  Placed(s, rest, n, U, A)
<1>1. Queued(ev \o rest, n)
  BY DEF Placed
<1>2. Queued(rest, n) /\ ToSet(ev \o rest) = ToSet(ev) \cup ToSet(rest)
  BY <1>1, QueuedParts
<1>3. InOrder(rest) /\ ToSet(rest) \subseteq ToSet(ev \o rest)
  BY <1>2 DEF Queued
<1>4. QED
  BY <1>3, PlacedLess

LEMMA AnsweredPlaced ==
    ASSUME NEW p \in Plans, NEW e \in Seq(Receipts), p.seat.flight.at = "answered",
           NEW U \in SUBSET Turns, NEW A \in SUBSET Turns, Sits(p, e, U, A)
    PROVE  Sits(Answered(p), e, U, A)
<1>0. PICK s, n, ev, b, rest :
          /\ s = p.seat /\ n = p.net /\ ev = p.seat.flight.events
          /\ b = p.seat.buffer /\ rest = p.seat.buffer \o e
  OBVIOUS
<1>1. /\ s \in Seats /\ n \in Streams /\ ev \in Seq(Receipts)
      /\ rest \in Seq(Receipts) /\ Queue(s, e) = ev \o rest
      /\ b \in Seq(Receipts) /\ rest = b \o e
  BY <1>0, QueueTyped DEF Plans, Queue
<1>2. NetSound(n) /\ Wired(n) /\ Placed(s, ev \o rest, n, U, A)
  BY <1>0, <1>1 DEF Sits
<1>3. CASE AsksAgain(p, Answered(p))
  <2> DEFINE q == Answered(p)
  <2> HIDE DEF q
  <2>1. /\ q.seat.awaiting = s.awaiting /\ q.seat.held = s.held /\ q.net = n
        /\ q.seat.flight.events = ev /\ q.seat.buffer = b
        /\ q.seat.flight.at = "sent"
    BY <1>0, <1>3 DEF AsksAgain, SameTurns, q
  <2>2. Queue(q.seat, e) = ev \o rest /\ Flown(q.seat)
    BY <1>1, <2>1 DEF Queue, Flown
  <2>3. Placed(q.seat, ev \o rest, n, U, A)
    BY <1>2, <2>1, PlacedSame
  <2>4. Sits(q, e, U, A)
    BY <1>2, <2>1, <2>2, <2>3 DEF Sits
  <2>5. QED
    BY <2>4 DEF q
<1>4. ASSUME NEW z \in Plans, Answered(p) = Finished(z),
             JoinsTurn(p, z) \/ AwaitsTurn(p, z) \/ GivesUp(p, z)
      PROVE  Sits(Answered(p), e, U, A)
  <2> SUFFICES NetSound(z.net) /\ Wired(z.net)
               /\ Placed(z.seat, z.seat.buffer \o e, z.net, U, A)
    BY <1>4, FinishedPlaced
  <2>0. PICK zs, zn : zs = z.seat /\ zn = z.net
    OBVIOUS
  <2>1. CASE JoinsTurn(p, z)
    <3>1. PICK t \in Turns : t = p.seat.flight.turn
      BY <2>1 DEF JoinsTurn
    <3>2. /\ zs.awaiting = s.awaiting /\ zs.buffer = b
          /\ zs.held = [s.held EXCEPT ![t] = @ \o ev]
          /\ zn = PerformAll(n, AcceptEach(ev))
      BY <1>0, <1>1, <2>0, <2>1, <3>1 DEF JoinsTurn, Seats
    <3>3. Sound(n, zn) /\ Placed(zs, rest, zn, U, A)
      BY <1>1, <1>2, <3>2, PlacedJoined
    <3>4. QED
      BY <1>1, <2>0, <3>2, <3>3 DEF Sound
  <2>2. CASE AwaitsTurn(p, z)
    <3>1. PICK t \in Turns : t = p.seat.flight.turn
      BY <2>2 DEF AwaitsTurn
    <3>2. /\ zs.held = s.held /\ zs.buffer = b
          /\ zs.awaiting = [s.awaiting EXCEPT ![t] = ev] /\ zn = n
      BY <1>0, <1>1, <2>0, <2>2, <3>1 DEF AwaitsTurn, Seats
    <3>3. Placed(zs, rest, n, U, A)
      BY <1>1, <1>2, <3>2, PlacedAwaiting
    <3>4. QED
      BY <1>1, <1>2, <2>0, <3>2, <3>3
  <2>3. CASE GivesUp(p, z)
    <3>1. CASE zs = s /\ zn = PerformAll(n, SettleEach(ev, "deferred"))
      <4>1. Sound(n, zn) /\ Placed(s, rest, zn, U, A)
        BY <1>1, <1>2, <3>1, PlacedGiven
      <4>2. QED
        BY <1>0, <2>0, <3>1, <4>1 DEF Sound
    <3>2. CASE zs = [s EXCEPT !.buffer = ev \o @] /\ zn = n
      <4>1. zs.awaiting = s.awaiting /\ zs.held = s.held /\ zs.buffer = ev \o b
        BY <1>0, <1>1, <3>2 DEF Seats
      <4>2. (ev \o b) \o e = ev \o rest
        BY <1>1, ConcatAssociative
      <4>3. Placed(zs, ev \o rest, n, U, A)
        BY <1>2, <4>1, PlacedSame
      <4>4. QED
        BY <1>2, <2>0, <3>2, <4>1, <4>2, <4>3
    <3>3. CASE zs = s /\ zn = n
      <4>1. Placed(s, rest, n, U, A)
        BY <1>1, <1>2, PlacedRest
      <4>2. QED
        BY <1>0, <1>2, <2>0, <3>3, <4>1
    <3>4. QED
      BY <1>0, <2>0, <2>3, <3>1, <3>2, <3>3 DEF GivesUp
  <2>4. QED
    BY <1>4, <2>1, <2>2, <2>3
<1>5. QED
  BY <1>3, <1>4, AnsweredIs

LEMMA SitsLess ==
    ASSUME NEW p, NEW e, NEW U, NEW A, Sits(p, e, U, A),
           NEW V, V \subseteq U, U \subseteq Turns, NEW B, B \subseteq A, A \subseteq Turns
    PROVE  Sits(p, e, V, B)
<1>1. Placed(p.seat, Queue(p.seat, e), p.net, U, A)
  BY DEF Sits
<1>2. InOrder(Queue(p.seat, e))
  BY <1>1 DEF Placed, Queued
<1>3. Placed(p.seat, Queue(p.seat, e), p.net, V, B)
  BY <1>1, <1>2, PlacedLess
<1>4. QED
  BY <1>3 DEF Sits

(* A line leaves a sink without the start it tells of.                     *)
HandledPlaces(p, l, e, U, A) ==
    Sits(Handled(p, l), e, IF l.is = "started" THEN U \ {l.turn} ELSE U, A)

(* In the turns A nothing is held but for t.                               *)
OnlyIn(s, t, A) == t \in A /\ \A u \in A : u # t => s.held[u] = <<>>

LEMMA StartedPlaced ==
    ASSUME NEW p \in Plans, NEW e \in Seq(Receipts),
           NEW U \in SUBSET Turns, NEW A \in SUBSET Turns, Sits(p, e, U, A),
           NEW t \in U, \A u \in A : p.seat.held[u] = <<>>
    PROVE  Sits(OnStarted(p, t), e, U \ {t}, A)
<1> DEFINE q == OnStarted(p, t)
           s == p.seat
<1>1. s \in Seats /\ p.net \in Streams /\ t \in Turns /\ Queue(s, e) \in Seq(Receipts)
  BY QueueTyped DEF Plans
<1>2. /\ q.seat.buffer = s.buffer /\ q.seat.flight = s.flight
      /\ q.seat.awaiting = [s.awaiting EXCEPT ![t] = <<>>]
      /\ q.seat.held = IF s.awaiting[t] = <<>> THEN s.held
                       ELSE [s.held EXCEPT ![t] = s.awaiting[t]]
      /\ q.net = PerformAll(p.net, StartedActs(s, t))
  BY <1>1, OnStartedIs DEF SameBuffering
<1> HIDE DEF q
<1>3. NetSound(p.net) /\ Wired(p.net) /\ Placed(s, Queue(s, e), p.net, U, A) /\ Flown(s)
  BY DEF Sits
<1>4. \A u \in A : s.held[u] = <<>>
  OBVIOUS
<1> HIDE DEF s
<1>5. Sound(p.net, q.net) /\ Placed(q.seat, Queue(s, e), q.net, U \ {t}, A)
  <2>1. PICK z, zs, n, n2, k : /\ z = s /\ zs = q.seat /\ n = p.net /\ n2 = q.net
                               /\ k = Queue(s, e)
    OBVIOUS
  <2>2. /\ z \in Seats /\ k \in Seq(Receipts) /\ n \in Streams
        /\ NetSound(n) /\ Wired(n) /\ Placed(z, k, n, U, A)
        /\ \A u \in A : z.held[u] = <<>>
    BY <1>1, <1>3, <1>4, <2>1
  <2>3. /\ zs.awaiting = [z.awaiting EXCEPT ![t] = <<>>]
        /\ zs.held = IF z.awaiting[t] = <<>> THEN z.held
                     ELSE [z.held EXCEPT ![t] = z.awaiting[t]]
        /\ n2 = PerformAll(n, StartedActs(z, t))
    BY <1>2, <2>1
  <2>4. /\ Sound(n, PerformAll(n, StartedActs(z, t)))
        /\ Placed(zs, k, PerformAll(n, StartedActs(z, t)), U \ {t}, A)
    BY <2>2, <2>3, PlacedStarted
  <2>5. QED
    BY <2>1, <2>3, <2>4
<1>6. Queue(q.seat, e) = Queue(s, e) /\ Flown(q.seat)
  BY <1>2, <1>3 DEF Queue, Flown
<1>7. Sits(q, e, U \ {t}, A)
  BY <1>5, <1>6 DEF Sits, Sound
<1>8. QED
  BY <1>7 DEF q

LEMMA EndedPlaced ==
    ASSUME NEW p \in Plans, NEW e \in Seq(Receipts),
           NEW U \in SUBSET Turns, NEW A \in SUBSET Turns, Sits(p, e, U, A),
           NEW t \in Turns, OnlyIn(p.seat, t, A), NEW acts \in Seq(Acts),
           \A i \in 1 .. Len(acts) :
               \/ acts[i].do = "turn"
               \/ acts[i].do = "settle" /\ acts[i].of \in ToSet(p.seat.held[t]),
           NEW q, SameBuffering(p.seat, q.seat), q.seat.awaiting = p.seat.awaiting,
           q.seat.held = [p.seat.held EXCEPT ![t] = <<>>],
           q.net = PerformAll(p.net, acts)
    PROVE  Sits(q, e, U, A)
<1> DEFINE s == p.seat
<1>1. s \in Seats /\ p.net \in Streams /\ t \in A /\ Queue(s, e) \in Seq(Receipts)
  BY QueueTyped DEF Plans, OnlyIn
<1>2. NetSound(p.net) /\ Wired(p.net) /\ Placed(s, Queue(s, e), p.net, U, A) /\ Flown(s)
  BY DEF Sits
<1>3. \A u \in A : u # t => s.held[u] = <<>>
  BY DEF OnlyIn
<1>4. Queue(q.seat, e) = Queue(s, e) /\ Flown(q.seat)
  BY <1>2 DEF Queue, Flown, SameBuffering
<1>5. \A i \in 1 .. Len(acts) :
               \/ acts[i].do = "turn"
               \/ acts[i].do = "settle" /\ acts[i].of \in ToSet(s.held[t])
  OBVIOUS
<1>6. q.seat.awaiting = s.awaiting /\ q.seat.held = [s.held EXCEPT ![t] = <<>>]
  OBVIOUS
<1> HIDE DEF s
<1>7. Sound(p.net, q.net) /\ Placed(q.seat, Queue(s, e), q.net, U, A)
  <2>1. PICK z, zs, n, n2, k : /\ z = s /\ zs = q.seat /\ n = p.net /\ n2 = q.net
                               /\ k = Queue(s, e)
    OBVIOUS
  <2>2. /\ z \in Seats /\ k \in Seq(Receipts) /\ n \in Streams /\ t \in A
        /\ NetSound(n) /\ Wired(n) /\ Placed(z, k, n, U, A)
        /\ \A u \in A : u # t => z.held[u] = <<>>
        /\ n2 = PerformAll(n, acts)
    BY <1>1, <1>2, <1>3, <2>1
  <2>3. zs.awaiting = z.awaiting /\ zs.held = [z.held EXCEPT ![t] = <<>>]
    BY <1>6, <2>1
  <2>4. \A i \in 1 .. Len(acts) :
               \/ acts[i].do = "turn"
               \/ acts[i].do = "settle" /\ acts[i].of \in ToSet(z.held[t])
    BY <1>5, <2>1
  <2>5. Sound(n, PerformAll(n, acts)) /\ Placed(zs, k, PerformAll(n, acts), U, A)
    BY <2>2, <2>3, <2>4, PlacedEnded
  <2>6. QED
    BY <2>1, <2>2, <2>5
<1>8. QED
  BY <1>4, <1>7 DEF Sits, Sound

(* Of a turn that is over nothing is to settle.                            *)
LEMMA NothingActed ==
    ASSUME NEW p \in Plans, NEW e \in Seq(Receipts),
           NEW U \in SUBSET Turns, NEW A \in SUBSET Turns, Sits(p, e, U, A),
           NEW t \in Turns, p.seat.held[t] = <<>>
    PROVE  Sits(OnActed(p, t), e, U, A)
<1> DEFINE q == OnActed(p, t)
<1>1. PICK s, zs, n, n2, k : /\ s = p.seat /\ zs = q.seat /\ n = p.net /\ n2 = q.net
                             /\ k = Queue(s, e)
  OBVIOUS
<1>2. s \in Seats /\ k \in Seq(Receipts) /\ n \in Streams
  BY <1>1, QueueTyped DEF Plans
<1>3. PICK acts : acts = SettleEach(s.held[t], "deferred")
  OBVIOUS
<1>4. SettleEach(s.held[t], "acted") = acts
  BY <1>1, <1>3 DEF SettleEach
<1>5. acts \in Seq(Acts) /\ Len(acts) = 0
  <2>1. acts \in Seq(Acts)
    BY <1>2, <1>3, ActsTyped DEF Seats
  <2>2. DOMAIN s.held[t] = {}
    BY <1>1
  <2>3. DOMAIN acts = {}
    BY <1>3, <2>2 DEF SettleEach
  <2>4. QED
    BY <2>1, <2>3, LenProperties
<1>6. /\ zs.buffer = s.buffer /\ zs.flight = s.flight /\ zs.awaiting = s.awaiting
      /\ zs.held = [s.held EXCEPT ![t] = <<>>] /\ n2 = PerformAll(n, acts)
  BY <1>1, <1>4, OnActedIs DEF SameBuffering
<1>7. zs.held = s.held
  BY <1>1, <1>2, <1>6 DEF Seats
<1>8. NetSound(n) /\ Wired(n) /\ Placed(s, k, n, U, A) /\ Flown(s)
  BY <1>1 DEF Sits
<1>9. LeavesAlone(s, k, n, U, A, acts)
  BY <1>5 DEF LeavesAlone, MadeActs
<1>10. Sound(n, n2) /\ Placed(s, k, n2, U, A)
  BY <1>2, <1>5, <1>6, <1>8, <1>9, PlacedActs
<1>11. Placed(zs, k, n2, U, A) /\ Queue(zs, e) = k /\ Flown(zs)
  <2>1. Queue(zs, e) = k /\ Flown(zs)
    BY <1>1, <1>6, <1>8 DEF Queue, Flown
  <2>2. Placed(zs, k, n2, U, A)
    BY <1>6, <1>7, <1>10, PlacedSame
  <2>3. QED
    BY <2>1, <2>2
<1>12. QED
  BY <1>1, <1>10, <1>11 DEF Sits, Sound

(* A flush behind a change of status.                                      *)
LEMMA StatusPlaced ==
    ASSUME NEW p \in Plans, NEW e \in Seq(Receipts), NEW is \in Statuses \ {"notLoaded"},
           NEW U \in SUBSET Turns, NEW A \in SUBSET Turns, Sits(p, e, U, A)
    PROVE  Sits(OnStatus(p, is), e, U, A)
<1>1. PICK z \in Plans : /\ OnStatus(p, is) = Flushed(z)
                         /\ z.seat = [p.seat EXCEPT !.status = is]
                         /\ z.net = p.net \/ z.net = PerformAll(p.net, <<Condition("degraded")>>)
  BY OnStatusIs
<1>2. PICK s, zs, n, n2, k : /\ s = p.seat /\ zs = z.seat /\ n = p.net /\ n2 = z.net
                             /\ k = Queue(s, e)
  OBVIOUS
<1>3. s \in Seats /\ k \in Seq(Receipts) /\ n \in Streams
  BY <1>2, QueueTyped DEF Plans
<1>4. /\ zs.awaiting = s.awaiting /\ zs.held = s.held
      /\ zs.buffer = s.buffer /\ zs.flight = s.flight
  BY <1>1, <1>2, <1>3 DEF Seats
<1>5. NetSound(n) /\ Wired(n) /\ Placed(s, k, n, U, A) /\ Flown(s)
  BY <1>2 DEF Sits
<1>6. NetSound(n2) /\ Wired(n2) /\ Placed(s, k, n2, U, A)
  <2>1. CASE n2 = n
    BY <1>5, <2>1
  <2>2. CASE n2 = PerformAll(n, <<Condition("degraded")>>)
    BY <1>3, <1>5, <2>2, PlacedDegraded DEF Sound
  <2>3. QED
    BY <1>1, <1>2, <2>1, <2>2
<1>7. Placed(zs, k, n2, U, A)
  BY <1>4, <1>6, PlacedSame
<1>8. Queue(zs, e) = k /\ Flown(zs)
  BY <1>2, <1>4, <1>5 DEF Queue, Flown
<1>9. Sits(z, e, U, A)
  BY <1>2, <1>6, <1>7, <1>8 DEF Sits
<1>10. QED
  BY <1>1, <1>9, FlushedPlaced

LEMMA HandledPlaced ==
    ASSUME NEW p \in Plans, NEW e \in Seq(Receipts), NEW l \in Lines,
           NEW U \in SUBSET Turns, NEW A \in SUBSET Turns, Sits(p, e, U, A),
           l.is = "started" => l.turn \in U /\ \A u \in A : p.seat.held[u] = <<>>,
           l.is = "completed" => OnlyIn(p.seat, l.turn, A),
           l.is = "acted" => p.seat.held[l.turn] = <<>> \/ OnlyIn(p.seat, l.turn, A)
    PROVE  HandledPlaces(p, l, e, U, A)
<1>1. CASE l.is = "started"
  <2>1. PICK t \in U : t = l.turn
    BY <1>1
  <2>2. Handled(p, l) = OnStarted(p, t)
    BY <1>1, <2>1, HandledIs
  <2>3. Sits(OnStarted(p, t), e, U \ {t}, A)
    BY <1>1, StartedPlaced
  <2>4. QED
    BY <1>1, <2>1, <2>2, <2>3 DEF HandledPlaces
<1>2. CASE l.is # "started"
  <2> SUFFICES Sits(Handled(p, l), e, U, A)
    BY <1>2 DEF HandledPlaces
  <2>1. CASE l.is = "reply"
    <3>1. PICK q : q = OnReply(p, l)
      OBVIOUS
    <3>2. Handled(p, l) = q
      BY <2>1, <3>1, HandledIs
    <3>3. /\ q.seat.awaiting = p.seat.awaiting /\ q.seat.held = p.seat.held
          /\ q.net = p.net /\ q.seat.buffer = p.seat.buffer
          /\ q.seat.flight.events = p.seat.flight.events
          /\ q.seat.flight.at = "answered"
      <4>1. p.seat.flight \in Flights
        BY DEF Plans, Seats
      <4>2. /\ SameTurns(p.seat, q.seat) /\ q.net = p.net
            /\ q.seat.buffer = p.seat.buffer
            /\ q.seat.flight = [p.seat.flight EXCEPT
                      !.at = "answered", !.says = l.says, !.turn = l.turn]
        BY <3>1, OnReplyIs
      <4>3. QED
        BY <4>1, <4>2 DEF SameTurns, Flights
    <3>4. Queue(q.seat, e) = Queue(p.seat, e) /\ Flown(q.seat)
      BY <3>3 DEF Queue, Flown
    <3>5. NetSound(p.net) /\ Wired(p.net) /\ Placed(p.seat, Queue(p.seat, e), p.net, U, A)
      BY DEF Sits
    <3>6. Placed(q.seat, Queue(p.seat, e), p.net, U, A)
      BY <3>3, <3>5, PlacedSame
    <3>7. QED
      BY <3>2, <3>3, <3>4, <3>5, <3>6 DEF Sits
  <2>2. CASE l.is = "completed"
    <3>1. PICK t \in Turns : t = l.turn
      BY <2>2, HandledIs
    <3>9. PICK how : how = l.says
      OBVIOUS
    <3>2. PICK q, acts : q = OnCompleted(p, t, how) /\ acts = CompletedActs(p.seat, t, how)
      OBVIOUS
    <3>3. Handled(p, l) = q
      BY <2>2, <3>1, <3>2, <3>9, HandledIs
    <3>4. /\ SameBuffering(p.seat, q.seat) /\ q.seat.awaiting = p.seat.awaiting
          /\ q.seat.held = [p.seat.held EXCEPT ![t] = <<>>]
          /\ q.net = PerformAll(p.net, acts) /\ acts \in Seq(Acts)
      BY <3>2, OnCompletedIs
    <3>5. \A i \in 1 .. Len(acts) :
               \/ acts[i].do = "turn"
               \/ acts[i].do = "settle" /\ acts[i].of \in ToSet(p.seat.held[t])
      <4>1. p.seat \in Seats
        BY DEF Plans
      <4>2. EndsAs(ToSet(p.seat.held[t]), acts,
                   IF how = "failed" THEN "failed" ELSE "completed",
                   IF how = "failed" THEN "deferred" ELSE "handled")
        BY <3>2, <4>1, CompletedAre
      <4>3. QED
        BY <4>2 DEF EndsAs
    <3>6. OnlyIn(p.seat, t, A)
      BY <2>2, <3>1
    <3>7. Sits(q, e, U, A)
      BY <3>4, <3>5, <3>6, EndedPlaced
    <3>8. QED
      BY <3>3, <3>7
  <2>3. CASE l.is = "acted"
    <3>1. PICK t \in Turns : t = l.turn
      BY <2>3, HandledIs
    <3>2. PICK q, acts : q = OnActed(p, t) /\ acts = SettleEach(p.seat.held[t], "acted")
      OBVIOUS
    <3>3. Handled(p, l) = q
      BY <2>3, <3>1, <3>2, HandledIs
    <3>4. CASE p.seat.held[t] = <<>>
      BY <3>2, <3>3, <3>4, NothingActed
    <3>5. CASE OnlyIn(p.seat, t, A)
      <4>1. /\ SameBuffering(p.seat, q.seat) /\ q.seat.awaiting = p.seat.awaiting
            /\ q.seat.held = [p.seat.held EXCEPT ![t] = <<>>]
            /\ q.net = PerformAll(p.net, acts) /\ acts \in Seq(Acts)
        BY <3>2, OnActedIs
      <4>2. \A i \in 1 .. Len(acts) :
               \/ acts[i].do = "turn"
               \/ acts[i].do = "settle" /\ acts[i].of \in ToSet(p.seat.held[t])
        <5>1. p.seat.held[t] \in Seq(Receipts)
          BY DEF Plans, Seats
        <5>2. Settling(ToSet(p.seat.held[t]), acts, "acted")
          BY <3>2, <5>1, SettlesAre
        <5>3. QED
          BY <5>2 DEF Settling
      <4>3. Sits(q, e, U, A)
        BY <3>5, <4>1, <4>2, EndedPlaced
      <4>4. QED
        BY <3>3, <4>3
    <3>6. QED
      BY <2>3, <3>1, <3>4, <3>5
  <2>4. CASE l.is = "status"
    <3>1. l.says \in Statuses \ {"notLoaded"} /\ Handled(p, l) = OnStatus(p, l.says)
      BY <2>4, HandledIs
    <3>2. QED
      BY <3>1, StatusPlaced
  <2>5. CASE l.is = "error"
    <3>1. PICK q : q = Doing(p, <<Condition("degraded")>>)
      OBVIOUS
    <3>2. Handled(p, l) = q
      BY <2>5, <3>1, HandledIs
    <3>3. q.seat = p.seat /\ q.net = PerformAll(p.net, <<Condition("degraded")>>)
      BY <3>1, DegradedIs
    <3>4. p.seat \in Seats /\ p.net \in Streams /\ Queue(p.seat, e) \in Seq(Receipts)
      BY QueueTyped DEF Plans
    <3>5. /\ NetSound(p.net) /\ Wired(p.net) /\ Flown(p.seat)
          /\ Placed(p.seat, Queue(p.seat, e), p.net, U, A)
      BY DEF Sits
    <3>6. Sound(p.net, q.net) /\ Placed(p.seat, Queue(p.seat, e), q.net, U, A)
      <4>1. PICK s, n, k : s = p.seat /\ n = p.net /\ k = Queue(p.seat, e)
        OBVIOUS
      <4>2. /\ Sound(n, PerformAll(n, <<Condition("degraded")>>))
            /\ Placed(s, k, PerformAll(n, <<Condition("degraded")>>), U, A)
        BY <3>4, <3>5, <4>1, PlacedDegraded
      <4>3. QED
        BY <3>3, <4>1, <4>2
    <3>7. QED
      BY <3>2, <3>3, <3>5, <3>6 DEF Sits, Sound
  <2>6. CASE l.is = "interrupted"
    BY <2>6, HandledIs
  <2>7. QED
    BY <1>2, <2>1, <2>2, <2>3, <2>4, <2>5, <2>6, HandledIs
<1>3. QED
  BY <1>1, <1>2

(* The order of the lines.                                                 *)

LEMMA OrderInit == Init => LineOrder
<1> SUFFICES ASSUME Init PROVE LineOrder
  OBVIOUS
<1>1. /\ Len(out) = 0 /\ codex.turn = NoTurn /\ seat.flight.at = "none"
      /\ \A t \in Turns : seat.awaiting[t] = <<>>
  BY DEF Init, NewCodex, NewSeat, NoFlight
<1>2. \A t \in Turns : ~Heard(t)
  BY <1>1, NoTurnIsNone DEF Heard, StillToRead, Init
<1>3. QED
  BY <1>1, <1>2
  DEF LineOrder, EndsInOrder, StartsInOrder, InItsTurn, ToolsAreHeard, TurnsAreNamed

LEMMA OrderSame ==
    ASSUME LineOrder, out' = out, codex' = codex, seat'.turn = seat.turn, TurnsAreNamed'
    PROVE  LineOrder'
<1>1. /\ \A is : \A t : StillToRead(is, t)' <=> StillToRead(is, t)
      /\ \A i : EndFollows(out, i)' <=> EndFollows(out, i)
  BY DEF StillToRead, EndFollows
<1>2. \A t : (Heard(t)' <=> Heard(t)) /\ (NewTurn(t)' <=> NewTurn(t))
  BY <1>1 DEF Heard, NewTurn
<1>3. EndsInOrder'
  BY DEF LineOrder, EndsInOrder
<1>4. StartsInOrder'
  BY <1>2 DEF LineOrder, StartsInOrder
<1>5. InItsTurn'
  BY <1>2 DEF LineOrder, InItsTurn
<1>6. ToolsAreHeard'
  BY <1>1 DEF LineOrder, ToolsAreHeard
<1>7. QED
  BY <1>3, <1>4, <1>5, <1>6 DEF LineOrder

LEMMA OrderFresh ==
    ASSUME out' = <<>>, codex'.turn = NoTurn, seat'.flight.at = "none",
           \A t \in Turns : seat'.awaiting[t] = <<>>
    PROVE  LineOrder'
<1>1. Len(out') = 0
  OBVIOUS
<1>2. \A t \in Turns : ~Heard(t)'
  BY NoTurnIsNone DEF Heard, StillToRead
<1>3. EndsInOrder'
  BY <1>1 DEF EndsInOrder
<1>4. StartsInOrder'
  BY <1>1 DEF StartsInOrder
<1>5. InItsTurn'
  BY <1>2 DEF InItsTurn
<1>6. ToolsAreHeard'
  BY <1>1 DEF ToolsAreHeard
<1>7. TurnsAreNamed'
  BY <1>1 DEF TurnsAreNamed
<1>8. QED
  BY <1>3, <1>4, <1>5, <1>6, <1>7 DEF LineOrder

(* What the lines tell of at once.                                         *)
LEMMA LineTurns ==
    ASSUME Typed
    PROVE  /\ Len(out) \in Nat /\ codex.used \in Nat /\ Turns \subseteq Nat
           /\ \A i \in 1 .. Len(out) :
                  /\ out[i] \in Lines
                  /\ out[i].is \in {"started", "completed", "acted"} => out[i].turn \in Turns
<1>1. out \in Seq(Lines) /\ codex.used \in Nat
  BY SeatConstantsOK DEF Typed
<1>2. Len(out) \in Nat /\ \A i \in 1 .. Len(out) : out[i] \in Lines
  BY <1>1, LenProperties, ElementOfSeq
<1>3. \A i \in 1 .. Len(out) :
          out[i].is \in {"started", "completed", "acted"} => out[i].turn \in Turns
  BY <1>2, HandledIs
<1>4. QED
  BY <1>1, <1>2, <1>3, NoTurnIsNone

LEMMA HeardOf ==
    ASSUME Typed, TurnsAreFollowed, LineOrder
    PROVE  /\ \A i \in 1 .. Len(out) : out[i].is = "completed" => Heard(out[i].turn)
           /\ \A i \in 1 .. Len(out) : out[i].is = "started" =>
                  Heard(out[i].turn) /\ NewTurn(out[i].turn)
           /\ \A i \in 1 .. Len(out) : out[i].is = "acted" => Heard(out[i].turn)
<1>1. \A i \in 1 .. Len(out) : EndFollows(out, i) => StillToRead("completed", out[i].turn)
  BY StillReadIs DEF EndFollows
<1>2. QED
  BY <1>1, StillReadIs
  DEF Heard, NewTurn, TurnsAreFollowed, LineOrder, ToolsAreHeard

(* The first line.                                                         *)
LEMMA FirstLine ==
    ASSUME Typed, TurnsAreFollowed, TurnsStartEmpty, LineOrder, out # <<>>
    PROVE  LET l == Head(out)
           IN  /\ l \in Lines
               /\ l.is \in {"started", "completed", "acted"} => l.turn \in Turns
               /\ l.is = "started" =>
                     \A u \in Turns : Heard(u) => NewTurn(u)
               /\ l.is = "completed" => ~NewTurn(l.turn)
               /\ l.is \in {"completed", "acted"} => Heard(l.turn)
<1>1. /\ Len(out) \in Nat /\ Len(out) >= 1 /\ Head(out) = out[1] /\ out[1] \in Lines
  BY TailOf, LineTurns DEF Typed
<1>2. 1 \in 1 .. Len(out) /\ \A i \in 1 .. Len(out) : ~(i < 1) /\ (i # 1 => i > 1)
  BY <1>1
<1>3. /\ codex.used \in Nat /\ Turns \subseteq Nat
      /\ \A i \in 1 .. Len(out) :
             out[i].is \in {"started", "completed", "acted"} => out[i].turn \in Turns
  BY LineTurns
<1>4. ASSUME out[1].is = "started", NEW u \in Turns, Heard(u) PROVE NewTurn(u)
  <2>1. PICK t \in Turns : t = out[1].turn
    BY <1>2, <1>3, <1>4
  <2>2. ~(u < t)
    BY <1>2, <1>4, <2>1 DEF LineOrder, StartsInOrder
  <2>3. u > t => NewTurn(u)
    BY <1>2, <1>4, <2>1 DEF LineOrder, StartsInOrder
  <2>4. u = t => NewTurn(u)
    BY <1>2, <1>4, <2>1, HeardOf
  <2>5. QED
    BY <1>3, <2>2, <2>3, <2>4
<1>5. ASSUME out[1].is = "completed", NewTurn(out[1].turn) PROVE FALSE
  <2>1. PICK t \in Turns : t = out[1].turn
    BY <1>2, <1>3, <1>5
  <2>2. /\ t <= codex.used /\ t # codex.turn
        /\ \A j \in 1 .. Len(out) : out[j].is = "completed" /\ out[j].turn = t => j = 1
    BY <1>2, <1>5, <2>1 DEF LineOrder, EndsInOrder
  <2>3. ~(t > codex.used)
    BY <1>3, <2>2
  <2>4. PICK i \in 1 .. Len(out) : out[i].is = "started" /\ out[i].turn = t
    BY <1>5, <2>1, <2>3, StillReadIs DEF NewTurn
  <2>5. EndFollows(out, i)
    BY <2>2, <2>4 DEF TurnsAreFollowed
  <2>6. PICK j \in 1 .. Len(out) : j > i /\ out[j].is = "completed" /\ out[j].turn = t
    BY <2>4, <2>5 DEF EndFollows
  <2>7. j = 1
    BY <2>2, <2>6
  <2>8. QED
    BY <1>2, <2>6, <2>7
<1>6. out[1].is \in {"completed", "acted"} => Heard(out[1].turn)
  BY <1>2, HeardOf
<1>7. QED
  BY <1>1, <1>2, <1>3, <1>4, <1>5, <1>6

(* The turns in which something is held when a line is read.               *)
LEMMA FirstFinds ==
    ASSUME Typed, TurnsAreFollowed, TurnsStartEmpty, LineOrder, out # <<>>
    PROVE  LET l == Head(out)
           IN  /\ l.is = "started" =>
                     \A u \in Turns : Heard(u) => seat.held[u] = <<>>
               /\ l.is = "completed" \/ (l.is = "acted" /\ seat.held[l.turn] # <<>>) =>
                     /\ l.turn \in Turns /\ Heard(l.turn)
                     /\ \A u \in Turns : Heard(u) /\ u # l.turn => seat.held[u] = <<>>
<1> DEFINE l == Head(out)
<1>1. /\ l.is \in {"started", "completed", "acted"} => l.turn \in Turns
      /\ l.is = "started" => \A u \in Turns : Heard(u) => NewTurn(u)
      /\ l.is = "completed" => ~NewTurn(l.turn)
      /\ l.is \in {"completed", "acted"} => Heard(l.turn)
  BY FirstLine
<1> HIDE DEF l
<1>2. \A u \in Turns : NewTurn(u) => seat.held[u] = <<>>
  BY DEF TurnsStartEmpty, Untouched
<1>3. ASSUME l.turn \in Turns, Heard(l.turn), ~NewTurn(l.turn)
      PROVE  \A u \in Turns : Heard(u) /\ u # l.turn => seat.held[u] = <<>>
  <2>1. seat.turn = l.turn
    BY <1>3 DEF LineOrder, InItsTurn
  <2>2. QED
    BY <1>2, <2>1 DEF LineOrder, InItsTurn
<1>4. /\ l.is = "started" => \A u \in Turns : Heard(u) => seat.held[u] = <<>>
      /\ l.is = "completed" \/ (l.is = "acted" /\ seat.held[l.turn] # <<>>) =>
            /\ l.turn \in Turns /\ Heard(l.turn)
            /\ \A u \in Turns : Heard(u) /\ u # l.turn => seat.held[u] = <<>>
  BY <1>1, <1>2, <1>3
<1>5. QED
  BY <1>4 DEF l

(* A line is read.                                                         *)
LEMMA ReadsOn ==
    ASSUME Typed, Typed', OneReply, ReadLine
    PROVE  /\ out # <<>> /\ out' = Tail(out) /\ codex' = codex
           /\ Head(out) \in Lines /\ Head(out) = out[1] /\ 1 \in 1 .. Len(out)
           /\ Head(out).is = "reply" => seat.flight.at = "served"
           /\ Now \in Plans /\ Now.seat = seat /\ Now.net = stream
           /\ seat' = Handled(Now, Head(out)).seat
           /\ stream' = Handled(Now, Head(out)).net
           /\ \A i \in 1 .. Len(out') : i + 1 \in 1 .. Len(out) /\ out'[i] = out[i + 1]
           /\ \A j \in 1 .. Len(out) : j # 1 =>
                  \E i \in 1 .. Len(out') : i + 1 = j /\ out'[i] = out[j]
<1>1. /\ out # <<>> /\ out' = Tail(out) /\ codex' = codex
      /\ seat' = Handled(Now, Head(out)).seat
      /\ stream' = Handled(Now, Head(out)).net
  BY DEF ReadLine, Become
<1>2. /\ Len(out') = Len(out) - 1 /\ Len(out) \in Nat /\ Len(out) >= 1
      /\ Head(out) = out[1] /\ Head(out) \in Lines
      /\ \A i \in 1 .. Len(out) - 1 : out'[i] = out[i + 1]
  BY <1>1, TailOf DEF Typed
<1>3. Head(out).is = "reply" => seat.flight.at = "served"
  BY <1>1, <1>2 DEF OneReply
<1>4. Now \in Plans /\ Now.seat = seat /\ Now.net = stream
  BY NowTyped DEF Now
<1>5. \A i \in 1 .. Len(out') : i + 1 \in 1 .. Len(out) /\ out'[i] = out[i + 1]
  BY <1>2
<1>6. ASSUME NEW j \in 1 .. Len(out), j # 1
      PROVE  \E i \in 1 .. Len(out') : i + 1 = j /\ out'[i] = out[j]
  <2>1. j - 1 \in 1 .. Len(out') /\ (j - 1) + 1 = j
    BY <1>2, <1>6
  <2>2. PICK i : i = j - 1
    OBVIOUS
  <2>3. i \in 1 .. Len(out') /\ i + 1 = j
    BY <2>1, <2>2
  <2>4. QED
    BY <1>5, <2>3
<1>7. 1 \in 1 .. Len(out)
  BY <1>2
<1>8. QED
  BY <1>1, <1>2, <1>3, <1>4, <1>5, <1>6, <1>7

LEMMA AnsweredByReply ==
    ASSUME NEW p \in Plans, NEW l \in Lines,
           l.is = "reply" => p.seat.flight.at = "served"
    PROVE  LET q == Handled(p, l)
           IN  q.seat.flight.at = "answered" =>
                  \/ q.seat.flight = p.seat.flight
                  \/ l.is = "reply" /\ q.seat.flight.says = l.says
                     /\ q.seat.flight.turn = l.turn
<1>1. CASE l.is = "reply"
  <2>1. Handled(p, l) = OnReply(p, l) /\ p.seat \in Seats /\ p.seat.flight \in Flights
    BY <1>1, HandledIs DEF Plans, Seats
  <2>2. OnReply(p, l).seat.flight = [p.seat.flight EXCEPT
            !.at = "answered", !.says = l.says, !.turn = l.turn]
    BY <2>1 DEF OnReply, Plans, Seats
  <2>3. /\ OnReply(p, l).seat.flight.says = l.says
        /\ OnReply(p, l).seat.flight.turn = l.turn
    BY <2>1, <2>2 DEF Flights
  <2>4. QED
    BY <1>1, <2>1, <2>3
<1>2. CASE l.is = "status"
  <2>1. l.says \in Statuses /\ Handled(p, l) = OnStatus(p, l.says)
    BY <1>2, HandledIs
  <2> DEFINE d == [p EXCEPT !.seat.status = l.says]
             e == IF l.says = "systemError" THEN Doing(d, <<Condition("degraded")>>) ELSE d
  <2>2. d \in Plans /\ d.seat.flight = p.seat.flight
    BY <2>1 DEF Plans, Seats
  <2>3. Doing(d, <<Condition("degraded")>>).seat = d.seat
    BY DEF Doing
  <2>4. e \in Plans /\ e.seat.flight = p.seat.flight
    <3> HIDE DEF d
    <3>1. QED
      BY <2>2, <2>3, DegradedTyped
  <2>5. OnStatus(p, l.says) = d \/ OnStatus(p, l.says) = Flushed(e)
    BY DEF OnStatus
  <2> HIDE DEF e, d
  <2>6. \/ Flushed(e).seat.flight = p.seat.flight
        \/ Flushed(e).seat.flight.at # "answered"
    BY <2>4, FlushedIs DEF Drains
  <2>7. QED
    BY <2>1, <2>2, <2>5, <2>6
<1>3. CASE l.is \notin {"reply", "status"}
  BY <1>3, QuietLines DEF SameBuffering
<1>4. QED
  BY <1>1, <1>2, <1>3

LEMMA OrderRead ==
    ASSUME Typed, Typed', OneReply, TurnsAreFollowed, TurnsStartEmpty, StartsOnce,
           LineOrder, ReadLine
    PROVE  LineOrder'
<1>1. /\ out # <<>> /\ out' = Tail(out) /\ codex' = codex
      /\ Head(out) \in Lines /\ Head(out) = out[1] /\ 1 \in 1 .. Len(out)
      /\ Head(out).is = "reply" => seat.flight.at = "served"
      /\ Now \in Plans /\ Now.seat = seat
      /\ seat' = Handled(Now, Head(out)).seat
      /\ \A i \in 1 .. Len(out') : i + 1 \in 1 .. Len(out) /\ out'[i] = out[i + 1]
      /\ \A j \in 1 .. Len(out) : j # 1 =>
             \E i \in 1 .. Len(out') : i + 1 = j /\ out'[i] = out[j]
  BY ReadsOn
<1>2. /\ codex.used \in Nat /\ Turns \subseteq Nat /\ Len(out) \in Nat
      /\ \A i \in 1 .. Len(out) :
             out[i].is \in {"started", "completed", "acted"} => out[i].turn \in Turns
  BY LineTurns
<1>3. /\ Len(out') = Len(out) - 1
      /\ \A i \in 1 .. Len(out'), j \in 1 .. Len(out') : /\ i + 1 > 1
                                                         /\ j + 1 < i + 1 => j < i
                                                         /\ j + 1 > i + 1 => j > i
                                                         /\ j + 1 = i + 1 => j = i
  BY <1>1, TailOf DEF Typed
<1>4. \A t : NewTurn(t)' => NewTurn(t)
  BY <1>1, StartsRead
<1>5. \A t : /\ Heard(t)' => Heard(t)
             /\ Heard(t) => Heard(t)' \/ (out[1].is = "completed" /\ out[1].turn = t)
             /\ NewTurn(t) => NewTurn(t)' \/ (out[1].is = "started" /\ out[1].turn = t)
  <2>1. TAKE t
  <2>2. \A is : StillToRead(is, t) =>
               StillToRead(is, t)' \/ (out[1].is = is /\ out[1].turn = t)
    BY <1>1, StillReadTail
  <2>3. StillToRead("completed", t)' => StillToRead("completed", t)
    BY <1>1, StillReadIs, StillReadNext
  <2>4. QED
    BY <1>1, <2>2, <2>3 DEF Heard, NewTurn
<1>6. \A t : t = out[1].turn /\ out[1].is = "completed" => ~Heard(t)'
  <2>1. SUFFICES ASSUME NEW t, t = out[1].turn, out[1].is = "completed", Heard(t)' PROVE FALSE
    OBVIOUS
  <2>2. /\ t # codex.turn
        /\ \A j \in 1 .. Len(out) : out[j].is = "completed" /\ out[j].turn = t => j = 1
    BY <1>1, <2>1 DEF LineOrder, EndsInOrder
  <2>3. \E i \in 1 .. Len(out') : out'[i].is = "completed" /\ out'[i].turn = t
    BY <1>1, <2>1, <2>2, StillReadNext DEF Heard
  <2>4. QED
    BY <1>1, <1>3, <2>2, <2>3
<1>7. EndsInOrder'
  <2>1. SUFFICES ASSUME NEW i \in 1 .. Len(out'), out'[i].is = "completed"
                 PROVE  /\ out'[i].turn <= codex.used /\ out'[i].turn # codex.turn
                        /\ \A j \in 1 .. Len(out') :
                               out'[j].is = "completed" /\ out'[j].turn = out'[i].turn
                               => j = i
    BY <1>1 DEF EndsInOrder
  <2>2. PICK k \in 1 .. Len(out) : k = i + 1 /\ out'[i] = out[k]
    BY <1>1
  <2>3. /\ out[k].turn <= codex.used /\ out[k].turn # codex.turn
        /\ \A j \in 1 .. Len(out) :
               out[j].is = "completed" /\ out[j].turn = out[k].turn => j = k
    BY <2>1, <2>2 DEF LineOrder, EndsInOrder
  <2>4. ASSUME NEW j \in 1 .. Len(out'), out'[j].is = "completed",
               out'[j].turn = out'[i].turn
        PROVE  j = i
    BY <1>1, <1>3, <2>2, <2>3, <2>4
  <2>5. QED
    BY <2>2, <2>3, <2>4
<1>8. StartsInOrder'
  <2>1. SUFFICES ASSUME NEW i \in 1 .. Len(out'), out'[i].is = "started"
                 PROVE  /\ \A t \in Turns : t < out'[i].turn /\ Heard(t)' =>
                               \E j \in 1 .. Len(out') :
                                   j < i /\ out'[j].is = "completed" /\ out'[j].turn = t
                        /\ \A t \in Turns : t > out'[i].turn => NewTurn(t)'
    BY DEF StartsInOrder
  <2>2. PICK k \in 1 .. Len(out) : k = i + 1 /\ k > 1 /\ out'[i] = out[k]
    BY <1>1, <1>3
  <2>3. /\ \A t \in Turns : t < out[k].turn /\ Heard(t) =>
               \E j \in 1 .. Len(out) :
                   j < k /\ out[j].is = "completed" /\ out[j].turn = t
        /\ \A t \in Turns : t > out[k].turn => NewTurn(t)
        /\ out[k].turn \in Turns /\ Heard(out[k].turn)
    BY <1>2, <2>1, <2>2, HeardOf DEF LineOrder, StartsInOrder
  <2>4. ASSUME NEW t \in Turns, t < out'[i].turn, Heard(t)'
        PROVE  \E j \in 1 .. Len(out') :
                   j < i /\ out'[j].is = "completed" /\ out'[j].turn = t
    <3>1. PICK j \in 1 .. Len(out) : j < k /\ out[j].is = "completed" /\ out[j].turn = t
      BY <1>5, <2>2, <2>3, <2>4
    <3>2. j # 1
      BY <1>6, <2>4, <3>1
    <3>3. PICK h \in 1 .. Len(out') : h + 1 = j /\ out'[h] = out[j]
      BY <1>1, <3>2
    <3>4. h < i
      BY <1>3, <2>2, <3>1, <3>3
    <3>5. QED
      BY <3>1, <3>3, <3>4
  <2>5. ASSUME NEW t \in Turns, t > out'[i].turn PROVE NewTurn(t)'
    <3>1. PICK u \in Turns : u = out[k].turn /\ Heard(u) /\ u < t
      BY <1>2, <2>2, <2>3, <2>5
    <3>2. ~(out[1].is = "started" /\ out[1].turn = t)
      <4>1. SUFFICES ASSUME out[1].is = "started", out[1].turn = t PROVE FALSE
        OBVIOUS
      <4>2. \E j \in 1 .. Len(out) : j < 1
        BY <1>1, <3>1, <4>1 DEF LineOrder, StartsInOrder
      <4>3. QED
        BY <1>2, <4>2
    <3>3. QED
      BY <1>5, <2>2, <2>3, <2>5, <3>2
  <2>6. QED
    BY <2>4, <2>5
<1>9. InItsTurn'
  <2>1. SUFFICES ASSUME NEW t \in Turns, Heard(t)', ~NewTurn(t)' PROVE seat'.turn = t
    BY DEF InItsTurn
  <2> DEFINE l == Head(out)
  <2>2. /\ l.is = "started" => \A u \in Turns : Heard(u) => NewTurn(u)
        /\ l.is = "completed" => l.turn \in Turns /\ ~NewTurn(l.turn) /\ Heard(l.turn)
    BY <1>1, FirstLine
  <2>3. \/ l.is = "started" /\ seat'.turn = l.turn
        \/ l.is = "completed"
        \/ l.is # "started" /\ seat'.turn = seat.turn
    <3> HIDE DEF l
    <3>1. l \in Lines /\ seat' = Handled(Now, l).seat /\ Now \in Plans /\ Now.seat = seat
      BY <1>1 DEF l
    <3>2. QED
      BY <3>1, HandledTurns DEF SameTurns
  <2>4. CASE l.is = "started"
    <3>1. NewTurn(t)
      BY <1>5, <2>1, <2>2, <2>4
    <3>2. l.turn = t
      BY <1>1, <1>5, <2>1, <3>1
    <3>3. QED
      BY <2>3, <2>4, <3>2
  <2>5. CASE l.is = "completed"
    <3>1. l.turn # t
      BY <1>1, <1>6, <2>1, <2>5
    <3>2. ~NewTurn(t) /\ Heard(t)
      BY <1>1, <1>5, <2>1, <2>5
    <3>3. seat.turn = t /\ seat.turn = l.turn
      BY <2>2, <2>5, <3>2 DEF LineOrder, InItsTurn
    <3>4. QED
      BY <3>1, <3>3
  <2>6. CASE l.is \notin {"started", "completed"}
    <3>1. ~NewTurn(t) /\ Heard(t)
      BY <1>1, <1>5, <2>1, <2>6
    <3>2. QED
      BY <2>1, <2>3, <2>6, <3>1 DEF LineOrder, InItsTurn
  <2>7. QED
    BY <2>4, <2>5, <2>6
<1>10. ToolsAreHeard'
  <2>1. SUFFICES ASSUME NEW i \in 1 .. Len(out'), out'[i].is = "acted"
                 PROVE  codex.turn = out'[i].turn \/ EndFollows(out', i)
    BY <1>1 DEF ToolsAreHeard
  <2>2. PICK k \in 1 .. Len(out) : k = i + 1 /\ k > 1 /\ out'[i] = out[k]
    BY <1>1, <1>3
  <2>3. codex.turn = out[k].turn \/ EndFollows(out, k)
    BY <2>1, <2>2 DEF LineOrder, ToolsAreHeard
  <2>4. ASSUME NEW j \in 1 .. Len(out), j > k, out[j].is = "completed",
               out[j].turn = out[k].turn
        PROVE  EndFollows(out', i)
    <3>1. j # 1
      BY <1>2, <2>2, <2>4
    <3>2. PICK h \in 1 .. Len(out') : h + 1 = j /\ out'[h] = out[j]
      BY <1>1, <3>1
    <3>3. h > i
      BY <1>3, <2>2, <2>4, <3>2
    <3>4. QED
      BY <2>2, <2>4, <3>2, <3>3 DEF EndFollows
  <2>5. QED
    BY <2>2, <2>3, <2>4 DEF EndFollows
<1>11. TurnsAreNamed'
  <2> DEFINE l == Head(out)
             q == Handled(Now, l)
  <2>1. /\ l \in Lines /\ l = out[1] /\ seat' = q.seat
        /\ l.is = "reply" => Now.seat.flight.at = "served"
    BY <1>1
  <2>2. q.seat.flight.at = "answered" =>
            \/ q.seat.flight = seat.flight
            \/ /\ l.is = "reply" /\ q.seat.flight.says = l.says
               /\ q.seat.flight.turn = l.turn
    <3> HIDE DEF l
    <3>1. QED
      BY <1>1, <2>1, AnsweredByReply
  <2>3. \/ /\ l.turn \in Turns
           /\ q.seat.awaiting = [seat.awaiting EXCEPT ![l.turn] = <<>>]
        \/ q.seat.awaiting = seat.awaiting
    <3> HIDE DEF l
    <3>1. QED
      BY <1>1, <2>1, HandledTurns DEF SameTurns
  <2> HIDE DEF q
  <2>4. seat.awaiting \in [Turns -> Seq(Receipts)]
    BY DEF Typed, Seats
  <2>5. \A t \in Turns : t > codex'.used => seat'.awaiting[t] = <<>>
    <3>1. \A t \in Turns : t > codex'.used => seat.awaiting[t] = <<>>
      BY <1>1, <2>1 DEF LineOrder, TurnsAreNamed
    <3>2. \A t \in Turns : seat'.awaiting[t] \in {seat.awaiting[t], <<>>}
      BY <2>1, <2>3, <2>4
    <3>3. QED
      BY <3>1, <3>2
  <2>6. seat'.flight.at = "answered" /\ seat'.flight.says = "ok" =>
            seat'.flight.turn <= codex'.used
    BY <1>1, <2>1, <2>2 DEF LineOrder, TurnsAreNamed
  <2>7. \A i \in 1 .. Len(out') :
            out'[i].is = "reply" /\ out'[i].says = "ok" => out'[i].turn <= codex'.used
    BY <1>1 DEF LineOrder, TurnsAreNamed
  <2>8. QED
    BY <2>5, <2>6, <2>7 DEF TurnsAreNamed
<1>12. QED
  BY <1>7, <1>8, <1>9, <1>10, <1>11 DEF LineOrder

(* Lines are written: of the turn codex is in, or of one that it starts.   *)
Orderly(l) ==
    /\ \A k \in 1 .. Len(l) : l[k].is = "completed" =>
           /\ l[k].turn = codex.turn /\ codex'.turn = NoTurn
           /\ \A j \in 1 .. Len(l) : l[j].is = "completed" => j = k
    /\ \A k \in 1 .. Len(l) : l[k].is = "started" =>
           /\ l[k].turn = codex'.used /\ codex'.used > codex.used
           /\ codex.turn = NoTurn
    /\ \A k \in 1 .. Len(l) : l[k].is = "acted" => l[k].turn = codex'.turn
    /\ \A k \in 1 .. Len(l) : l[k].is = "reply" /\ l[k].says = "ok" =>
           l[k].turn <= codex'.used
    /\ \/ codex'.turn = codex.turn
       \/ codex'.turn = NoTurn /\ \E k \in 1 .. Len(l) :
                                      l[k].is = "completed" /\ l[k].turn = codex.turn
       \/ codex.turn = NoTurn /\ \E k \in 1 .. Len(l) :
                                     l[k].is = "started" /\ l[k].turn = codex'.turn
    /\ \/ codex'.used = codex.used
       \/ codex'.used = codex.used + 1 /\ \E k \in 1 .. Len(l) :
                                     l[k].is = "started" /\ l[k].turn = codex'.used

LEMMA TurnNumbers == Turns \cup {NoTurn} \subseteq Nat
<1>1. NoTurn \in Nat
  BY DEF NoTurn
<1>2. QED
  BY <1>1, NoTurnIsNone

LEMMA OrderlyLines ==
    ASSUME Typed, Typed', NEW l, Wrote(l), Orderly(l)
    PROVE  /\ \A k \in 1 .. Len(l) : l[k].is = "completed" =>
                  /\ l[k].turn = codex.turn /\ codex'.turn = NoTurn
                  /\ \A j \in 1 .. Len(l) : l[j].is = "completed" => j = k
           /\ \A k \in 1 .. Len(l) : l[k].is = "started" =>
                  /\ l[k].turn = codex'.used /\ codex'.used > codex.used
                  /\ codex.turn = NoTurn
           /\ \A k \in 1 .. Len(l) : l[k].is = "reply" /\ l[k].says = "ok" =>
                  l[k].turn <= codex'.used
           /\ codex'.used >= codex.used
           /\ codex.used \in Nat /\ codex'.used \in Nat /\ Turns \subseteq Nat
           /\ NoTurn \notin Turns /\ out \in Seq(Lines) /\ l \in Seq(Lines) /\ out' = out \o l
           /\ Len(out) \in Nat /\ Len(l) \in Nat
           /\ \A i \in 1 .. Len(out') :
                  \/ i \in 1 .. Len(out) /\ out'[i] = out[i]
                  \/ \E k \in 1 .. Len(l) : i = Len(out) + k /\ out'[i] = l[k]
           /\ \A i \in 1 .. Len(out) : i \in 1 .. Len(out') /\ out'[i] = out[i]
           /\ \A k \in 1 .. Len(l) : \E i \in 1 .. Len(out') :
                  i = Len(out) + k /\ out'[i] = l[k]
<1>0. /\ \A k \in 1 .. Len(l) : l[k].is = "completed" =>
             /\ l[k].turn = codex.turn /\ codex'.turn = NoTurn
             /\ \A j \in 1 .. Len(l) : l[j].is = "completed" => j = k
      /\ \A k \in 1 .. Len(l) : l[k].is = "started" =>
             /\ l[k].turn = codex'.used /\ codex'.used > codex.used
             /\ codex.turn = NoTurn
      /\ \A k \in 1 .. Len(l) : l[k].is = "reply" /\ l[k].says = "ok" =>
             l[k].turn <= codex'.used
      /\ codex'.used >= codex.used
  <2>1. codex.used \in Nat /\ codex'.used \in Nat
    BY SeatConstantsOK DEF Typed
  <2>2. codex'.used = codex.used \/ codex'.used = codex.used + 1
    BY DEF Orderly
  <2>3. codex'.used >= codex.used
    BY <2>1, <2>2
  <2>4. QED
    BY <2>3 DEF Orderly
<1>1. /\ codex.used \in Nat /\ codex'.used \in Nat /\ Turns \subseteq Nat
      /\ NoTurn \notin Turns /\ out \in Seq(Lines) /\ l \in Seq(Lines) /\ out' = out \o l
  BY SeatConstantsOK, NoTurnIsNone DEF Typed, Wrote
<1>2. /\ Len(out) \in Nat /\ Len(l) \in Nat
      /\ \A i \in 1 .. Len(out') :
             \/ i \in 1 .. Len(out) /\ out'[i] = out[i]
             \/ \E k \in 1 .. Len(l) : i = Len(out) + k /\ out'[i] = l[k]
      /\ \A i \in 1 .. Len(out) : i \in 1 .. Len(out') /\ out'[i] = out[i]
      /\ \A k \in 1 .. Len(l) : \E i \in 1 .. Len(out') :
             i = Len(out) + k /\ out'[i] = l[k]
  <2> DEFINE ol == out \o l
  <2>1. out' = ol
    BY <1>1
  <2>2. /\ Len(out) \in Nat /\ Len(l) \in Nat
        /\ \A i \in 1 .. Len(ol) :
               \/ i \in 1 .. Len(out) /\ ol[i] = out[i]
               \/ \E k \in 1 .. Len(l) : i = Len(out) + k /\ ol[i] = l[k]
        /\ \A i \in 1 .. Len(out) : i \in 1 .. Len(ol) /\ ol[i] = out[i]
        /\ \A k \in 1 .. Len(l) : \E i \in 1 .. Len(ol) :
               i = Len(out) + k /\ ol[i] = l[k]
    BY <1>1, WrittenSplit
  <2> HIDE DEF ol
  <2>3. QED
    BY <2>1, <2>2
<1>3. QED
  BY <1>0, <1>1, <1>2

LEMMA WrittenTurns ==
    ASSUME Typed, Typed', NEW l, Wrote(l), Orderly(l), NEW t \in Turns
    PROVE  /\ NewTurn(t)' <=> NewTurn(t)
           /\ Heard(t)' => Heard(t) \/ (t = codex'.used /\ codex'.used > codex.used
                                        /\ StillToRead("started", t)')
<1>0. /\ \A k \in 1 .. Len(l) : l[k].is = "completed" =>
             /\ l[k].turn = codex.turn /\ codex'.turn = NoTurn
             /\ \A j \in 1 .. Len(l) : l[j].is = "completed" => j = k
      /\ \A k \in 1 .. Len(l) : l[k].is = "started" =>
             /\ l[k].turn = codex'.used /\ codex'.used > codex.used
             /\ codex.turn = NoTurn
      /\ \A k \in 1 .. Len(l) : l[k].is = "reply" /\ l[k].says = "ok" =>
             l[k].turn <= codex'.used
      /\ codex'.used >= codex.used
  BY OrderlyLines
<1>1. /\ codex.used \in Nat /\ codex'.used \in Nat /\ Turns \subseteq Nat
      /\ NoTurn \notin Turns /\ out \in Seq(Lines) /\ l \in Seq(Lines) /\ out' = out \o l
  BY OrderlyLines
<1>2. /\ Len(out) \in Nat /\ Len(l) \in Nat
      /\ \A i \in 1 .. Len(out') :
             \/ i \in 1 .. Len(out) /\ out'[i] = out[i]
             \/ \E k \in 1 .. Len(l) : i = Len(out) + k /\ out'[i] = l[k]
      /\ \A i \in 1 .. Len(out) : i \in 1 .. Len(out') /\ out'[i] = out[i]
      /\ \A k \in 1 .. Len(l) : \E i \in 1 .. Len(out') :
             i = Len(out) + k /\ out'[i] = l[k]
  BY OrderlyLines
<1>4. /\ \A is : \A u : StillToRead(is, u) => StillToRead(is, u)'
      /\ \A k \in 1 .. Len(l) : StillToRead(l[k].is, l[k].turn)'
      /\ \A is : \A u : StillToRead(is, u)' =>
             StillToRead(is, u) \/ \E k \in 1 .. Len(l) : l[k].is = is /\ l[k].turn = u
  <2>1. ASSUME NEW is, NEW u, StillToRead(is, u)'
        PROVE  StillToRead(is, u) \/ \E k \in 1 .. Len(l) : l[k].is = is /\ l[k].turn = u
    <3>1. PICK i \in 1 .. Len(out') : out'[i].is = is /\ out'[i].turn = u
      BY <2>1, StillReadNext
    <3>2. (\E h \in 1 .. Len(out) : out[h] = out'[i]) \/ \E k \in 1 .. Len(l) : l[k] = out'[i]
      BY <1>2
    <3>3. (\E h \in 1 .. Len(out) : out[h] = out'[i]) => StillToRead(is, u)
      BY <3>1, StillReadIs
    <3>4. QED
      BY <3>1, <3>2, <3>3
  <2>2. QED
    BY <2>1, StillReadWritten
<1>5. NewTurn(t)' => NewTurn(t)
  <2>1. codex'.used >= codex.used
    BY <1>1, <1>0
  <2>2. t > codex'.used => t > codex.used
    BY <1>1, <2>1
  <2>3. ASSUME NEW k \in 1 .. Len(l), l[k].is = "started", l[k].turn = t
        PROVE  t > codex.used
    BY <1>0, <2>3
  <2>4. QED
    BY <1>4, <2>2, <2>3 DEF NewTurn
<1>6. NewTurn(t) => NewTurn(t)'
  <2>1. CASE codex'.used = codex.used
    BY <1>4, <2>1 DEF NewTurn
  <2>2. CASE /\ codex'.used = codex.used + 1
             /\ \E k \in 1 .. Len(l) : l[k].is = "started" /\ l[k].turn = codex'.used
    <3>1. t > codex.used => t > codex'.used \/ t = codex'.used
      BY <1>1, <2>2
    <3>2. PICK k \in 1 .. Len(l) : l[k].is = "started" /\ l[k].turn = codex'.used
      BY <2>2
    <3>3. StillToRead(l[k].is, l[k].turn)'
      BY <1>4
    <3>4. t = codex'.used => StillToRead("started", t)'
      BY <3>2, <3>3
    <3>5. QED
      BY <1>4, <3>1, <3>4 DEF NewTurn
  <2>3. QED
    BY <2>1, <2>2 DEF Orderly
<1>7. ASSUME Heard(t)', ~Heard(t)
      PROVE  t = codex'.used /\ codex'.used > codex.used /\ StillToRead("started", t)'
  <2>1. codex.turn # t /\ ~StillToRead("completed", t)
    BY <1>7 DEF Heard
  <2>2. codex'.turn = t
    BY <1>0, <1>4, <1>7, <2>1 DEF Heard
  <2>3. PICK k \in 1 .. Len(l) : l[k].is = "started" /\ l[k].turn = t
    BY <1>1, <2>1, <2>2 DEF Orderly
  <2>4. StillToRead("started", t)'
    BY <1>4, <2>3
  <2>5. QED
    BY <1>0, <2>3, <2>4
<1>8. QED
  BY <1>5, <1>6, <1>7

LEMMA OrderWritten ==
    ASSUME Typed, Typed', StartsOnce, EndsOnce, LineOrder, NEW l, Wrote(l), Orderly(l),
           seat'.turn = seat.turn, seat'.awaiting = seat.awaiting,
           seat'.flight = seat.flight \/ seat'.flight.at # "answered"
    PROVE  LineOrder'
<1>0. /\ \A k \in 1 .. Len(l) : l[k].is = "completed" =>
             /\ l[k].turn = codex.turn /\ codex'.turn = NoTurn
             /\ \A j \in 1 .. Len(l) : l[j].is = "completed" => j = k
      /\ \A k \in 1 .. Len(l) : l[k].is = "started" =>
             /\ l[k].turn = codex'.used /\ codex'.used > codex.used
             /\ codex.turn = NoTurn
      /\ \A k \in 1 .. Len(l) : l[k].is = "reply" /\ l[k].says = "ok" =>
             l[k].turn <= codex'.used
      /\ codex'.used >= codex.used
  BY OrderlyLines
<1>1. /\ codex.used \in Nat /\ codex'.used \in Nat /\ Turns \subseteq Nat
      /\ NoTurn \notin Turns /\ out \in Seq(Lines) /\ l \in Seq(Lines) /\ out' = out \o l
  BY OrderlyLines
<1>2. /\ Len(out) \in Nat /\ Len(l) \in Nat
      /\ \A i \in 1 .. Len(out') :
             \/ i \in 1 .. Len(out) /\ out'[i] = out[i]
             \/ \E k \in 1 .. Len(l) : i = Len(out) + k /\ out'[i] = l[k]
      /\ \A i \in 1 .. Len(out) : i \in 1 .. Len(out') /\ out'[i] = out[i]
      /\ \A k \in 1 .. Len(l) : \E i \in 1 .. Len(out') :
             i = Len(out) + k /\ out'[i] = l[k]
  BY OrderlyLines
<1>3. /\ \A i \in 1 .. Len(out) :
             out[i].is \in {"started", "completed", "acted"} => out[i].turn \in Turns
      /\ \A k \in 1 .. Len(l) :
             l[k].is \in {"started", "completed", "acted"} => l[k].turn \in Turns
  BY <1>1, ElementOfSeq, HandledIs
<1>5. ASSUME NEW t \in Turns
      PROVE  /\ NewTurn(t)' <=> NewTurn(t)
             /\ Heard(t)' => Heard(t) \/ (t = codex'.used /\ codex'.used > codex.used
                                          /\ StillToRead("started", t)')
  BY <1>5, WrittenTurns
<1>6. EndsInOrder'
  <2>1. SUFFICES ASSUME NEW i \in 1 .. Len(out'), out'[i].is = "completed"
                 PROVE  /\ out'[i].turn <= codex'.used /\ out'[i].turn # codex'.turn
                        /\ \A j \in 1 .. Len(out') :
                               out'[j].is = "completed" /\ out'[j].turn = out'[i].turn
                               => j = i
    BY DEF EndsInOrder
  <2>2. CASE i \in 1 .. Len(out) /\ out'[i] = out[i]
    <3>1. /\ out[i].turn <= codex.used /\ out[i].turn # codex.turn
          /\ out[i].turn \in Turns
          /\ \A j \in 1 .. Len(out) :
                 out[j].is = "completed" /\ out[j].turn = out[i].turn => j = i
      BY <1>3, <2>1, <2>2 DEF LineOrder, EndsInOrder
    <3>2. PICK t \in Turns : t = out[i].turn /\ t <= codex.used /\ t # codex.turn
      BY <3>1
    <3>3. t <= codex'.used /\ ~(codex'.used > codex.used /\ t = codex'.used)
      BY <1>0, <1>1, <3>2
    <3>4. t # codex'.turn
      BY <1>0, <1>1, <3>2, <3>3 DEF Orderly
    <3>5. ASSUME NEW j \in 1 .. Len(out'), out'[j].is = "completed", out'[j].turn = t
          PROVE  j = i
      <4>1. ~\E k \in 1 .. Len(l) : j = Len(out) + k /\ out'[j] = l[k]
        BY <1>0, <3>2, <3>5
      <4>2. j \in 1 .. Len(out) /\ out'[j] = out[j]
        BY <1>2, <4>1
      <4>3. QED
        BY <3>1, <3>2, <3>5, <4>2
    <3>6. QED
      BY <2>2, <3>2, <3>3, <3>4, <3>5
  <2>3. ASSUME NEW k \in 1 .. Len(l), i = Len(out) + k, out'[i] = l[k]
        PROVE  /\ out'[i].turn <= codex'.used /\ out'[i].turn # codex'.turn
               /\ \A j \in 1 .. Len(out') :
                      out'[j].is = "completed" /\ out'[j].turn = out'[i].turn => j = i
    <3>1. /\ l[k].turn = codex.turn /\ codex'.turn = NoTurn /\ l[k].turn \in Turns
          /\ \A j \in 1 .. Len(l) : l[j].is = "completed" => j = k
      BY <1>0, <1>3, <2>1, <2>3
    <3>2. codex.turn <= codex.used
      BY <1>1, <3>1 DEF EndsOnce
    <3>3. codex.turn <= codex'.used /\ codex.turn # codex'.turn
      <4>1. PICK a, b, t : a = codex.used /\ b = codex'.used /\ t = codex.turn
        OBVIOUS
      <4>2. a \in Nat /\ b \in Nat /\ t \in Nat /\ t <= a /\ a <= b /\ t # NoTurn
        BY <1>0, <1>1, <3>1, <3>2, <4>1
      <4>3. t <= b
        BY <4>2
      <4>4. QED
        BY <3>1, <4>1, <4>2, <4>3
    <3>4. ASSUME NEW j \in 1 .. Len(out'), out'[j].is = "completed",
                 out'[j].turn = codex.turn
          PROVE  j = i
      <4>1. \A h \in 1 .. Len(out) : out[h].is = "completed" => out[h].turn # codex.turn
        BY DEF LineOrder, EndsInOrder
      <4>2. PICK m \in 1 .. Len(l) : j = Len(out) + m /\ out'[j] = l[m]
        BY <1>2, <3>4, <4>1
      <4>3. QED
        BY <2>3, <3>1, <3>4, <4>2
    <3>5. QED
      BY <2>3, <3>1, <3>3, <3>4
  <2>4. QED
    BY <1>2, <2>2, <2>3
<1>7. StartsInOrder'
  <2>1. SUFFICES ASSUME NEW i \in 1 .. Len(out'), out'[i].is = "started"
                 PROVE  /\ \A t \in Turns : t < out'[i].turn /\ Heard(t)' =>
                               \E j \in 1 .. Len(out') :
                                   j < i /\ out'[j].is = "completed" /\ out'[j].turn = t
                        /\ \A t \in Turns : t > out'[i].turn => NewTurn(t)'
    BY DEF StartsInOrder
  <2>2. CASE i \in 1 .. Len(out) /\ out'[i] = out[i]
    <3>1. PICK u \in Turns : u = out[i].turn /\ u <= codex.used
      BY <1>3, <2>1, <2>2 DEF StartsOnce
    <3>2. \A t \in Turns : t < u /\ Heard(t) =>
              \E j \in 1 .. Len(out) : j < i /\ out[j].is = "completed" /\ out[j].turn = t
      BY <2>1, <2>2, <3>1 DEF LineOrder, StartsInOrder
    <3>3. \A t \in Turns : t > u => NewTurn(t)
      BY <2>1, <2>2, <3>1 DEF LineOrder, StartsInOrder
    <3>4. \A t \in Turns : t < u => ~(t = codex'.used /\ codex'.used > codex.used)
      BY <1>1, <3>1
    <3>5. \A t \in Turns : t < u /\ Heard(t)' => Heard(t)
      BY <1>5, <3>4
    <3>6. ASSUME NEW t \in Turns, t < u, Heard(t)'
          PROVE  \E j \in 1 .. Len(out') :
                     j < i /\ out'[j].is = "completed" /\ out'[j].turn = t
      <4>1. PICK j \in 1 .. Len(out) : j < i /\ out[j].is = "completed" /\ out[j].turn = t
        BY <3>2, <3>5, <3>6
      <4>2. QED
        BY <1>2, <4>1
    <3>7. QED
      BY <1>5, <2>2, <3>1, <3>3, <3>6
  <2>3. ASSUME NEW k \in 1 .. Len(l), i = Len(out) + k, out'[i] = l[k]
        PROVE  /\ \A t \in Turns : t < out'[i].turn /\ Heard(t)' =>
                      \E j \in 1 .. Len(out') :
                          j < i /\ out'[j].is = "completed" /\ out'[j].turn = t
               /\ \A t \in Turns : t > out'[i].turn => NewTurn(t)'
    <3>1. l[k].turn = codex'.used /\ codex.turn = NoTurn
      BY <1>0, <2>1, <2>3
    <3>2. \A j \in 1 .. Len(out) : j < i
      BY <1>2, <2>3
    <3>3. ASSUME NEW t \in Turns, t < codex'.used, Heard(t)'
          PROVE  \E j \in 1 .. Len(out') :
                     j < i /\ out'[j].is = "completed" /\ out'[j].turn = t
      <4>1. t # codex'.used
        BY <1>1, <3>3
      <4>2. Heard(t) /\ codex.turn # t
        BY <1>1, <1>5, <3>1, <3>3, <4>1
      <4>3. PICK j \in 1 .. Len(out) : out[j].is = "completed" /\ out[j].turn = t
        BY <4>2, StillReadIs DEF Heard
      <4>4. QED
        BY <1>2, <3>2, <4>3
    <3>4. \A t \in Turns : t > codex'.used => NewTurn(t)'
      BY DEF NewTurn
    <3>5. QED
      BY <2>3, <3>1, <3>3, <3>4
  <2>4. QED
    BY <1>2, <2>2, <2>3
<1>8. InItsTurn'
  <2>1. SUFFICES ASSUME NEW t \in Turns, Heard(t)', ~NewTurn(t)' PROVE seat'.turn = t
    BY DEF InItsTurn
  <2>2. ~StillToRead("started", t)'
    BY <2>1 DEF NewTurn
  <2>3. Heard(t) /\ ~NewTurn(t)
    BY <1>5, <2>1, <2>2
  <2>4. QED
    BY <2>3 DEF LineOrder, InItsTurn
<1>9. ToolsAreHeard'
  <2>1. SUFFICES ASSUME NEW i \in 1 .. Len(out'), out'[i].is = "acted"
                 PROVE  codex'.turn = out'[i].turn \/ EndFollows(out', i)
    BY DEF ToolsAreHeard
  <2>2. CASE i \in 1 .. Len(out) /\ out'[i] = out[i]
    <3>1. codex.turn = out[i].turn \/ EndFollows(out, i)
      BY <2>1, <2>2 DEF LineOrder, ToolsAreHeard
    <3>2. EndFollows(out, i) => EndFollows(out', i)
      BY <1>2, <2>2 DEF EndFollows
    <3>3. ASSUME NEW k \in 1 .. Len(l), l[k].is = "completed", l[k].turn = out[i].turn
          PROVE  EndFollows(out', i)
      <4>1. PICK j \in 1 .. Len(out') : j = Len(out) + k /\ out'[j] = l[k]
        BY <1>2
      <4>2. j > i
        BY <1>2, <2>2, <4>1
      <4>3. QED
        BY <2>2, <3>3, <4>1, <4>2 DEF EndFollows
    <3>4. out[i].turn # NoTurn
      BY <1>1, <1>3, <2>1, <2>2
    <3>5. QED
      BY <2>2, <3>1, <3>2, <3>3, <3>4 DEF Orderly
  <2>3. CASE \E k \in 1 .. Len(l) : i = Len(out) + k /\ out'[i] = l[k]
    BY <2>1, <2>3 DEF Orderly
  <2>4. QED
    BY <1>2, <2>2, <2>3
<1>10. TurnsAreNamed'
  <2>1. ASSUME NEW i \in 1 .. Len(out'), out'[i].is = "reply", out'[i].says = "ok"
        PROVE  out'[i].turn <= codex'.used
    <3>1. ASSUME i \in 1 .. Len(out), out'[i] = out[i] PROVE out'[i].turn <= codex'.used
      <4>1. out[i].turn <= codex.used /\ out[i] \in Lines
        BY <1>1, <2>1, <3>1, ElementOfSeq DEF LineOrder, TurnsAreNamed
      <4>2. out[i].turn \in Nat
        <5>1. out[i].turn \in Turns \cup {NoTurn}
          BY <4>1 DEF Lines
        <5>2. QED
          BY <5>1, TurnNumbers
      <4>3. QED
        BY <1>0, <1>1, <3>1, <4>1, <4>2
    <3>2. (\E k \in 1 .. Len(l) : i = Len(out) + k /\ out'[i] = l[k]) =>
          out'[i].turn <= codex'.used
      BY <1>0, <2>1
    <3>3. QED
      BY <1>2, <3>1, <3>2
  <2>2. seat'.flight.at = "answered" /\ seat'.flight.says = "ok" =>
            seat'.flight.turn <= codex'.used
    <3>1. SUFFICES ASSUME seat'.flight.at = "answered", seat'.flight.says = "ok"
                   PROVE  seat'.flight.turn <= codex'.used
      OBVIOUS
    <3>2. seat'.flight = seat.flight /\ seat.flight.turn <= codex.used
      BY <3>1 DEF LineOrder, TurnsAreNamed
    <3>3. seat.flight \in Flights
      BY DEF Typed, Seats
    <3>4. seat.flight.turn \in Turns \cup {NoTurn}
      BY <3>3 DEF Flights
    <3>5. seat.flight.turn \in Nat
      BY <3>4, TurnNumbers
    <3>6. QED
      BY <1>0, <1>1, <3>2, <3>5
  <2>3. \A t \in Turns : t > codex'.used => seat'.awaiting[t] = <<>>
    <3>1. \A t \in Turns : t > codex'.used => t > codex.used
      BY <1>0, <1>1
    <3>2. QED
      BY <3>1 DEF LineOrder, TurnsAreNamed
  <2>4. QED
    BY <2>1, <2>2, <2>3 DEF TurnsAreNamed
<1>11. QED
  BY <1>6, <1>7, <1>8, <1>9, <1>10 DEF LineOrder

LEMMA ServedOrderly ==
    ASSUME Typed, EndsOnce, StartTurn \/ Steer \/ RefuseSteer \/ RefuseRequest
    PROVE  \E l : Wrote(l) /\ Orderly(l)
<1>1. codex.used \in Nat
  BY SeatConstantsOK DEF Typed
<1>2. CASE StartTurn
  <2> DEFINE t == codex.used + 1
             a == <<Reply("ok", t), Started(t), Status("active")>>
             b == <<Status("active"), Started(t), Reply("ok", t)>>
  <2>1. /\ t \in Turns /\ codex' = [codex EXCEPT !.turn = t, !.used = t]
        /\ Wrote(a) \/ Wrote(b)
    BY <1>2, StartTurnWrites
  <2>2. codex.turn = NoTurn
    BY <1>2 DEF StartTurn
  <2>3. /\ Started(t).is = "started" /\ Started(t).turn = t
        /\ Status("active").is = "status"
        /\ Reply("ok", t).is = "reply" /\ Reply("ok", t).turn = t
    BY DEF Started, Status, Reply, Line
  <2>4. /\ Len(a) = 3 /\ a[1] = Reply("ok", t) /\ a[2] = Started(t)
        /\ a[3] = Status("active")
        /\ Len(b) = 3 /\ b[1] = Status("active") /\ b[2] = Started(t)
        /\ b[3] = Reply("ok", t)
    BY ShortLines
  <2>5. t > codex.used /\ t = codex.used + 1 /\ t <= t
    BY <1>1
  <2> HIDE DEF a, b, t
  <2>6. codex'.used = t /\ codex'.turn = t
    BY <2>1 DEF Typed
  <2>7. ASSUME NEW l, Len(l) = 3, l[2] = Started(t),
               \A k \in {1, 3} : l[k].is \in {"reply", "status"}
                                 /\ (l[k].is = "reply" => l[k].turn = t)
        PROVE  Orderly(l)
    <3>1. \A k \in 1 .. Len(l) : k = 2 \/ k \in {1, 3}
      BY <2>7
    <3>2. 2 \in 1 .. Len(l)
      BY <2>7
    <3>3. QED
      BY <2>2, <2>3, <2>5, <2>6, <2>7, <3>1, <3>2 DEF Orderly
  <2>8. Orderly(a)
    BY <2>3, <2>4, <2>7
  <2>9. Orderly(b)
    BY <2>3, <2>4, <2>7
  <2>10. QED
    BY <2>1, <2>8, <2>9
<1>3. CASE Steer \/ RefuseSteer \/ RefuseRequest
  <2>1. PICK says, t : /\ Wrote(<<Reply(says, t)>>)
                       /\ says = "ok" => t = codex.turn
    BY <1>3, RequestsWrite
  <2>2. codex' = codex
    BY <1>3 DEF Steer, RefuseSteer, RefuseRequest
  <2>3. codex.turn <= codex.used
    BY DEF EndsOnce
  <2>4. PICK l : l = <<Reply(says, t)>>
    OBVIOUS
  <2>5. Len(l) = 1 /\ l[1].is = "reply" /\ l[1].says = says /\ l[1].turn = t
    BY <2>4, ShortLines DEF Reply, Line
  <2>6. \A k \in 1 .. Len(l) : k = 1
    BY <2>5
  <2>7. Orderly(l)
    BY <2>1, <2>2, <2>3, <2>5, <2>6 DEF Orderly
  <2>8. QED
    BY <2>1, <2>4, <2>7
<1>4. QED
  BY <1>2, <1>3

LEMMA OrderServed ==
    ASSUME Typed, Typed', StartsOnce, EndsOnce, LineOrder,
           StartTurn \/ Steer \/ RefuseSteer \/ RefuseRequest
    PROVE  LineOrder'
<1>1. seat' = [seat EXCEPT !.flight.at = "served"] /\ seat \in Seats
  BY DEF StartTurn, Steer, RefuseSteer, RefuseRequest, Asked, Serve, Typed
<1>2. /\ seat'.turn = seat.turn /\ seat'.awaiting = seat.awaiting
      /\ seat'.flight.at # "answered"
  BY <1>1 DEF Seats, Flights
<1>3. PICK l : Wrote(l) /\ Orderly(l)
  BY ServedOrderly
<1>4. QED
  BY <1>2, <1>3, OrderWritten

LEMMA ToldOrderly ==
    ASSUME Typed, EndTurn \/ FailTurn \/ Interrupt \/ UseTool \/ ReportError \/ Recover
    PROVE  \E l : Wrote(l) /\ Orderly(l)
<1>1. codex'.used = codex.used
  <2>1. [codex EXCEPT !.turn = NoTurn].used = codex.used
        /\ [codex EXCEPT !.broken = FALSE].used = codex.used
        /\ \A b : [codex EXCEPT !.turn = NoTurn, !.broken = b].used = codex.used
    BY DEF Typed
  <2>2. CASE EndTurn
    BY <2>1, <2>2 DEF EndTurn
  <2>3. CASE FailTurn
    BY <2>1, <2>3 DEF FailTurn
  <2>4. CASE Interrupt
    BY <2>1, <2>4 DEF Interrupt
  <2>5. CASE UseTool \/ ReportError
    BY <2>5 DEF UseTool, ReportError
  <2>6. CASE Recover
    BY <2>1, <2>6 DEF Recover
  <2>7. QED
    BY <2>2, <2>3, <2>4, <2>5, <2>6
<1>2. /\ \A t : \A how : Completed(t, how).is = "completed" /\ Completed(t, how).turn = t
      /\ \A s : Status(s).is = "status"
      /\ \A t : UsedTool(t).is = "acted" /\ UsedTool(t).turn = t
      /\ \A is : Line(is).is = is
  BY DEF Completed, Status, UsedTool, Line
<1>3. ASSUME NEW a, NEW b, codex'.turn = NoTurn,
             a.is = "completed", a.turn = codex.turn, b.is \in {"status", "interrupted"}
      PROVE  Orderly(<<a, b>>) /\ Orderly(<<b, a>>)
  <2>1. PICK l, m : l = <<a, b>> /\ m = <<b, a>>
    OBVIOUS
  <2>2. /\ Len(l) = 2 /\ l[1] = a /\ l[2] = b
        /\ Len(m) = 2 /\ m[1] = b /\ m[2] = a
    BY <2>1, ShortLines
  <2>3. 1 \in 1 .. 2 /\ 2 \in 1 .. 2 /\ \A k \in 1 .. 2 : k = 1 \/ k = 2
    OBVIOUS
  <2>4. Orderly(l)
    BY <1>1, <1>3, <2>2, <2>3 DEF Orderly
  <2>5. Orderly(m)
    BY <1>1, <1>3, <2>2, <2>3 DEF Orderly
  <2>6. QED
    BY <2>1, <2>4, <2>5
<1>4. ASSUME NEW a, codex'.turn = codex.turn,
             \/ a.is \in {"interrupted", "error", "status"}
             \/ a.is = "acted" /\ a.turn = codex.turn
      PROVE  Orderly(<<a>>)
  <2>1. PICK l : l = <<a>>
    OBVIOUS
  <2>2. Len(l) = 1 /\ l[1] = a
    BY <2>1, ShortLines
  <2>3. \A k \in 1 .. Len(l) : k = 1
    BY <2>2
  <2>4. Orderly(l)
    BY <1>1, <1>4, <2>2, <2>3 DEF Orderly
  <2>5. QED
    BY <2>1, <2>4
<1>5. CASE EndTurn \/ FailTurn
  <2>1. PICK how \in {"completed", "failed"}, s \in {"idle", "systemError"} :
            \/ Wrote(<<Completed(codex.turn, how), Status(s)>>)
            \/ Wrote(<<Status(s), Completed(codex.turn, how)>>)
    BY <1>5, EndsWrite
  <2>2. codex'.turn = NoTurn
    BY <1>5, EndsWrite
  <2>3. PICK a, b : a = Completed(codex.turn, how) /\ b = Status(s)
    OBVIOUS
  <2>4. Orderly(<<a, b>>) /\ Orderly(<<b, a>>)
    BY <1>2, <1>3, <2>2, <2>3
  <2>5. QED
    BY <2>1, <2>3, <2>4
<1>6. CASE Interrupt
  <2>1. PICK a, b : a = Completed(codex.turn, "interrupted") /\ b = Line("interrupted")
    OBVIOUS
  <2>2. /\ codex'.turn = NoTurn
        /\ \/ codex.turn = NoTurn /\ Wrote(<<b>>)
           \/ Wrote(<<a, b>>) \/ Wrote(<<b, a>>)
    BY <1>6, <2>1, InterruptWrites
  <2>3. /\ a.is = "completed" /\ a.turn = codex.turn /\ b.is = "interrupted"
    BY <1>2, <2>1
  <2>4. Orderly(<<a, b>>) /\ Orderly(<<b, a>>)
    BY <1>3, <2>2, <2>3
  <2>5. codex.turn = NoTurn => Orderly(<<b>>)
    BY <1>4, <2>2, <2>3
  <2>6. QED
    BY <2>2, <2>4, <2>5
<1>7. CASE UseTool \/ ReportError \/ Recover
  <2>1. codex'.turn = codex.turn
    BY <1>7 DEF UseTool, ReportError, Recover, Typed
  <2>2. PICK a : /\ Wrote(<<a>>)
                 /\ \/ a.is \in {"interrupted", "error", "status"}
                    \/ a.is = "acted" /\ a.turn = codex.turn
    BY <1>2, <1>7, NoticesWrite
  <2>3. QED
    BY <1>4, <2>1, <2>2
<1>8. QED
  BY <1>5, <1>6, <1>7

LEMMA OrderTold ==
    ASSUME Typed, Typed', StartsOnce, EndsOnce, LineOrder,
           EndTurn \/ FailTurn \/ Interrupt \/ UseTool \/ ReportError \/ Recover
    PROVE  LineOrder'
<1>1. seat' = seat
  BY DEF EndTurn, FailTurn, Interrupt, UseTool, ReportError, Recover
<1>2. PICK l : Wrote(l) /\ Orderly(l)
  BY ToldOrderly
<1>3. QED
  BY <1>1, <1>2, OrderWritten

LEMMA AnsweredAwaits ==
    ASSUME NEW p \in Plans, p.seat.flight.at = "answered"
    PROVE  LET q == Answered(p)
           IN  /\ q.seat.turn = p.seat.turn /\ q.seat.flight.at # "answered"
               /\ \A t \in Turns : \/ q.seat.awaiting[t] = p.seat.awaiting[t]
                                   \/ p.seat.flight.says = "ok" /\ p.seat.flight.turn = t
<1> DEFINE q == Answered(p)
           f == p.seat.flight
           same == \A t \in Turns : \/ q.seat.awaiting[t] = p.seat.awaiting[t]
                                    \/ f.says = "ok" /\ f.turn = t
<1>1. CASE AsksAgain(p, q)
  BY <1>1 DEF AsksAgain, SameTurns
<1>2. ASSUME NEW e \in Plans, q = Finished(e),
             JoinsTurn(p, e) \/ AwaitsTurn(p, e) \/ GivesUp(p, e)
      PROVE  q.seat.turn = p.seat.turn /\ q.seat.flight.at # "answered" /\ same
  <2>1. SameTurns(e.seat, q.seat)
    BY <1>2, FinishedIs
  <2>2. p.seat \in Seats /\ p.seat.awaiting \in [Turns -> Seq(Receipts)]
    BY DEF Plans, Seats
  <2>3. q.seat.flight.at # "answered"
    <3> DEFINE w == Finished(e)
               s == [e.seat EXCEPT !.flight = NoFlight]
    <3>1. w.seat.flight = NoFlight \/ Drains(s, e.net, w.seat, w.net)
      BY FinishedIs
    <3>2. s.flight = NoFlight /\ NoFlight.at = "none"
      BY DEF Plans, Seats, NoFlight
    <3> HIDE DEF w, s, q
    <3>3. w.seat.flight.at # "answered"
      BY <3>1, <3>2 DEF Drains
    <3>4. QED
      BY <1>2, <3>3 DEF w
  <2> HIDE DEF q
  <2>4. CASE JoinsTurn(p, e) \/ GivesUp(p, e)
    BY <2>1, <2>2, <2>3, <2>4 DEF JoinsTurn, GivesUp, SameTurns, Seats
  <2>5. CASE AwaitsTurn(p, e)
    <3>1. /\ q.seat.turn = p.seat.turn /\ f.says = "ok"
          /\ q.seat.awaiting = [p.seat.awaiting EXCEPT ![f.turn] = f.events]
      BY <2>1, <2>2, <2>5 DEF AwaitsTurn, SameTurns, Seats
    <3> HIDE DEF f
    <3>2. same
      BY <2>2, <3>1
    <3>3. QED
      BY <2>3, <3>1, <3>2
  <2>6. QED
    BY <1>2, <2>4, <2>5
<1>3. QED
  BY <1>1, <1>2, AnsweredIs

LEMMA OrderMoves ==
    ASSUME Typed, Typed', OneReply, ReachInv, LeaseInv, LineOrder,
           \/ PushMessage \/ LoseLink \/ LoopEnds \/ Subscribe \/ SweepTurn
           \/ Forward \/ Spawn \/ Stop \/ StopTurn \/ Close
           \/ ReadLine \/ Continue \/ Timer \/ UNCHANGED vars
    PROVE  LineOrder'
<1>1. Now \in Plans /\ Now.seat = seat
  BY NowTyped DEF Now
<1>2. CASE PushMessage \/ LoseLink \/ LoopEnds \/ Subscribe \/ SweepTurn \/ StopTurn
           \/ UNCHANGED vars
  <2>1. seat' = seat /\ out' = out /\ codex' = codex
    BY <1>2 DEF PushMessage, LoseLink, LoopEnds, Subscribe, SweepTurn, StopTurn,
                seatVars, vars
  <2>2. TurnsAreNamed'
    BY <2>1 DEF LineOrder, TurnsAreNamed
  <2>3. QED
    BY <2>1, <2>2, OrderSame
<1>3. CASE Forward
  <2>1. /\ SameTurns(seat, seat') /\ seat'.flight = seat.flight
        /\ out' = out /\ codex' = codex
    BY <1>3, ReceivedKeepsTurns
  <2>2. TurnsAreNamed' /\ seat'.turn = seat.turn
    BY <2>1 DEF LineOrder, TurnsAreNamed, SameTurns
  <2>3. QED
    BY <2>1, <2>2, OrderSame
<1>4. CASE Spawn \/ Close
  <2>1. /\ out' = <<>> /\ codex'.turn = NoTurn /\ seat'.flight.at = "none"
        /\ \A t \in Turns : seat'.awaiting[t] = <<>>
    <3>1. CASE Spawn
      BY <3>1 DEF Spawn, NewSeat, NoFlight, NewCodex
    <3>2. CASE Close
      BY <3>2 DEF Close, NewSeat, NoFlight, NewCodex
    <3>3. QED
      BY <1>4, <3>1, <3>2
  <2>2. QED
    BY <2>1, OrderFresh
<1>5. CASE Stop \/ Timer
  <2>1. seat' = Flushed(Now).seat /\ out' = out /\ codex' = codex
    BY <1>5 DEF Stop, Timer, Become
  <2>2. /\ SameTurns(seat, seat')
        /\ seat'.flight = seat.flight \/ seat'.flight.at # "answered"
    BY <1>1, <2>1, FlushedIs DEF Drains
  <2>3. TurnsAreNamed' /\ seat'.turn = seat.turn
    BY <2>1, <2>2 DEF LineOrder, TurnsAreNamed, SameTurns
  <2>4. QED
    BY <2>1, <2>3, OrderSame
<1>6. CASE Continue
  <2>1. /\ seat' = Answered(Now).seat /\ out' = out /\ codex' = codex
        /\ seat.flight.at = "answered"
    BY <1>6 DEF Continue, Become
  <2>2. /\ seat'.turn = seat.turn /\ seat'.flight.at # "answered"
        /\ \A t \in Turns : \/ seat'.awaiting[t] = seat.awaiting[t]
                            \/ seat.flight.says = "ok" /\ seat.flight.turn = t
    BY <1>1, <2>1, AnsweredAwaits
  <2>3. seat.flight.says = "ok" => seat.flight.turn <= codex.used
    BY <2>1 DEF LineOrder, TurnsAreNamed
  <2>4. codex.used \in Nat /\ Turns \subseteq Nat
    BY LineTurns
  <2>5. \A t \in Turns : t > codex.used => seat'.awaiting[t] = seat.awaiting[t]
    BY <2>2, <2>3, <2>4
  <2>6. TurnsAreNamed'
    BY <2>1, <2>2, <2>5 DEF LineOrder, TurnsAreNamed
  <2>7. QED
    BY <2>1, <2>2, <2>6, OrderSame
<1>7. CASE ReadLine
  BY <1>7, OrderRead DEF ReachInv, LeaseInv
<1>8. QED
  BY <1>2, <1>3, <1>4, <1>5, <1>6, <1>7

LEMMA OrderStep ==
    ASSUME Typed, Typed', OneReply, ReachInv, HonestInv, LeaseInv, LineOrder, [Next]_vars
    PROVE  LineOrder'
<1>1. StartsOnce /\ EndsOnce
  BY DEF LeaseInv, HonestInv
<1>2. QED
  BY <1>1, OrderMoves, OrderServed, OrderTold DEF Next

(* Where the receipts are, through every step.                             *)

PlacedAt(s, e, n, U, A) ==
    NetSound(n) /\ Placed(s, Queue(s, e), n, U, A) /\ Flown(s)

LEMMA PlacedFrom ==
    ASSUME NEW U \in SUBSET Turns, NEW A \in SUBSET Turns,
           PlacedAt(seat', early', stream', U, A), attached' => early' = <<>>,
           \A t \in Unread' : t \in U \/ seat'.awaiting[t] = <<>>,
           \A t \in Alive' : t \in A \/ seat'.held[t] = <<>>
    PROVE  PlacedInv'
<1>1. PICK q : q = Queue(seat', early')
  OBVIOUS
<1>2. Placed(seat', q, stream', U, A) /\ InOrder(q)
  BY <1>1 DEF PlacedAt, Placed, Queued
<1>3. PICK V, B : V = Unread' /\ B = Alive'
  OBVIOUS
<1>4. V \subseteq Turns /\ B \subseteq Turns
  BY <1>3 DEF Unread, Alive
<1>5. PICK s, n : s = seat' /\ n = stream'
  OBVIOUS
<1>6. /\ \A t \in V : t \in U \/ s.awaiting[t] = <<>>
      /\ \A t \in B : t \in A \/ s.held[t] = <<>>
      /\ Placed(s, q, n, U, A)
  BY <1>2, <1>3, <1>5
<1>7. Placed(s, q, n, V, B)
  BY <1>2, <1>4, <1>6, PlacedLess
<1>8. QED
  BY <1>1, <1>3, <1>5, <1>7 DEF PlacedInv, PlacedAt

LEMMA PlacedIs ==
    ASSUME Typed, LeaseInv, PlacedInv
    PROVE  /\ Now \in Plans /\ Now.seat = seat /\ Now.net = stream
           /\ Unread \in SUBSET Turns /\ Alive \in SUBSET Turns
           /\ early \in Seq(Receipts) /\ seat \in Seats /\ stream \in Streams
           /\ Wired(stream) /\ PlacedAt(seat, early, stream, Unread, Alive)
           /\ Sits(Now, early, Unread, Alive)
<1>1. Now \in Plans /\ Now.seat = seat /\ Now.net = stream
  BY NowTyped DEF Now
<1>2. Wired(stream)
  BY DEF LeaseInv, LeasedNet, Wired
<1>3. PlacedAt(seat, early, stream, Unread, Alive)
  BY DEF PlacedInv, PlacedAt
<1>4. Sits(Now, early, Unread, Alive)
  BY <1>1, <1>2, <1>3 DEF PlacedAt, Sits
<1>5. QED
  BY <1>1, <1>2, <1>3, <1>4 DEF Typed, Unread, Alive

LEMMA PlacedNet ==
    ASSUME NEW s \in Seats, NEW q \in Seq(Receipts), NEW n, NEW n2, NEW U \in SUBSET Turns,
           NEW A \in SUBSET Turns, Placed(s, q, n, U, A), n2.copies = n.copies,
           \A r \in Receipts : Unaccepted(n, r) => Unaccepted(n2, r),
           \A r \in Receipts : Made(n, r) /\ Lands(n, r) => Lands(n2, r)
    PROVE  Placed(s, q, n2, U, A)
<1>1. /\ \A r \in ToSet(q) : r \in Receipts
      /\ \A t \in Turns : \A r \in ToSet(s.awaiting[t]) : r \in Receipts
      /\ \A t \in Turns : \A r \in ToSet(s.held[t]) : r \in Receipts
  BY ElementsOf DEF Seats
<1>2. \A r : (Made(n2, r) <=> Made(n, r)) /\ (Latest(n2, r) <=> Latest(n, r))
  BY DEF Made, Latest
<1>3. Queued(q, n2)
  BY <1>1, <1>2 DEF Placed, Queued
<1>4. InTurns(s, n2)
  BY <1>2 DEF Placed, InTurns
<1>5. Awaits(s, q, n2, U, A)
  BY <1>1, <1>2 DEF Placed, Awaits
<1>6. Landing(s, q, n2, A)
  BY <1>1, <1>2 DEF Placed, Landing, InTurns
<1>7. QED
  BY <1>3, <1>4, <1>5, <1>6 DEF Placed

(* What a change of the connection keeps.                                  *)
NetKept(n, n2) ==
    /\ NetSound(n2) /\ n2.copies = n.copies
    /\ \A r \in Receipts : Unaccepted(n, r) => Unaccepted(n2, r)
    /\ \A r \in Receipts : Made(n, r) /\ Lands(n, r) => Lands(n2, r)

LEMMA NetReleased ==
    ASSUME NEW n \in Streams, NetSound(n), NEW n2 \in Streams,
           n2.gen = n.gen, n2.acc = n.acc, n2.pend = n.pend, n2.copies = n.copies,
           n2.sent = n.sent, n2.active = n.active,
           \A m \in Msgs : n2.row[m] = "none" <=> n.row[m] = "none",
           ToSet(n2.down) \subseteq ToSet(n.down),
           n2.link # "up" \/ n2.cond = "degraded"
    PROVE  NetKept(n, n2)
<1>1. \A r : (Made(n2, r) <=> Made(n, r)) /\ (Unaccepted(n2, r) <=> Unaccepted(n, r))
  BY DEF Made, Unaccepted
<1>2. NetSound(n2)
  BY <1>1 DEF NetSound
<1>3. \A r \in Receipts : Lands(n, r) => Lands(n2, r)
  BY DEF Lands
<1>4. QED
  BY <1>1, <1>2, <1>3 DEF NetKept

LEMMA LinksKeep ==
    ASSUME Typed, NetSound(stream),
           Push \/ Lose \/ EndStream \/ Connect(Introduction)
             \/ \E t \in Turns : Backstop(t)
    PROVE  NetKept(stream, stream')
<1>1. stream \in Streams /\ stream' \in Streams
  BY LinkTyped DEF Typed
<1>2. CASE Push
  <2> DEFINE m == stream.sent + 1
  <2>1. /\ stream'.pend = stream.pend /\ stream'.active = stream.active
        /\ stream'.link = stream.link /\ stream'.acc = stream.acc
        /\ stream'.gen = stream.gen /\ stream'.copies = stream.copies
        /\ stream'.cond = stream.cond /\ stream'.sent = m
        /\ stream'.row = [stream.row EXCEPT ![m] = "pending"]
        /\ stream'.down \in {stream.down, Append(stream.down, m)}
    <3> DEFINE d == IF stream.link = "up" /\ stream.cond = "ready"
                    THEN Append(stream.down, m) ELSE stream.down
    <3>1. stream' = [stream EXCEPT !.sent = m, !.row[m] = "pending", !.down = d]
      BY <1>2 DEF Push
    <3>2. d \in {stream.down, Append(stream.down, m)}
      OBVIOUS
    <3> HIDE DEF m, d
    <3>3. QED
      BY <1>1, <3>1, <3>2 DEF Streams
  <2>2. m \in Msgs /\ m > stream.sent /\ stream.down \in Seq(Msgs)
        /\ stream.row \in [Msgs -> RowStates] /\ stream.sent \in Nat /\ Msgs \subseteq Nat
    BY <1>1, <1>2, StreamConstantsOK DEF Push, Streams, Msgs
  <2>3. ToSet(stream'.down) \subseteq ToSet(stream.down) \cup {m}
    <3>1. PICK d : d = stream.down
      OBVIOUS
    <3>2. ToSet(Append(d, m)) = ToSet(d) \cup {m}
      BY <2>2, <3>1, ElementsOf
    <3>3. stream'.down \in {d, Append(d, m)}
      BY <2>1, <3>1
    <3>4. QED
      BY <3>1, <3>2, <3>3
  <2>4. stream.row[m] = "none"
    BY <2>2 DEF NetSound
  <2>5. \A k \in Msgs : k > m => k > stream.sent /\ k # m
    <3>1. /\ m \in Nat /\ stream.sent \in Nat /\ m > stream.sent
          /\ \A k \in Msgs : k \in Nat
      BY <2>2
    <3> HIDE DEF m
    <3>2. QED
      BY <3>1
  <2> HIDE DEF m
  <2>6. /\ stream'.row[m] = "pending"
        /\ \A k \in Msgs : k # m => stream'.row[k] = stream.row[k]
    BY <2>1, <2>2
  <2>7. \A r : /\ Made(stream', r) <=> Made(stream, r)
               /\ Unaccepted(stream', r) <=> Unaccepted(stream, r)
    BY <2>1 DEF Made, Unaccepted
  <2>8. NetSound(stream')
    <3>1. \A k \in Msgs : stream'.copies[k] > 0 \/ k \in ToSet(stream'.down) =>
                              stream'.row[k] # "none"
      BY <2>1, <2>3, <2>6 DEF NetSound
    <3>2. \A k \in Msgs : k > stream'.sent => stream'.row[k] = "none"
      BY <2>1, <2>5, <2>6 DEF NetSound
    <3>3. QED
      BY <2>1, <2>7, <3>1, <3>2 DEF NetSound
  <2>9. ASSUME NEW r \in Receipts, Made(stream, r), Lands(stream, r)
        PROVE  Lands(stream', r)
    <3>1. stream.row[r[1]] # "none" /\ r[1] \in Msgs
      BY <1>1, <2>9, MadeHasRow
    <3>2. stream'.row[r[1]] = stream.row[r[1]]
      BY <2>4, <2>6, <3>1
    <3>3. QED
      BY <2>1, <2>9, <3>2 DEF Lands, Leased
  <2>10. QED
    BY <2>1, <2>7, <2>8, <2>9 DEF NetKept
<1>3. CASE Lose
  <2> DEFINE n == Released(stream)
  <2>1. PICK k \in 0 .. Len(stream.down) :
            stream' = [n EXCEPT !.link = "lost", !.cond = "none", !.open = {},
                                !.down = SubSeq(@, 1, k)]
    BY <1>3 DEF Lose
  <2>2. /\ n \in Streams /\ n.down = stream.down /\ n.gen = stream.gen
        /\ n.acc = stream.acc /\ n.pend = stream.pend /\ n.copies = stream.copies
        /\ n.sent = stream.sent /\ n.active = stream.active
        /\ \A m \in Msgs : n.row[m] = "none" <=> stream.row[m] = "none"
    <3>1. n \in Streams
      BY <1>1, ReleasedTyped
    <3>2. QED
      BY <1>1, <3>1 DEF Released, Streams
  <2> HIDE DEF n
  <2>3. /\ stream'.gen = n.gen /\ stream'.acc = n.acc /\ stream'.pend = n.pend
        /\ stream'.copies = n.copies /\ stream'.sent = n.sent
        /\ stream'.active = n.active /\ stream'.row = n.row
        /\ stream'.link = "lost" /\ stream'.down = SubSeq(stream.down, 1, k)
    BY <2>1, <2>2 DEF Streams
  <2>4. ToSet(SubSeq(stream.down, 1, k)) \subseteq ToSet(stream.down)
    <3>1. PICK d, e : d = stream.down /\ e = SubSeq(stream.down, 1, k)
      OBVIOUS
    <3>2. d \in Seq(Msgs) /\ Len(d) \in Nat /\ k \in 0 .. Len(d)
      BY <1>1, <3>1, LenProperties DEF Streams
    <3>3. /\ e \in Seq(Msgs) /\ Len(e) = k
          /\ \A i \in 1 .. k : e[i] = d[i] /\ i \in 1 .. Len(d)
      BY <3>1, <3>2, SubSeqProperties
    <3>4. \A x \in ToSet(e) : \E i \in 1 .. Len(e) : x = e[i]
      BY <3>3, ElementsOf
    <3>5. \A i \in 1 .. Len(d) : d[i] \in ToSet(d)
      BY <3>2, ElementsOf
    <3>6. QED
      BY <3>1, <3>3, <3>4, <3>5
  <2>5. ToSet(stream'.down) \subseteq ToSet(stream.down) /\ stream'.link # "up"
    BY <2>3, <2>4
  <2>6. \A m \in Msgs : stream'.row[m] = "none" <=> stream.row[m] = "none"
    BY <2>2, <2>3
  <2>7. /\ stream'.gen = stream.gen /\ stream'.acc = stream.acc
        /\ stream'.pend = stream.pend /\ stream'.copies = stream.copies
        /\ stream'.sent = stream.sent /\ stream'.active = stream.active
    BY <2>2, <2>3
  <2>8. QED
    BY <1>1, <2>5, <2>6, <2>7, NetReleased
<1>4. CASE EndStream
  <2>1. /\ stream'.gen = stream.gen /\ stream'.acc = stream.acc
        /\ stream'.pend = stream.pend /\ stream'.copies = stream.copies
        /\ stream'.sent = stream.sent /\ stream'.row = stream.row
        /\ stream'.down = stream.down /\ stream'.link = "none" /\ stream'.active = FALSE
    BY <1>1, <1>4 DEF EndStream, Streams
  <2>2. \A r : /\ Made(stream', r) <=> Made(stream, r)
               /\ Unaccepted(stream', r) <=> Unaccepted(stream, r)
               /\ Lands(stream, r) => Lands(stream', r)
    BY <2>1 DEF Made, Unaccepted, Lands
  <2>3. NetSound(stream')
    BY <2>1, <2>2 DEF NetSound
  <2>4. QED
    BY <2>1, <2>2, <2>3 DEF NetKept
<1>5. CASE Connect(Introduction)
  <2>1. PICK link \in {"up", "lost"} :
            stream' = Opened([stream EXCEPT !.active = TRUE, !.gen = @ + 1,
                                            !.link = link], Introduction)
    BY <1>5 DEF Connect
  <2>2. PICK acts : acts = Introduction
    OBVIOUS
  <2>3. acts \in Seq(Acts) /\ Introduces(acts) /\ stream.gen < MaxConns
    BY <1>5, <2>2, Introducing DEF Connect
  <2>4. PICK n, n2 : n = stream /\ n2 = stream'
    OBVIOUS
  <2>5. n \in Streams /\ NetSound(n) /\ n.gen < MaxConns
    BY <1>1, <2>3, <2>4
  <2>6. n2 = Opened([n EXCEPT !.active = TRUE, !.gen = @ + 1, !.link = link], acts)
    BY <2>1, <2>2, <2>4
  <2>7. NetKept(n, n2)
    BY <2>3, <2>5, <2>6, OpenedIs DEF NetKept
  <2>8. QED
    BY <2>4, <2>7
<1>6. CASE \E t \in Turns : Backstop(t)
  <2>1. PICK t \in Turns : Backstop(t)
    BY <1>6
  <2> DEFINE n == [stream EXCEPT !.open = @ \ {t}, !.cond = "degraded"]
  <2>2. /\ n \in Streams /\ n.row = stream.row /\ n.pend = stream.pend
        /\ n.active = stream.active /\ n.cond = "degraded" /\ n.gen = stream.gen
        /\ n.acc = stream.acc /\ n.copies = stream.copies /\ n.sent = stream.sent
        /\ n.down = stream.down
    BY <1>1 DEF Streams
  <2>3. stream' = Released(n)
    BY <2>1 DEF Backstop
  <2> HIDE DEF n
  <2>4. /\ stream'.gen = n.gen /\ stream'.acc = n.acc /\ stream'.pend = n.pend
        /\ stream'.copies = n.copies /\ stream'.sent = n.sent
        /\ stream'.active = n.active /\ stream'.cond = n.cond /\ stream'.down = n.down
        /\ \A m \in Msgs : stream'.row[m] = "none" <=> n.row[m] = "none"
    BY <2>2, <2>3 DEF Released, Streams
  <2>5. QED
    BY <1>1, <2>2, <2>4, NetReleased
<1>7. QED
  BY <1>2, <1>3, <1>4, <1>5, <1>6

LEMMA AppendBehind ==
    ASSUME NEW S, NEW s \in Seq(S), NEW t \in Seq(S), NEW x \in S
    PROVE  s \o Append(t, x) = Append(s \o t, x)
<1>1. PICK st, one : st = s \o t /\ one = <<x>>
  OBVIOUS
<1>2. st \in Seq(S) /\ one \in Seq(S)
  BY <1>1, ConcatProperties
<1>3. Append(t, x) = t \o one /\ Append(st, x) = st \o one
  BY <1>1, <1>2, AppendIsConcat
<1>4. s \o (t \o one) = (s \o t) \o one
  BY <1>2, ConcatAssociative
<1>5. QED
  BY <1>1, <1>3, <1>4

(* A copy of a message has come: its receipt is the last one made.         *)
NextReceipt(n, n2, r) ==
    /\ r \in Receipts /\ r[2] = n.copies[r[1]] + 1 /\ n.row[r[1]] # "none"
    /\ n2.copies = [n.copies EXCEPT ![r[1]] = @ + 1]
    /\ n2.row = n.row /\ n2.acc = n.acc /\ n2.gen = n.gen /\ n2.pend = n.pend
    /\ n2.link = n.link /\ n2.cond = n.cond /\ n2.active = n.active /\ n2.sent = n.sent
    /\ ToSet(n2.down) \subseteq ToSet(n.down)

LEMMA MadeNext ==
    ASSUME NEW n \in Streams, NEW n2, NEW r, NextReceipt(n, n2, r)
    PROVE  /\ r \in Receipts /\ r[1] \in Msgs /\ ~Made(n, r) /\ Made(n2, r)
           /\ \A x \in Receipts : /\ Made(n, x) => Made(n2, x)
                                  /\ Made(n, x) /\ Latest(n2, x) =>
                                        Latest(n, x) /\ x[1] # r[1]
                                  /\ Made(n, x) /\ x[1] = r[1] => x[2] < r[2]
<1>1. /\ r \in Receipts /\ r[1] \in Msgs /\ r[2] = n.copies[r[1]] + 1
      /\ n2.copies = [n.copies EXCEPT ![r[1]] = @ + 1]
  BY ReceiptOf DEF NextReceipt
<1>2. n.copies \in [Msgs -> 0 .. MaxCopies] /\ MaxCopies \in Nat
  BY StreamConstantsOK DEF Streams
<1>3. /\ n2.copies[r[1]] = n.copies[r[1]] + 1 /\ n.copies[r[1]] \in Nat
      /\ \A m \in Msgs : m # r[1] => n2.copies[m] = n.copies[m]
  BY <1>1, <1>2
<1>4. ~Made(n, r) /\ Made(n2, r)
  BY <1>1, <1>3 DEF Made
<1>5. ASSUME NEW x \in Receipts, Made(n, x)
      PROVE  /\ Made(n2, x) /\ (Latest(n2, x) => Latest(n, x) /\ x[1] # r[1])
             /\ x[1] = r[1] => x[2] < r[2]
  <2>1. x[1] \in Msgs /\ x[2] \in Nat
    BY <1>2, ReceiptOf
  <2>2. CASE x[1] = r[1]
    <3>1. x[2] <= n.copies[r[1]]
      BY <1>5, <2>2 DEF Made
    <3>2. x[2] <= n2.copies[r[1]] /\ x[2] # n2.copies[r[1]] /\ x[2] < r[2]
      BY <1>1, <1>3, <2>1, <3>1
    <3>3. QED
      BY <2>2, <3>2 DEF Made, Latest
  <2>3. CASE x[1] # r[1]
    BY <1>3, <1>5, <2>1, <2>3 DEF Made, Latest
  <2>4. QED
    BY <2>2, <2>3
<1>6. QED
  BY <1>1, <1>4, <1>5

LEMMA OrderAppended ==
    ASSUME NEW q \in Seq(Receipts), InOrder(q), NEW r \in Receipts,
           \A x \in ToSet(q) : x[1] = r[1] => x[2] < r[2]
    PROVE  InOrder(Append(q, r)) /\ ToSet(Append(q, r)) = ToSet(q) \cup {r}
<1>1. PICK a : a = Append(q, r)
  OBVIOUS
<1>2. /\ Len(q) \in Nat /\ Len(a) = Len(q) + 1 /\ a[Len(q) + 1] = r
      /\ \A i \in 1 .. Len(q) : a[i] = q[i]
  BY <1>1, LenProperties, AppendProperties
<1>3. \A i \in 1 .. Len(q) : q[i] \in ToSet(q)
  BY ElementsOf
<1>4. ASSUME NEW i \in 1 .. Len(a), NEW j \in 1 .. Len(a), i < j, a[i][1] = a[j][1]
      PROVE  a[i][2] < a[j][2]
  <2>1. i \in 1 .. Len(q) /\ (j \in 1 .. Len(q) \/ j = Len(q) + 1)
    BY <1>2, <1>4
  <2>2. CASE j \in 1 .. Len(q)
    BY <1>2, <1>4, <2>1, <2>2 DEF InOrder
  <2>3. CASE j = Len(q) + 1
    BY <1>2, <1>3, <1>4, <2>1, <2>3
  <2>4. QED
    BY <2>1, <2>2, <2>3
<1>5. InOrder(a)
  BY <1>4 DEF InOrder
<1>6. QED
  BY <1>1, <1>5, ElementsOf

LEMMA PlacedNext ==
    ASSUME NEW s \in Seats, NEW q \in Seq(Receipts), NEW n \in Streams, NetSound(n), NEW n2,
           NEW U \in SUBSET Turns, NEW A \in SUBSET Turns, Placed(s, q, n, U, A),
           NEW r, NextReceipt(n, n2, r),
           NEW s2, s2.awaiting = s.awaiting, s2.held = s.held
    PROVE  NetSound(n2) /\ Placed(s2, Append(q, r), n2, U, A)
<1>1. /\ \A x \in ToSet(q) : x \in Receipts
      /\ \A t \in Turns : \A x \in ToSet(s.awaiting[t]) : x \in Receipts
      /\ \A t \in Turns : \A x \in ToSet(s.held[t]) : x \in Receipts
  BY ElementsOf DEF Seats
<1>2. /\ r \in Receipts /\ r[1] \in Msgs /\ ~Made(n, r) /\ Made(n2, r)
      /\ \A x \in Receipts : /\ Made(n, x) => Made(n2, x)
                             /\ Made(n, x) /\ Latest(n2, x) =>
                                   Latest(n, x) /\ x[1] # r[1]
                             /\ Made(n, x) /\ x[1] = r[1] => x[2] < r[2]
  BY MadeNext
<1>3. /\ \A x : Unaccepted(n2, x) <=> Unaccepted(n, x)
      /\ \A x : Lands(n2, x) <=> Lands(n, x)
  BY DEF NextReceipt, Unaccepted, Lands, Leased
<1>4. Unaccepted(n, r)
  BY <1>2 DEF NetSound
<1>5. InOrder(Append(q, r)) /\ ToSet(Append(q, r)) = ToSet(q) \cup {r}
  BY <1>1, <1>2, OrderAppended DEF Placed, Queued
<1>6. PICK a : a = Append(q, r)
  OBVIOUS
<1>7. Queued(a, n2)
  BY <1>1, <1>2, <1>3, <1>4, <1>5, <1>6 DEF Placed, Queued
<1>8. InTurns(s2, n2)
  BY <1>1, <1>2 DEF Placed, InTurns
<1>9. Awaits(s2, a, n2, U, A)
  <2>1. SUFFICES ASSUME NEW t \in U, NEW x \in ToSet(s.awaiting[t]), Latest(n2, x)
                 PROVE  /\ Unaccepted(n2, x) /\ NoCopy(a, x[1])
                        /\ \A t2 \in A : x \notin ToSet(s.held[t2])
                        /\ \A t2 \in U : t2 # t => x \notin ToSet(s.awaiting[t2])
    BY DEF Awaits
  <2>2. t \in Turns /\ x \in Receipts
    BY <1>1
  <2>3. Made(n, x)
    BY <2>2 DEF Placed, InTurns
  <2>4. Latest(n, x) /\ x[1] # r[1]
    BY <1>2, <2>1, <2>2, <2>3
  <2>5. /\ Unaccepted(n, x) /\ NoCopy(q, x[1])
        /\ \A t2 \in A : x \notin ToSet(s.held[t2])
        /\ \A t2 \in U : t2 # t => x \notin ToSet(s.awaiting[t2])
    BY <2>4 DEF Placed, Awaits
  <2>6. QED
    BY <1>3, <1>5, <1>6, <2>4, <2>5 DEF NoCopy
<1>10. Landing(s2, a, n2, A)
  <2>1. SUFFICES ASSUME NEW t \in A, NEW x \in ToSet(s.held[t]), Latest(n2, x)
                 PROVE  Lands(n2, x) /\ NoCopy(a, x[1])
    BY DEF Landing
  <2>2. t \in Turns /\ x \in Receipts
    BY <1>1
  <2>3. Made(n, x)
    BY <2>2 DEF Placed, InTurns
  <2>4. Latest(n, x) /\ x[1] # r[1]
    BY <1>2, <2>1, <2>2, <2>3
  <2>5. Lands(n, x) /\ NoCopy(q, x[1])
    BY <2>4 DEF Placed, Landing
  <2>6. QED
    BY <1>3, <1>5, <1>6, <2>4, <2>5 DEF NoCopy
<1>11. NetSound(n2)
  <2>1. \A m \in Msgs : n2.copies[m] > 0 \/ m \in ToSet(n2.down) => n2.row[m] # "none"
    <3>1. n.copies \in [Msgs -> 0 .. MaxCopies]
      BY DEF Streams
    <3>2. \A m \in Msgs : m # r[1] => n2.copies[m] = n.copies[m]
      BY <1>2, <3>1 DEF NextReceipt
    <3>3. n2.row = n.row /\ n.row[r[1]] # "none" /\ ToSet(n2.down) \subseteq ToSet(n.down)
      BY DEF NextReceipt
    <3>4. QED
      BY <3>2, <3>3 DEF NetSound
  <2>2. \A x \in Receipts : ~Made(n2, x) => ~Made(n, x)
    BY <1>2
  <2>3. QED
    BY <1>3, <2>1, <2>2 DEF NetSound, NextReceipt
<1>12. QED
  BY <1>6, <1>7, <1>8, <1>9, <1>10, <1>11 DEF Placed

(* Turns are told of by the lines that are there.                          *)
LEMMA SameLines ==
    ASSUME out' = out, codex' = codex
    PROVE  Unread' = Unread /\ Alive' = Alive
BY DEF Unread, Alive, StillToRead, Heard

LEMMA NoLines ==
    ASSUME out' = <<>>, codex'.turn = NoTurn
    PROVE  Unread' = {} /\ Alive' = {}
<1>1. \A is : \A t : ~StillToRead(is, t)'
  BY DEF StillToRead
<1>2. QED
  BY <1>1, NoTurnIsNone DEF Unread, Alive, Heard

LEMMA PlacedLinks ==
    ASSUME Typed, LeaseInv, PlacedInv,
           \/ PushMessage \/ LoseLink \/ LoopEnds \/ Subscribe \/ SweepTurn
           \/ StopTurn \/ UNCHANGED vars
    PROVE  PlacedInv'
<1>1. /\ seat' = seat /\ early' = early /\ attached' = attached
      /\ out' = out /\ codex' = codex
      /\ \/ stream' = stream
         \/ Push \/ Lose \/ EndStream \/ Connect(Introduction)
              \/ \E t \in Turns : Backstop(t)
  BY DEF PushMessage, LoseLink, LoopEnds, Subscribe, SweepTurn, StopTurn, seatVars,
         vars, wrapperVars
<1>2. /\ Unread \in SUBSET Turns /\ Alive \in SUBSET Turns
      /\ early \in Seq(Receipts) /\ seat \in Seats /\ stream \in Streams
      /\ PlacedAt(seat, early, stream, Unread, Alive)
  BY PlacedIs
<1>3. PICK U, A, s, q, n, n2 : /\ U = Unread /\ A = Alive /\ s = seat
                               /\ q = Queue(seat, early) /\ n = stream /\ n2 = stream'
  OBVIOUS
<1>4. /\ q \in Seq(Receipts) /\ Placed(s, q, n, U, A) /\ NetSound(n) /\ Flown(s)
      /\ s \in Seats /\ U \in SUBSET Turns /\ A \in SUBSET Turns
  BY <1>2, <1>3, QueueTyped DEF PlacedAt
<1>5. n2 = n \/ NetKept(n, n2)
  BY <1>1, <1>3, <1>4, LinksKeep
<1>6. NetSound(n2) /\ Placed(s, q, n2, U, A)
  BY <1>4, <1>5, PlacedNet DEF NetKept
<1>7. PlacedAt(seat', early', stream', U, A)
  BY <1>1, <1>3, <1>4, <1>6 DEF PlacedAt
<1>8. Unread' = U /\ Alive' = A
  BY <1>1, <1>3, SameLines
<1>9. attached' => early' = <<>>
  BY <1>1 DEF PlacedInv
<1>10. QED
  BY <1>4, <1>7, <1>8, <1>9, PlacedFrom

LEMMA PlacedForward ==
    ASSUME Typed, LeaseInv, PlacedInv, Forward
    PROVE  PlacedInv'
<1>1. /\ Unread \in SUBSET Turns /\ Alive \in SUBSET Turns
      /\ early \in Seq(Receipts) /\ seat \in Seats /\ stream \in Streams
      /\ PlacedAt(seat, early, stream, Unread, Alive)
  BY PlacedIs
<1>2. /\ Head(stream.down) \in Msgs /\ Incoming \in Receipts /\ Taken \in Streams
      /\ stream.down \in Seq(Msgs) /\ stream.down # <<>>
  BY <1>1, IncomingTyped DEF Forward, Streams
<1>3. PICK U, A, s, q, n, n2, r : /\ U = Unread /\ A = Alive /\ s = seat
                                  /\ q = Queue(seat, early) /\ n = stream
                                  /\ n2 = stream' /\ r = Incoming
  OBVIOUS
<1>4. stream' = Taken
  BY DEF Forward, Received, Become, Delivered, Now
<1>5. NextReceipt(n, n2, r)
  <2>1. PICK m, d : m = Head(stream.down) /\ d = Tail(stream.down)
    OBVIOUS
  <2>2. /\ m \in Msgs /\ m \in ToSet(stream.down) /\ ToSet(d) \subseteq ToSet(stream.down)
    <3>1. PICK w : w = stream.down
      OBVIOUS
    <3>2. /\ w \in Seq(Msgs) /\ w # <<>> /\ d \in Seq(Msgs) /\ m = w[1]
          /\ Len(d) = Len(w) - 1 /\ Len(w) \in Nat /\ Len(w) >= 1
          /\ \A i \in 1 .. Len(d) : d[i] = w[i + 1]
      BY <1>2, <2>1, <3>1, HeadTailProperties, LenProperties, EmptySeq
    <3>3. \A i \in 1 .. Len(w) : w[i] \in ToSet(w)
      BY <3>2, ElementsOf
    <3>4. \A x \in ToSet(d) : \E i \in 1 .. Len(d) : x = d[i]
      BY <3>2, ElementsOf
    <3>5. 1 \in 1 .. Len(w) /\ \A i \in 1 .. Len(d) : i + 1 \in 1 .. Len(w)
      BY <3>2
    <3>6. QED
      BY <1>2, <2>1, <3>1, <3>2, <3>3, <3>4, <3>5
  <2>3. stream' = [stream EXCEPT !.down = d, !.copies[m] = @ + 1]
    BY <1>4, <2>1 DEF Taken
  <2>4. r = <<m, stream.copies[m] + 1>>
    BY <1>3, <2>1 DEF Incoming
  <2>5. /\ n2.copies = [n.copies EXCEPT ![m] = @ + 1] /\ n2.down = d
        /\ n2.row = n.row /\ n2.acc = n.acc /\ n2.gen = n.gen /\ n2.pend = n.pend
        /\ n2.link = n.link /\ n2.cond = n.cond /\ n2.active = n.active
        /\ n2.sent = n.sent
    BY <1>1, <1>3, <2>3 DEF Streams
  <2>6. n.row[m] # "none"
    BY <1>1, <1>3, <2>2 DEF PlacedAt, NetSound
  <2>7. r[1] = m /\ r[2] = n.copies[m] + 1 /\ r \in Receipts
    BY <1>2, <1>3, <2>4
  <2>8. QED
    BY <1>3, <2>2, <2>5, <2>6, <2>7 DEF NextReceipt
<1>6. /\ q \in Seq(Receipts) /\ Placed(s, q, n, U, A) /\ NetSound(n) /\ Flown(s)
      /\ s \in Seats /\ U \in SUBSET Turns /\ A \in SUBSET Turns /\ n \in Streams
      /\ r \in Receipts
  BY <1>1, <1>2, <1>3, QueueTyped DEF PlacedAt
<1>7. /\ SameTurns(seat, seat') /\ seat'.flight = seat.flight
      /\ out' = out /\ codex' = codex
  BY ReceivedKeepsTurns
<1>8. NetSound(n2) /\ Placed(seat', Append(q, r), n2, U, A)
  <2>1. PICK s2 : s2 = seat'
    OBVIOUS
  <2>2. s2.awaiting = s.awaiting /\ s2.held = s.held
    BY <1>3, <1>7, <2>1 DEF SameTurns
  <2>3. NetSound(n2) /\ Placed(s2, Append(q, r), n2, U, A)
    BY <1>5, <1>6, <2>2, PlacedNext
  <2>4. QED
    BY <2>1, <2>3
<1>9. Queue(seat', early') = Append(q, r) /\ (attached' => early' = <<>>)
  <2>1. PICK ev, b, e : ev = seat.flight.events /\ b = seat.buffer /\ e = early
    OBVIOUS
  <2>2. /\ ev \in Seq(Receipts) /\ b \in Seq(Receipts) /\ e \in Seq(Receipts)
        /\ b \o e \in Seq(Receipts) /\ q = ev \o (b \o e) /\ seat'.flight.events = ev
    BY <1>1, <1>3, <1>7, <2>1, QueueTyped DEF Queue
  <2>3. attached' = attached /\ (attached => e = <<>>)
    BY <2>1 DEF Forward, PlacedInv
  <2>4. CASE attached
    <3>1. seat' = Delivered([Now EXCEPT !.net = Taken], Incoming).seat /\ early' = early
      BY <2>4 DEF Forward, Received, Become
    <3>2. Delivered([Now EXCEPT !.net = Taken], Incoming).seat.buffer
            = Append(seat.buffer, Incoming)
      BY <1>1 DEF Delivered, Now, Seats
    <3>3. seat'.buffer = Append(b, r) /\ early' = <<>>
      BY <1>3, <2>1, <2>3, <2>4, <3>1, <3>2
    <3>4. Queue(seat', early') = ev \o (Append(b, r) \o <<>>)
      BY <2>2, <3>3 DEF Queue
    <3>5. Append(b, r) \in Seq(Receipts)
      BY <1>6, <2>2, AppendProperties
    <3>6. Append(b, r) \o <<>> = Append(b, r) /\ b \o <<>> = b
      BY <2>2, <3>5, ConcatEmptySeq
    <3>7. ev \o Append(b, r) = Append(ev \o b, r)
      BY <1>6, <2>2, AppendBehind
    <3>8. QED
      BY <2>2, <2>3, <2>4, <3>3, <3>4, <3>6, <3>7
  <2>5. CASE ~attached
    <3>1. early' = Append(e, r) /\ seat' = seat
      BY <1>3, <2>1, <2>5 DEF Forward, Received
    <3>2. Queue(seat', early') = ev \o (b \o Append(e, r))
      BY <2>1, <3>1 DEF Queue
    <3>3. b \o Append(e, r) = Append(b \o e, r)
      BY <1>6, <2>2, AppendBehind
    <3>4. ev \o Append(b \o e, r) = Append(ev \o (b \o e), r)
      BY <1>6, <2>2, AppendBehind
    <3>5. QED
      BY <2>2, <2>3, <2>5, <3>2, <3>3, <3>4
  <2>6. QED
    BY <2>4, <2>5
<1>10. Flown(seat')
  BY <1>3, <1>6, <1>7 DEF Flown
<1>11. PlacedAt(seat', early', stream', U, A)
  BY <1>3, <1>8, <1>9, <1>10 DEF PlacedAt
<1>12. Unread' = U /\ Alive' = A
  BY <1>3, <1>7, SameLines
<1>13. QED
  BY <1>6, <1>9, <1>11, <1>12, PlacedFrom

LEMMA EmptyQueue ==
    ASSUME NEW e \in Seq(Receipts)
    PROVE  \A s : /\ s.flight.events = <<>> /\ s.buffer = <<>> => Queue(s, e) = e
                  /\ s.flight.events = <<>> /\ s.buffer = e => Queue(s, <<>>) = e
<1>1. <<>> \o e = e /\ e \o <<>> = e
  BY ConcatEmptySeq
<1>2. QED
  BY <1>1 DEF Queue

(* A sink without turns.                                                   *)
LEMMA PlacedWithout ==
    ASSUME NEW q, NEW n, Queued(q, n), NEW s,
           \A t \in Turns : s.awaiting[t] = <<>> /\ s.held[t] = <<>>
    PROVE  Placed(s, q, n, {}, {})
BY EmptyHasNone DEF Placed, InTurns, Awaits, Landing

LEMMA NewSeatIs ==
    /\ NewSeat.flight.events = <<>> /\ NewSeat.flight.at = "none" /\ NewSeat.buffer = <<>>
    /\ \A t \in Turns : NewSeat.awaiting[t] = <<>> /\ NewSeat.held[t] = <<>>
BY DEF NewSeat, NoFlight

LEMMA PlacedSpawn ==
    ASSUME Typed, LeaseInv, PlacedInv, Spawn
    PROVE  PlacedInv'
<1>1. /\ Unread \in SUBSET Turns /\ Alive \in SUBSET Turns
      /\ early \in Seq(Receipts) /\ seat \in Seats /\ stream \in Streams
      /\ PlacedAt(seat, early, stream, Unread, Alive)
  BY PlacedIs
<1>2. PICK ev, b, e, n, n2 : /\ ev = seat.flight.events /\ b = seat.buffer /\ e = early
                             /\ n = stream /\ n2 = stream'
  OBVIOUS
<1>3. /\ ev \in Seq(Receipts) /\ b \in Seq(Receipts) /\ e \in Seq(Receipts)
      /\ b \o e \in Seq(Receipts) /\ Queue(seat, early) = ev \o (b \o e)
      /\ n \in Streams /\ NetSound(n)
  BY <1>1, <1>2, QueueTyped DEF Queue, PlacedAt
<1>4. Queued(ev \o (b \o e), n)
  BY <1>1, <1>2, <1>3 DEF PlacedAt, Placed
<1>5. Queued(e, n)
  BY <1>3, <1>4, QueuedParts
<1>6. PICK a : a = Condition("ready")
  OBVIOUS
<1>7. a \in Acts /\ a.do = "condition" /\ (n2 = n \/ n2 = Performed(n, a))
  BY <1>2, <1>6, ActsTyped DEF Condition, Spawn
<1>8. NetSound(n2) /\ Queued(e, n2)
  <2>1. CASE n2 = n
    BY <1>3, <1>5, <2>1
  <2>2. CASE n2 = Performed(n, a)
    <3>1. NetSound(n2)
      BY <1>3, <1>7, <2>2, SoundPerformed
    <3>2. n2.copies = n.copies
      BY <1>3, <1>7, <2>2, PerformedIs
    <3>3. \A r \in Receipts : Unaccepted(n, r) => Unaccepted(n2, r)
      BY <1>3, <1>7, <2>2, UnacceptedPerformed DEF Concerns
    <3>4. ToSet(e) \subseteq Receipts
      BY <1>3, ElementsOf
    <3>5. QED
      BY <1>5, <3>1, <3>2, <3>3, <3>4 DEF Queued, Made, Latest
  <2>3. QED
    BY <1>7, <2>1, <2>2
<1>9. /\ seat' = [NewSeat EXCEPT !.status = "idle", !.buffer = early,
                                 !.timer = early # <<>>]
      /\ early' = <<>> /\ out' = <<>> /\ codex' = NewCodex(codex.used)
  BY DEF Spawn
<1>10. PICK s : s = seat'
  OBVIOUS
<1>11. /\ s.flight = NoFlight /\ s.buffer = e
       /\ \A t \in Turns : s.awaiting[t] = <<>> /\ s.held[t] = <<>>
  BY <1>2, <1>9, <1>10 DEF NewSeat
<1>12. s.flight.events = <<>>
  BY <1>11 DEF NoFlight
<1>13. Queue(s, <<>>) = e
  BY <1>3, <1>11, <1>12, EmptyQueue
<1>14. Placed(s, e, n2, {}, {})
  BY <1>8, <1>11, PlacedWithout
<1>15. PlacedAt(seat', early', stream', {}, {})
  BY <1>2, <1>8, <1>9, <1>10, <1>12, <1>13, <1>14 DEF PlacedAt, Flown
<1>16. Unread' = {} /\ Alive' = {}
  BY <1>9, NoLines DEF NewCodex
<1>17. QED
  BY <1>9, <1>15, <1>16, PlacedFrom

LEMMA PlacedClose ==
    ASSUME Typed, LeaseInv, PlacedInv, Close
    PROVE  PlacedInv'
<1>1. /\ Unread \in SUBSET Turns /\ Alive \in SUBSET Turns
      /\ early \in Seq(Receipts) /\ seat \in Seats /\ stream \in Streams
      /\ Wired(stream) /\ PlacedAt(seat, early, stream, Unread, Alive)
  BY PlacedIs
<1>2. PICK U, A, s, ev, b, e, n, n2 :
          /\ U = Unread /\ A = Alive /\ s = seat
          /\ ev = seat.flight.events /\ b = seat.buffer /\ e = early
          /\ n = stream /\ n2 = stream'
  OBVIOUS
<1>3. /\ ev \in Seq(Receipts) /\ b \in Seq(Receipts) /\ e \in Seq(Receipts)
      /\ b \o e \in Seq(Receipts) /\ Queue(seat, early) = ev \o (b \o e)
      /\ n \in Streams /\ NetSound(n) /\ Wired(n) /\ s \in Seats
      /\ U \in SUBSET Turns /\ A \in SUBSET Turns
  BY <1>1, <1>2, QueueTyped DEF Queue, PlacedAt
<1>4. Placed(s, ev \o (b \o e), n, U, A)
  BY <1>1, <1>2, <1>3 DEF PlacedAt
<1>5. PICK tried \in BOOLEAN :
          stream' = Deferred(Now, ev \o (IF tried THEN b ELSE <<>>)).net
  <2>1. PICK tried \in BOOLEAN :
            tried = (seat.waiting /\ ~(seat.status = "active" /\ seat.turn = NoTurn))
    OBVIOUS
  <2>2. stream' = Deferred(Now, ev \o (IF tried THEN b ELSE <<>>)).net
    BY <1>2, <2>1 DEF Close, Torn, Failing, Now
  <2>3. QED
    BY <2>2
<1>6. PICK failing : failing = ev \o (IF tried THEN b ELSE <<>>)
  OBVIOUS
<1>7. n2 = PerformAll(n, SettleEach(failing, "deferred"))
  BY <1>2, <1>5, <1>6 DEF Deferred, Doing, Now
<1>8. Sound(n, n2) /\ Placed(s, e, n2, U, A)
  <2>1. CASE tried
    <3>1. failing = ev \o b /\ failing \in Seq(Receipts)
      BY <1>3, <1>6, <2>1, ConcatProperties
    <3>2. failing \o e = ev \o (b \o e)
      BY <1>3, <3>1, ConcatAssociative
    <3>3. Placed(s, failing \o e, n, U, A)
      BY <1>4, <3>2
    <3>4. QED
      BY <1>3, <1>7, <3>1, <3>3, PlacedGiven
  <2>2. CASE ~tried
    <3>1. failing = ev
      BY <1>3, <1>6, <2>2, ConcatEmptySeq
    <3>2. PICK rest : rest = b \o e
      OBVIOUS
    <3>3. Sound(n, n2) /\ Placed(s, rest, n2, U, A)
      BY <1>3, <1>4, <1>7, <3>1, <3>2, PlacedGiven
    <3>4. n2 \in Streams
      BY <3>3 DEF Sound
    <3>5. Placed(s, e, n2, U, A)
      BY <1>3, <3>2, <3>3, <3>4, PlacedRest
    <3>6. QED
      BY <3>3, <3>5
  <2>3. QED
    BY <2>1, <2>2
<1>9. Placed(NewSeat, e, n2, {}, {})
  BY <1>8, NewSeatIs, PlacedWithout DEF Placed
<1>10. /\ seat' = NewSeat /\ early' = early /\ attached' = attached
       /\ out' = <<>> /\ codex' = NewCodex(codex.used)
  BY DEF Close, wrapperVars
<1>11. Queue(NewSeat, e) = e
  BY <1>3, NewSeatIs, EmptyQueue
<1>12. PlacedAt(seat', early', stream', {}, {})
  BY <1>2, <1>8, <1>9, <1>10, <1>11, NewSeatIs DEF PlacedAt, Flown, Sound
<1>13. Unread' = {} /\ Alive' = {}
  BY <1>10, NoLines DEF NewCodex
<1>14. attached' => early' = <<>>
  BY <1>10 DEF PlacedInv
<1>15. QED
  BY <1>12, <1>13, <1>14, PlacedFrom

LEMMA PlacedTasks ==
    ASSUME Typed, LeaseInv, PlacedInv, Stop \/ Timer \/ Continue
    PROVE  PlacedInv'
<1>1. /\ Now \in Plans /\ Now.seat = seat /\ Now.net = stream
      /\ Unread \in SUBSET Turns /\ Alive \in SUBSET Turns
      /\ early \in Seq(Receipts) /\ Sits(Now, early, Unread, Alive)
  BY PlacedIs
<1>2. PICK U, A, e, p : U = Unread /\ A = Alive /\ e = early /\ p = Now
  OBVIOUS
<1>3. p \in Plans /\ U \in SUBSET Turns /\ A \in SUBSET Turns /\ e \in Seq(Receipts)
      /\ Sits(p, e, U, A)
  BY <1>1, <1>2
<1>4. PICK q : Become(q) /\ Sits(q, e, U, A)
  <2>1. CASE Stop \/ Timer
    <3>1. Become(Flushed(p))
      BY <1>2, <2>1 DEF Stop, Timer
    <3>2. Sits(Flushed(p), e, U, A)
      BY <1>3, FlushedPlaced
    <3>3. QED
      BY <3>1, <3>2
  <2>2. CASE Continue
    <3>1. Become(Answered(p)) /\ p.seat.flight.at = "answered"
      BY <1>1, <1>2, <2>2 DEF Continue
    <3>2. Sits(Answered(p), e, U, A)
      BY <1>3, <3>1, AnsweredPlaced
    <3>3. QED
      BY <3>1, <3>2
  <2>3. QED
    BY <2>1, <2>2
<1>5. /\ early' = early /\ (attached' => attached)
      /\ out' = out /\ codex' = codex
  BY DEF Stop, Timer, Continue, wrapperVars
<1>6. PlacedAt(seat', early', stream', U, A)
  BY <1>2, <1>4, <1>5 DEF Become, Sits, PlacedAt
<1>7. Unread' = U /\ Alive' = A
  BY <1>2, <1>5, SameLines
<1>8. attached' => early' = <<>>
  BY <1>5 DEF PlacedInv
<1>9. QED
  BY <1>3, <1>6, <1>7, <1>8, PlacedFrom

LEMMA PlacedRead ==
    ASSUME Typed, Typed', OneReply, ReachInv, LeaseInv, LineOrder, PlacedInv, ReadLine
    PROVE  PlacedInv'
<1>1. /\ Now \in Plans /\ Now.seat = seat /\ Now.net = stream
      /\ Unread \in SUBSET Turns /\ Alive \in SUBSET Turns
      /\ early \in Seq(Receipts) /\ Sits(Now, early, Unread, Alive)
  BY PlacedIs
<1>2. /\ out # <<>> /\ out' = Tail(out) /\ codex' = codex
      /\ Head(out) \in Lines /\ Head(out) = out[1] /\ 1 \in 1 .. Len(out)
      /\ seat' = Handled(Now, Head(out)).seat
      /\ stream' = Handled(Now, Head(out)).net
      /\ \A i \in 1 .. Len(out') : i + 1 \in 1 .. Len(out) /\ out'[i] = out[i + 1]
  BY ReadsOn
<1>3. PICK U, A, e, p, l : U = Unread /\ A = Alive /\ e = early /\ p = Now /\ l = Head(out)
  OBVIOUS
<1>4. /\ p \in Plans /\ U \in SUBSET Turns /\ A \in SUBSET Turns /\ e \in Seq(Receipts)
      /\ Sits(p, e, U, A) /\ l \in Lines
  BY <1>1, <1>2, <1>3
<1>5. /\ l.is = "started" =>
            /\ l.turn \in Turns /\ StillToRead("started", l.turn)
            /\ \A u \in Turns : Heard(u) => seat.held[u] = <<>>
      /\ l.is = "completed" \/ (l.is = "acted" /\ seat.held[l.turn] # <<>>) =>
            /\ l.turn \in Turns /\ Heard(l.turn)
            /\ \A u \in Turns : Heard(u) /\ u # l.turn => seat.held[u] = <<>>
  <2>1. TurnsAreFollowed /\ TurnsStartEmpty
    BY DEF ReachInv, LeaseInv
  <2>2. l.is = "started" => l.turn \in Turns
    BY <1>4, HandledIs
  <2>3. l.is = "started" => StillToRead("started", l.turn)
    BY <1>2, <1>3, StillReadIs
  <2>4. QED
    BY <1>2, <1>3, <2>1, <2>2, <2>3, FirstFinds
<1>6. /\ l.is = "started" => l.turn \in U /\ \A u \in A : p.seat.held[u] = <<>>
      /\ l.is = "completed" => OnlyIn(p.seat, l.turn, A)
      /\ l.is = "acted" => p.seat.held[l.turn] = <<>> \/ OnlyIn(p.seat, l.turn, A)
  <2>1. p.seat = seat /\ U = {t \in Turns : StillToRead("started", t)}
        /\ A = {t \in Turns : Heard(t)}
    BY <1>1, <1>3 DEF Unread, Alive
  <2>2. QED
    BY <1>5, <2>1 DEF OnlyIn
<1>7. PICK V : V = IF l.is = "started" THEN U \ {l.turn} ELSE U
  OBVIOUS
<1>8. Sits(Handled(p, l), e, V, A) /\ V \in SUBSET Turns
  BY <1>4, <1>6, <1>7, HandledPlaced DEF HandledPlaces
<1>9. early' = early /\ attached' = attached
  BY DEF ReadLine, wrapperVars
<1>10. PlacedAt(seat', early', stream', V, A)
  BY <1>2, <1>3, <1>8, <1>9 DEF Sits, PlacedAt
<1>11. Unread' \subseteq V /\ Alive' \subseteq A
  <2>1. \A is : \A t : StillToRead(is, t)' => StillToRead(is, t)
    BY <1>2, StillReadIs, StillReadNext
  <2>2. Alive' \subseteq A
    BY <1>2, <1>3, <2>1 DEF Alive, Heard
  <2>3. l.is = "started" => ~StillToRead("started", l.turn)'
    <3>1. SUFFICES ASSUME l.is = "started", StillToRead("started", l.turn)' PROVE FALSE
      OBVIOUS
    <3>2. PICK t : t = l.turn
      OBVIOUS
    <3>3. PICK i \in 1 .. Len(out') : out'[i].is = "started" /\ out'[i].turn = t
      BY <3>1, <3>2, StillReadNext
    <3>4. PICK j \in 1 .. Len(out) : j = i + 1 /\ out[j].is = "started" /\ out[j].turn = t
      BY <1>2, <3>3
    <3>5. j = 1
      BY <1>2, <1>3, <3>1, <3>2, <3>4 DEF LeaseInv, StartsOnce
    <3>6. QED
      BY <3>4, <3>5
  <2>4. QED
    BY <1>3, <1>7, <2>1, <2>2, <2>3 DEF Unread
<1>12. attached' => early' = <<>>
  BY <1>9 DEF PlacedInv
<1>13. QED
  BY <1>4, <1>8, <1>10, <1>11, <1>12, PlacedFrom

LEMMA PlacedWritten ==
    ASSUME Typed, Typed', LeaseInv, LineOrder, PlacedInv, NEW l, Wrote(l), Orderly(l),
           seat' = seat \/ seat' = [seat EXCEPT !.flight.at = "served"],
           stream' = stream, early' = early, attached' = attached
    PROVE  PlacedInv'
<1>1. /\ Unread \in SUBSET Turns /\ Alive \in SUBSET Turns
      /\ early \in Seq(Receipts) /\ seat \in Seats /\ stream \in Streams
      /\ PlacedAt(seat, early, stream, Unread, Alive)
  BY PlacedIs
<1>2. /\ seat'.awaiting = seat.awaiting /\ seat'.held = seat.held
      /\ seat'.buffer = seat.buffer /\ seat'.flight.events = seat.flight.events
      /\ seat'.flight.at = seat.flight.at \/ seat'.flight.at # "none"
  BY <1>1 DEF Seats, Flights
<1>3. PICK U, A, s, s2, q, n : /\ U = Unread /\ A = Alive /\ s = seat /\ s2 = seat'
                               /\ q = Queue(seat, early) /\ n = stream
  OBVIOUS
<1>4. /\ Placed(s, q, n, U, A) /\ NetSound(n) /\ Flown(s)
      /\ U \in SUBSET Turns /\ A \in SUBSET Turns
  BY <1>1, <1>3 DEF PlacedAt
<1>5. Placed(s2, q, n, U, A)
  BY <1>2, <1>3, <1>4, PlacedSame
<1>6. Queue(s2, early) = q /\ Flown(s2)
  BY <1>2, <1>3, <1>4 DEF Queue, Flown
<1>7. PlacedAt(seat', early', stream', U, A)
  BY <1>3, <1>4, <1>5, <1>6 DEF PlacedAt
<1>8. \A t \in Turns : NewTurn(t)' => NewTurn(t)
  BY WrittenTurns
<1>9. \A t \in Turns : NewTurn(t) => seat.held[t] = <<>>
  BY DEF LeaseInv, TurnsStartEmpty, Untouched
<1>10. \A t \in Turns : t > codex.used => seat.awaiting[t] = <<>>
  BY DEF LineOrder, TurnsAreNamed
<1>11. \A t \in Unread' : t \in U \/ seat'.awaiting[t] = <<>>
  <2>1. ASSUME NEW t \in Turns, StillToRead("started", t)'
        PROVE  StillToRead("started", t) \/ seat.awaiting[t] = <<>>
    BY <1>8, <1>10, <2>1 DEF NewTurn
  <2>2. QED
    BY <1>2, <1>3, <2>1 DEF Unread
<1>12. \A t \in Alive' : t \in A \/ seat'.held[t] = <<>>
  <2>1. ASSUME NEW t \in Turns, Heard(t)'
        PROVE  Heard(t) \/ seat.held[t] = <<>>
    <3>1. Heard(t) \/ StillToRead("started", t)'
      BY <2>1, WrittenTurns
    <3>2. StillToRead("started", t)' => NewTurn(t)
      BY <1>8 DEF NewTurn
    <3>3. QED
      BY <1>9, <3>1, <3>2
  <2>2. QED
    BY <1>2, <1>3, <2>1 DEF Alive
<1>13. attached' => early' = <<>>
  BY DEF PlacedInv
<1>14. QED
  BY <1>4, <1>7, <1>11, <1>12, <1>13, PlacedFrom

LEMMA PlacedStep ==
    ASSUME Typed, Typed', OneReply, ReachInv, HonestInv, LeaseInv, LandInv, [Next]_vars
    PROVE  PlacedInv'
<1>1. LineOrder /\ PlacedInv /\ EndsOnce
  BY DEF LandInv, HonestInv
<1>2. CASE StartTurn \/ Steer \/ RefuseSteer \/ RefuseRequest
  <2>1. PICK l : Wrote(l) /\ Orderly(l)
    BY <1>1, <1>2, ServedOrderly
  <2>2. /\ seat' = [seat EXCEPT !.flight.at = "served"]
        /\ stream' = stream /\ early' = early /\ attached' = attached
    BY <1>2 DEF StartTurn, Steer, RefuseSteer, RefuseRequest, Serve, wrapperVars
  <2>3. QED
    BY <1>1, <2>1, <2>2, PlacedWritten
<1>3. CASE EndTurn \/ FailTurn \/ Interrupt \/ UseTool \/ ReportError \/ Recover
  <2>1. PICK l : Wrote(l) /\ Orderly(l)
    BY <1>3, ToldOrderly
  <2>2. seat' = seat /\ stream' = stream /\ early' = early /\ attached' = attached
    BY <1>3 DEF EndTurn, FailTurn, Interrupt, UseTool, ReportError, Recover, wrapperVars
  <2>3. QED
    BY <1>1, <2>1, <2>2, PlacedWritten
<1>4. QED
  BY <1>1, <1>2, <1>3, PlacedLinks, PlacedForward, PlacedSpawn, PlacedClose,
     PlacedTasks, PlacedRead DEF Next

LEMMA LandStep ==
    ASSUME Typed, Typed', OneReply, ReachInv, HonestInv, LeaseInv, LandInv, [Next]_vars
    PROVE  LandInv'
<1>1. LineOrder'
  BY OrderStep DEF LandInv
<1>2. QED
  BY <1>1, PlacedStep DEF LandInv

LEMMA LandInit == Init => LandInv
<1> SUFFICES ASSUME Init PROVE LandInv
  OBVIOUS
<1>1. Typed /\ LineOrder
  BY TypedInit, OrderInit
<1>2. PICK n, s : n = stream /\ s = seat
  OBVIOUS
<1>3. /\ n \in Streams /\ s \in Seats /\ s = NewSeat /\ early = <<>> /\ ~attached
  BY <1>1, <1>2 DEF Typed, Init
<1>4. /\ n.active = FALSE /\ n.gen = 0 /\ n.pend = <<>>
      /\ n.acc = [r \in Receipts |-> 0] /\ n.copies = [m \in Msgs |-> 0]
      /\ n.down = <<>> /\ n.row = [m \in Msgs |-> "none"]
  BY <1>2 DEF Init, StreamInit
<1>5. Len(n.pend) = 0 /\ ToSet(n.down) = {}
  BY <1>4, EmptyHasNone
<1>6. \A r \in Receipts : Unaccepted(n, r)
  BY <1>4, <1>5 DEF Unaccepted
<1>7. NetSound(n)
  BY <1>4, <1>5, <1>6 DEF NetSound
<1>8. <<>> \in Seq(Receipts) /\ Len(<<>>) = 0
  OBVIOUS
<1>9. Queue(s, <<>>) = <<>>
  BY <1>3, <1>8, NewSeatIs, EmptyQueue
<1>10. Queued(<<>>, n)
  BY <1>8, EmptyHasNone DEF Queued, InOrder
<1>11. Placed(s, <<>>, n, {}, {})
  BY <1>3, <1>10, NewSeatIs, PlacedWithout
<1>12. Unread = {} /\ Alive = {}
  <2>1. out = <<>> /\ codex.turn = NoTurn
    BY DEF Init, NewCodex
  <2>2. QED
    BY <2>1, NoTurnIsNone DEF Unread, Alive, Heard, StillToRead
<1>13. Flown(s)
  BY <1>3, NewSeatIs DEF Flown
<1>14. PlacedInv
  BY <1>2, <1>3, <1>7, <1>9, <1>11, <1>12, <1>13 DEF PlacedInv
<1>15. QED
  BY <1>1, <1>14 DEF LandInv

(* Only the reader takes a line off the app-server's output.               *)
LEMMA EndIsReadBy ==
    ASSUME Typed, Typed', OneReply, DueInv, HonestInv, LandInv, [Next]_vars,
           out # <<>>, out' = Tail(out), stage' # "off"
    PROVE  ReadLine
<1>1. LineOrder /\ EndsOnce /\ out \in Seq(Lines)
  BY DEF LandInv, HonestInv, Typed
<1>2. Len(out') = Len(out) - 1 /\ Len(out) \in Nat
  <2>1. Len(Tail(out)) = Len(out) - 1 /\ Len(out) \in Nat
    BY <1>1, TailOf
  <2>2. QED
    BY <2>1
<1>3. out' # out
  <2>1. PICK n, o : n = Len(out) /\ o = out'
    OBVIOUS
  <2>2. Len(o) = n - 1 /\ n \in Nat
    BY <1>2, <2>1
  <2>3. n - 1 # n
    BY <2>2
  <2>4. QED
    BY <2>1, <2>2, <2>3
<1>4. \A l : ~Wrote(l)
  <2> SUFFICES ASSUME NEW l, Wrote(l) PROVE FALSE
    OBVIOUS
  <2>1. l \in Seq(Lines) /\ out' = out \o l
    BY DEF Wrote
  <2>2. Len(out') = Len(out) + Len(l) /\ Len(l) \in Nat
    BY <1>1, <2>1
  <2>3. QED
    BY <1>2, <2>2
<1>5. ~(StartTurn \/ Steer \/ RefuseSteer \/ RefuseRequest)
  BY <1>1, <1>4, ServedOrderly
<1>6. ~(EndTurn \/ FailTurn \/ Interrupt \/ UseTool \/ ReportError \/ Recover)
  BY <1>4, ToldOrderly
<1>7. ~(PushMessage \/ LoseLink \/ LoopEnds \/ Subscribe \/ SweepTurn \/ StopTurn)
  BY <1>3 DEF PushMessage, LoseLink, LoopEnds, Subscribe, SweepTurn, StopTurn, seatVars
<1>8. ~(Forward \/ Stop \/ Continue \/ Timer)
  BY <1>3 DEF Forward, Stop, Continue, Timer
<1>9. ~Spawn /\ ~Close
  BY DEF Spawn, Close, DueInv, StagesInv
<1>10. ~UNCHANGED vars
  BY <1>3 DEF vars
<1>11. QED
  BY <1>5, <1>6, <1>7, <1>8, <1>9, <1>10 DEF Next

LEMMA EndSettles ==
    ASSUME Typed, Typed', OneReply, LeaseInv, LandInv, ReadLine,
           NEW t \in Turns, NEW how \in {"completed", "interrupted"},
           Head(out) = Completed(t, how),
           stream.link = "up", stream.cond # "degraded",
           NEW r \in LastCopies(seat.held[t])
    PROVE  stream'.row[r[1]] \in Outcomes
<1>1. /\ Now \in Plans /\ Now.seat = seat /\ Now.net = stream
      /\ seat \in Seats /\ stream \in Streams /\ Wired(stream)
      /\ PlacedAt(seat, early, stream, Unread, Alive)
  BY PlacedIs DEF LandInv
<1>2. /\ Head(out) \in Lines /\ Head(out) = out[1] /\ 1 \in 1 .. Len(out)
      /\ stream' = Handled(Now, Head(out)).net
  BY ReadsOn
<1>3. /\ Head(out).is = "completed" /\ Head(out).turn = t /\ Head(out).says = how
  BY DEF Completed, Line
<1>4. stream' = OnCompleted(Now, t, how).net
  BY <1>2, <1>3, HandledIs
<1>5. PICK acts : acts = CompletedActs(seat, t, how)
  OBVIOUS
<1>6. stream' = PerformAll(stream, acts) /\ acts \in Seq(Acts)
  BY <1>1, <1>4, <1>5, OnCompletedIs
<1>7. EndsAs(ToSet(seat.held[t]), acts, "completed", "handled")
  <2>1. how # "failed"
    OBVIOUS
  <2>2. QED
    BY <1>1, <1>5, <2>1, CompletedAre
<1>8. /\ NetSound(stream) /\ InTurns(seat, stream)
      /\ Landing(seat, Queue(seat, early), stream, Alive)
  BY <1>1 DEF PlacedAt, Placed
<1>9. r \in ToSet(seat.held[t]) /\ Latest(stream, r) /\ r \in Receipts
  <2>1. seat.held[t] \in Seq(Receipts)
    BY <1>1 DEF Seats
  <2>2. QED
    BY <2>1, ElementsOf DEF LastCopies, Latest
<1>10. \A x \in ToSet(seat.held[t]) : Made(stream, x)
  BY <1>8 DEF InTurns
<1>11. MadeActs(stream, acts)
  <2> SUFFICES ASSUME NEW i \in 1 .. Len(acts), acts[i].do \in {"accept", "settle"}
               PROVE  Made(stream, acts[i].of)
    BY DEF MadeActs
  <2>1. acts[i].of \in ToSet(seat.held[t])
    BY <1>7 DEF EndsAs
  <2>2. QED
    BY <1>10, <2>1
<1>12. t \in Alive
  <2>1. StillToRead("completed", t)
    BY <1>2, <1>3 DEF StillToRead
  <2>2. QED
    BY <2>1 DEF Alive, Heard
<1>13. Leased(stream, r)
  <2>1. Lands(stream, r)
    BY <1>8, <1>9, <1>12 DEF Landing
  <2>2. QED
    BY <2>1 DEF Lands
<1>14. PICK k \in 1 .. Len(acts) : acts[k].do = "settle" /\ acts[k].of = r
  BY <1>7, <1>9 DEF EndsAs
<1>15. \A i \in 1 .. Len(acts) :
           \/ acts[i].do = "turn" /\ acts[i].is # "failed"
           \/ acts[i].do = "settle" /\ acts[i].as \in Outcomes
  <2>1. "handled" \in Outcomes
    BY DEF Outcomes
  <2>2. QED
    BY <1>7, <2>1 DEF EndsAs
<1>16. Made(stream, r)
  BY <1>9, <1>10
<1>17. PerformAll(stream, acts).row[r[1]] \in Outcomes
  BY <1>1, <1>6, <1>8, <1>9, <1>11, <1>13, <1>14, <1>15, <1>16, AllSettle
<1>18. QED
  BY <1>6, <1>17

(* What is settled on a live stream is settled at the broker. When the end *)
(* of a turn is read while the stream is up and the runner is not held for *)
(* degraded, each receipt of the turn that is the last copy of its message *)
(* leaves the message decided: no reconnect, renewed lease, steer, tool    *)
(* call or delayed act in between has given the lease to nobody.           *)
THEOREM SettlementsAlwaysLand == Spec => SettlementsLand
<1> DEFINE Inv == /\ Typed /\ OneReply /\ DueInv /\ ReachInv
                  /\ HonestInv /\ LeaseInv /\ LandInv
           Reported == \A t \in Turns, how \in {"completed", "interrupted"} :
                      EndIsRead(t, how) /\ stream.link = "up" /\ stream.cond # "degraded"
                      => \A r \in LastCopies(seat.held[t]) : stream'.row[r[1]] \in Outcomes
<1>1. Init => Inv
  BY TypedInit, DueInit, ReachInit, HonestInit, LeaseInit, LandInit
<1>2. Inv /\ [Next]_vars => Inv'
  BY TypedStep, OneReplyStep, DueStep, ReachStep, HonestStep, LeaseStep, LandStep
<1>3. Inv /\ Inv' /\ [Next]_vars => Reported
  <2> SUFFICES ASSUME Inv, Inv', [Next]_vars,
                      NEW t \in Turns, NEW how \in {"completed", "interrupted"},
                      EndIsRead(t, how), stream.link = "up", stream.cond # "degraded",
                      NEW r \in LastCopies(seat.held[t])
               PROVE  stream'.row[r[1]] \in Outcomes
    OBVIOUS
  <2>1. /\ out # <<>> /\ Head(out) = Completed(t, how) /\ out' = Tail(out)
        /\ stage' # "off"
    BY DEF EndIsRead
  <2>2. ReadLine
    BY <2>1, EndIsReadBy
  <2>3. QED
    BY <2>1, <2>2, EndSettles
<1>4. Inv /\ Inv' /\ [Next]_vars => [Reported]_vars
  BY <1>3
<1>5. QED
  BY <1>1, <1>2, <1>4, PTL DEF Spec, SettlementsLand
===============================================================================
