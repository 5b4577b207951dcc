---------------------------- MODULE CodexSeatProofs ----------------------------
(***************************************************************************)
(* Proofs about CodexSeat, for any number of messages, copies, turns,      *)
(* connections, failures and agents.                                       *)
(***************************************************************************)
EXTENDS CodexSeat, SequenceTheorems, WellFoundedInduction, TLAPS

-----------------------------------------------------------------------------
(* Sequences, and acts performed one after the other. The prover has no    *)
(* induction, but it has the least element of a set of numbers.            *)

(* What is true of zero, and of a number if of the one before it.          *)
LEMMA Climbs ==
    ASSUME NEW good, 0 \in good, \A n \in Nat : n \in good => n + 1 \in good
    PROVE  Nat \subseteq good
<1> DEFINE bad == {n \in Nat : n \notin good}
<1>1. SUFFICES ASSUME bad # {} PROVE FALSE
  OBVIOUS
<1>2. PICK n \in bad : \A m \in bad : ~ (<<m, n>> \in OpToRel(<, Nat))
  BY <1>1, NatLessThanWellFounded, WFMin
<1>3. n \in Nat /\ n # 0
  OBVIOUS
<1>4. n - 1 \in Nat /\ n - 1 < n /\ n = (n - 1) + 1
  BY <1>3
<1>5. <<n - 1, n>> \in OpToRel(<, Nat)
  BY <1>3, <1>4 DEF OpToRel
<1>6. n - 1 \in good
  BY <1>2, <1>4, <1>5
<1>7. QED
  BY <1>3, <1>4, <1>6

(* f takes n through the first k of the acts.                              *)
Through(n, acts, f, k) ==
    f = [i \in 0 .. k |-> IF i = 0 THEN n ELSE Performed(f[i - 1], acts[i])]

LEMMA ThroughExists ==
    ASSUME NEW n, NEW acts
    PROVE  \A k \in Nat : \E f : Through(n, acts, f, k)
<1> DEFINE good == {k \in Nat : \E f : Through(n, acts, f, k)}
<1>1. 0 \in good
  <2>1. Through(n, acts, [i \in 0 .. 0 |-> n], 0)
    BY DEF Through
  <2>2. QED
    BY <2>1
<1>2. ASSUME NEW k \in Nat, k \in good PROVE k + 1 \in good
  <2>1. PICK f : Through(n, acts, f, k)
    BY <1>2
  <2> DEFINE g == [i \in 0 .. k + 1 |->
                      IF i = k + 1 THEN Performed(f[k], acts[k + 1]) ELSE f[i]]
  <2>2. \A i \in 0 .. k : g[i] = f[i]
    OBVIOUS
  <2>3. \A i \in 0 .. k + 1 :
            g[i] = IF i = 0 THEN n ELSE Performed(g[i - 1], acts[i])
    <3>1. TAKE i \in 0 .. k + 1
    <3>2. CASE i = k + 1
      <4>1. g[k] = f[k] /\ (k + 1) - 1 = k /\ k + 1 # 0
        BY <2>2
      <4>2. g[k + 1] = Performed(f[k], acts[k + 1])
        OBVIOUS
      <4>3. QED
        BY <4>1, <4>2, <3>2, Zenon
    <3>3. CASE i \in 1 .. k
      <4>1. i - 1 \in 0 .. k /\ i \in 0 .. k /\ i # 0
        BY <3>3
      <4>2. g[i] = f[i] /\ g[i - 1] = f[i - 1]
        BY <2>2, <4>1, Zenon
      <4>3. f[i] = Performed(f[i - 1], acts[i])
        BY <2>1, <4>1 DEF Through
      <4>4. QED
        BY <4>1, <4>2, <4>3, Zenon
    <3>4. CASE i = 0
      <4>1. f[0] = n /\ g[0] = f[0]
        BY <2>1, <2>2 DEF Through
      <4>2. QED
        BY <4>1, <3>4, Zenon
    <3>5. QED
      BY <3>2, <3>3, <3>4
  <2>4. Through(n, acts, g, k + 1)
    <3>1. g = [i \in 0 .. k + 1 |-> g[i]]
      OBVIOUS
    <3> HIDE DEF g
    <3>2. QED
      BY <2>3, <3>1 DEF Through
  <2>5. QED
    BY <2>4
<1>3. Nat \subseteq good
  <2> HIDE DEF good
  <2>1. QED
    BY <1>1, <1>2, Climbs
<1>4. QED
  BY <1>3

(* What each act takes from one stage to the next, all of them take from   *)
(* the first stage to the last.                                            *)
LEMMA PerformsThrough ==
    ASSUME NEW n, NEW acts, Len(acts) \in Nat, NEW good, n \in good[0],
           \A i \in 1 .. Len(acts) : \A x \in good[i - 1] :
               Performed(x, acts[i]) \in good[i]
    PROVE  PerformAll(n, acts) \in good[Len(acts)]
<1> DEFINE f == CHOOSE f : Through(n, acts, f, Len(acts))
<1>1. Through(n, acts, f, Len(acts))
  BY ThroughExists, Zenon
<1>2. PerformAll(n, acts) = f[Len(acts)]
  BY DEF PerformAll, Through
<1> HIDE DEF f
<1> DEFINE kept == {k \in Nat : k <= Len(acts) => f[k] \in good[k]}
<1>3. 0 \in kept
  BY <1>1 DEF Through
<1>4. ASSUME NEW k \in Nat, k \in kept PROVE k + 1 \in kept
  <2>1. SUFFICES ASSUME k + 1 <= Len(acts) PROVE f[k + 1] \in good[k + 1]
    OBVIOUS
  <2>2. /\ k + 1 \in 0 .. Len(acts) /\ k + 1 # 0
        /\ (k + 1) - 1 = k /\ k + 1 \in 1 .. Len(acts) /\ k <= Len(acts)
    BY <2>1
  <2>3. f[k + 1] = Performed(f[(k + 1) - 1], acts[k + 1])
    BY <1>1, <2>2 DEF Through
  <2>4. f[k] \in good[k]
    BY <1>4, <2>2
  <2> DEFINE j == k + 1
  <2>5. j \in 1 .. Len(acts) /\ j - 1 = k /\ f[j] = Performed(f[j - 1], acts[j])
    BY <2>2, <2>3
  <2> HIDE DEF j
  <2>6. f[j] \in good[j]
    BY <2>4, <2>5
  <2>7. QED
    BY <2>6 DEF j
<1>5. Nat \subseteq kept
  <2> HIDE DEF kept
  <2>1. QED
    BY <1>3, <1>4, Climbs
<1>6. QED
  BY <1>2, <1>5

LEMMA Performs ==
    ASSUME NEW n, NEW acts, Len(acts) \in Nat, NEW good, n \in good,
           \A i \in 1 .. Len(acts) : \A x \in good : Performed(x, acts[i]) \in good
    PROVE  PerformAll(n, acts) \in good
<1> DEFINE all == [i \in 0 .. Len(acts) |-> good]
<1>1. \A i \in 0 .. Len(acts) : all[i] = good
  OBVIOUS
<1>2. n \in all[0] /\ Len(acts) \in 0 .. Len(acts)
  BY <1>1
<1>3. \A i \in 1 .. Len(acts) : i \in 0 .. Len(acts) /\ i - 1 \in 0 .. Len(acts)
  OBVIOUS
<1> HIDE DEF all
<1>4. \A i \in 1 .. Len(acts) : \A x \in all[i - 1] : Performed(x, acts[i]) \in all[i]
  BY <1>1, <1>3
<1>5. PerformAll(n, acts) \in all[Len(acts)]
  BY <1>2, <1>4, PerformsThrough
<1>6. QED
  BY <1>1, <1>2, <1>5

(* The elements of a sequence.                                             *)
LEMMA ElementsOf ==
    ASSUME NEW S, NEW s \in Seq(S)
    PROVE  /\ ToSet(s) \subseteq S
           /\ ToSet(<<>>) = {}
           /\ \A i \in 1 .. Len(s) : s[i] \in ToSet(s)
           /\ \A x \in ToSet(s) : \E i \in 1 .. Len(s) : x = s[i]
           /\ \A t \in Seq(S) : ToSet(s \o t) = ToSet(s) \cup ToSet(t)
           /\ \A e \in S : ToSet(Append(s, e)) = ToSet(s) \cup {e}
<1>1. \A q : ToSet(q) = Range(q)
  BY DEF ToSet, Range
<1>2. <<>> \in Seq(S) /\ \A e \in S : <<e>> \in Seq(S)
  OBVIOUS
<1>3. ToSet(s) \subseteq S
  BY <1>1, RangeOfSeq
<1>4. ToSet(<<>>) = {} /\ \A e \in S : ToSet(<<e>>) = {e}
  <2>1. Range(<<>>) = {<<>>[i] : i \in 1 .. Len(<<>>)}
    BY <1>2, RangeEquality
  <2>2. ASSUME NEW e \in S PROVE ToSet(<<e>>) = {e}
    <3>1. Range(<<e>>) = {<<e>>[i] : i \in 1 .. Len(<<e>>)}
      BY <1>2, RangeEquality
    <3>2. QED
      BY <1>1, <3>1
  <2>3. QED
    BY <1>1, <2>1, <2>2
<1>5. \A u \in Seq(S) : ToSet(s \o u) = ToSet(s) \cup ToSet(u)
  <2>1. TAKE u \in Seq(S)
  <2>2. /\ s \o u \in Seq(S) /\ Len(s) \in Nat /\ Len(u) \in Nat
        /\ Len(s \o u) = Len(s) + Len(u)
        /\ \A i \in 1 .. Len(s) + Len(u) :
               (s \o u)[i] = IF i <= Len(s) THEN s[i] ELSE u[i - Len(s)]
    BY ConcatProperties, LenProperties
  <2>3. /\ ToSet(s \o u) = {(s \o u)[i] : i \in 1 .. Len(s) + Len(u)}
        /\ ToSet(s) = {s[i] : i \in 1 .. Len(s)}
        /\ ToSet(u) = {u[i] : i \in 1 .. Len(u)}
    BY <1>1, <2>2, RangeEquality
  <2>4. ASSUME NEW x \in ToSet(s \o u) PROVE x \in ToSet(s) \cup ToSet(u)
    <3>1. PICK i \in 1 .. Len(s) + Len(u) : x = (s \o u)[i]
      BY <2>3, <2>4
    <3>2. CASE i <= Len(s)
      BY <2>2, <2>3, <3>1, <3>2
    <3>3. CASE ~(i <= Len(s))
      <4>1. i - Len(s) \in 1 .. Len(u) /\ x = u[i - Len(s)]
        BY <2>2, <3>1, <3>3
      <4>2. QED
        BY <2>3, <4>1
    <3>4. QED
      BY <3>2, <3>3
  <2>5. ASSUME NEW x \in ToSet(s) PROVE x \in ToSet(s \o u)
    <3>1. PICK i \in 1 .. Len(s) : x = s[i]
      BY <2>3, <2>5
    <3>2. i \in 1 .. Len(s) + Len(u) /\ x = (s \o u)[i]
      BY <2>2, <3>1
    <3>3. QED
      BY <2>3, <3>2
  <2>6. ASSUME NEW x \in ToSet(u) PROVE x \in ToSet(s \o u)
    <3>1. PICK i \in 1 .. Len(u) : x = u[i]
      BY <2>3, <2>6
    <3> DEFINE j == i + Len(s)
    <3>2. j \in 1 .. Len(s) + Len(u) /\ ~(j <= Len(s)) /\ j - Len(s) = i
      BY <2>2, <3>1
    <3> HIDE DEF j
    <3>3. x = (s \o u)[j]
      BY <2>2, <3>1, <3>2
    <3>4. QED
      BY <2>3, <3>2, <3>3
  <2>7. QED
    BY <2>4, <2>5, <2>6
<1>6. \A e \in S : Append(s, e) = s \o <<e>>
  BY AppendIsConcat
<1>7. ToSet(s) = {s[i] : i \in 1 .. Len(s)}
  BY <1>1, RangeEquality
<1>9. \A e \in S : ToSet(Append(s, e)) = ToSet(s) \cup {e}
  BY <1>2, <1>4, <1>5, <1>6, Zenon
<1>10. /\ \A i \in 1 .. Len(s) : s[i] \in ToSet(s)
       /\ \A x \in ToSet(s) : \E i \in 1 .. Len(s) : x = s[i]
  BY <1>7
<1>11. QED
  BY <1>3, <1>4, <1>5, <1>9, <1>10, Zenon

(* Excluding keeps to the set its sequence is over.                        *)
Filters(s, gone, f, k) ==
    f = [i \in 0 .. k |-> IF i = 0 THEN <<>>
                          ELSE IF s[i] \in gone THEN f[i - 1]
                          ELSE Append(f[i - 1], s[i])]

LEMMA ExcludingKeeps ==
    ASSUME NEW S, NEW s \in Seq(S), NEW gone
    PROVE  Excluding(s, gone) \in Seq(S \ gone)
<1> DEFINE have == {k \in Nat : \E f : Filters(s, gone, f, k)}
<1>1. 0 \in have
  <2>1. Filters(s, gone, [i \in 0 .. 0 |-> <<>>], 0)
    BY DEF Filters
  <2>2. QED
    BY <2>1
<1>2. ASSUME NEW k \in Nat, k \in have PROVE k + 1 \in have
  <2>1. PICK f : Filters(s, gone, f, k)
    BY <1>2
  <2> DEFINE g == [i \in 0 .. k + 1 |->
                      IF i = k + 1
                      THEN IF s[k + 1] \in gone THEN f[k] ELSE Append(f[k], s[k + 1])
                      ELSE f[i]]
  <2>2. \A i \in 0 .. k : g[i] = f[i]
    OBVIOUS
  <2>3. \A i \in 0 .. k + 1 : g[i] = IF i = 0 THEN <<>>
            ELSE IF s[i] \in gone THEN g[i - 1]
            ELSE Append(g[i - 1], s[i])
    <3>1. TAKE i \in 0 .. k + 1
    <3>2. CASE i = k + 1
      <4>1. g[k] = f[k] /\ (k + 1) - 1 = k /\ k + 1 # 0
        BY <2>2
      <4>2. g[k + 1] = IF s[k + 1] \in gone THEN f[k] ELSE Append(f[k], s[k + 1])
        OBVIOUS
      <4>3. QED
        BY <4>1, <4>2, <3>2, Zenon
    <3>3. CASE i \in 1 .. k
      <4>1. i - 1 \in 0 .. k /\ i \in 0 .. k /\ i # 0
        BY <3>3
      <4>2. g[i] = f[i] /\ g[i - 1] = f[i - 1]
        BY <2>2, <4>1, Zenon
      <4>3. f[i] = IF s[i] \in gone THEN f[i - 1] ELSE Append(f[i - 1], s[i])
        BY <2>1, <4>1 DEF Filters
      <4>4. QED
        BY <4>1, <4>2, <4>3, Zenon
    <3>4. CASE i = 0
      <4>1. f[0] = <<>> /\ g[0] = f[0]
        BY <2>1, <2>2 DEF Filters
      <4>2. QED
        BY <4>1, <3>4, Zenon
    <3>5. QED
      BY <3>2, <3>3, <3>4
  <2>4. Filters(s, gone, g, k + 1)
    <3>1. g = [i \in 0 .. k + 1 |-> g[i]]
      OBVIOUS
    <3> HIDE DEF g
    <3>2. QED
      BY <2>3, <3>1 DEF Filters
  <2>5. QED
    BY <2>4
<1>3. Nat \subseteq have
  <2> HIDE DEF have
  <2>1. QED
    BY <1>1, <1>2, Climbs
<1>4. Len(s) \in Nat
  BY LenProperties
<1> DEFINE f == CHOOSE f : Filters(s, gone, f, Len(s))
<1>5. Filters(s, gone, f, Len(s))
  BY <1>3, <1>4, Zenon
<1>6. Excluding(s, gone) = f[Len(s)]
  BY DEF Excluding, Filters
<1> HIDE DEF f
<1> DEFINE kept == {k \in Nat : k <= Len(s) => f[k] \in Seq(S \ gone)}
<1>7. 0 \in kept
  BY <1>5 DEF Filters
<1>8. ASSUME NEW k \in Nat, k \in kept PROVE k + 1 \in kept
  <2>1. SUFFICES ASSUME k + 1 <= Len(s) PROVE f[k + 1] \in Seq(S \ gone)
    OBVIOUS
  <2>2. k + 1 \in 0 .. Len(s) /\ k + 1 # 0 /\ (k + 1) - 1 = k
        /\ k + 1 \in 1 .. Len(s) /\ k <= Len(s)
    BY <1>4, <2>1
  <2>3. f[k + 1] = IF s[k + 1] \in gone THEN f[k] ELSE Append(f[k], s[k + 1])
    BY <1>5, <2>2 DEF Filters
  <2>4. f[k] \in Seq(S \ gone) /\ s[k + 1] \in S
    BY <1>8, <2>2, ElementOfSeq
  <2>5. s[k + 1] \notin gone => Append(f[k], s[k + 1]) \in Seq(S \ gone)
    BY <2>4, AppendProperties
  <2>6. QED
    BY <2>3, <2>4, <2>5, Zenon
<1>9. Nat \subseteq kept
  <2> HIDE DEF kept
  <2>1. QED
    BY <1>7, <1>8, Climbs
<1>10. QED
  BY <1>4, <1>6, <1>9

-----------------------------------------------------------------------------
(* Types.                                                                  *)

RowStates == Outcomes \cup {"none", "pending", "accepted"}
Streams ==
    [active : BOOLEAN, gen : 0 .. MaxConns, pend : Seq(Acts),
     acc : [Receipts -> 0 .. MaxConns], copies : [Msgs -> 0 .. MaxCopies],
     link : {"none", "up", "lost"}, down : Seq(Msgs), sent : 0 .. MaxMsgs,
     row : [Msgs -> RowStates], cond : {"none", "ready", "degraded"},
     open : SUBSET Turns]

LEMMA ReleasedTyped == ASSUME NEW n \in Streams PROVE Released(n) \in Streams
BY DEF Streams, Released, RowStates, Outcomes

LEMMA PendingTyped == ASSUME NEW n PROVE PendingRows(n) \in Seq(Msgs)
<1>1. MaxMsgs \in Nat
  BY StreamConstantsOK
<1>2. [m \in Msgs |-> m] \in Seq(Msgs)
  BY <1>1 DEF Msgs
<1>3. \A gone : \A s \in Seq(Msgs \ gone) : s \in Seq(Msgs)
  BY LenProperties, ElementOfSeq, SeqDef
<1>4. QED
  BY <1>2, <1>3, ExcludingKeeps DEF PendingRows

LEMMA HearTyped ==
    ASSUME NEW n \in Streams
    PROVE  /\ \A m \in Msgs : HearAccepted(n, m) \in Streams
           /\ \A m \in Msgs, d \in Outcomes \cup {"deferred"} :
                  HearSettled(n, m, d) \in Streams
           /\ \A c \in {"ready", "degraded"} : HearCondition(n, c) \in Streams
           /\ \A t \in Turns : \A phase : HearTurn(n, t, phase) \in Streams
<1>1. \A m \in Msgs : HearAccepted(n, m) \in Streams
  BY DEF HearAccepted, Streams, RowStates
<1>2. \A m \in Msgs, d \in Outcomes \cup {"deferred"} : HearSettled(n, m, d) \in Streams
  BY DEF HearSettled, Streams, RowStates
<1>3. \A c \in {"ready", "degraded"} : HearCondition(n, c) \in Streams
  <2>1. [n EXCEPT !.cond = "degraded"] \in Streams
    BY DEF Streams
  <2>2. n.down \in Seq(Msgs)
    BY DEF Streams
  <2>3. n.down \o PendingRows(n) \in Seq(Msgs)
    BY <2>2, PendingTyped, ConcatProperties
  <2>4. [n EXCEPT !.cond = "ready", !.down = @ \o PendingRows(n)] \in Streams
    BY <2>3 DEF Streams
  <2>5. QED
    BY <2>1, <2>4, ReleasedTyped DEF HearCondition
<1>4. \A t \in Turns : \A phase : HearTurn(n, t, phase) \in Streams
  <2>1. TAKE t \in Turns
  <2>6. TAKE phase
  <2>2. [n EXCEPT !.open = @ \cup {t}] \in Streams
    BY DEF Streams
  <2> DEFINE closed == [n EXCEPT !.open = @ \ {t}]
  <2>3. closed \in Streams
    BY DEF Streams
  <2>4. [closed EXCEPT !.cond = "degraded"] \in Streams
    BY <2>3 DEF Streams
  <2>5. QED
    BY <2>2, <2>3, <2>4, ReleasedTyped DEF HearTurn
<1>5. QED
  BY <1>1, <1>2, <1>3, <1>4

LEMMA ReceiptOf ==
    ASSUME NEW r \in Receipts
    PROVE  r[1] \in Msgs /\ r[2] \in 1 .. MaxCopies /\ r = <<r[1], r[2]>>
BY DEF Receipts

LEMMA ActOf ==
    ASSUME NEW a \in Acts
    PROVE  /\ a.do \in {"accept", "settle", "condition", "turn"}
           /\ a.do \in {"accept", "settle"} => a.of \in Receipts
           /\ a.do = "settle" => a.as \in Outcomes \cup {"deferred"}
           /\ a.do = "condition" => a.is \in {"ready", "degraded"}
           /\ a.do = "turn" => a.id \in Turns
BY DEF Acts

LEMMA AcceptedTyped ==
    ASSUME NEW n \in Streams, NEW r \in Receipts
    PROVE  Accepted(n, r) \in Streams
<1> DEFINE heard == IF n.link = "up" THEN HearAccepted(n, r[1]) ELSE n
<1>1. heard \in Streams
  BY HearTyped, ReceiptOf
<1>2. n.gen \in 0 .. MaxConns
  BY DEF Streams
<1> HIDE DEF heard
<1>3. [heard EXCEPT !.acc[r] = n.gen] \in Streams
  BY <1>1, <1>2 DEF Streams
<1>4. QED
  BY <1>3 DEF Accepted, heard

LEMMA SentTyped ==
    ASSUME NEW n \in Streams, NEW a \in Acts
    PROVE  Sent(n, a) \in Streams
<1>1. CASE a.do = "accept"
  BY <1>1, ActOf, AcceptedTyped DEF Sent
<1>2. CASE a.do = "settle"
  <2>1. a.of \in Receipts /\ a.as \in Outcomes \cup {"deferred"} /\ a.of[1] \in Msgs
    BY <1>2, ActOf, ReceiptOf
  <2>2. Settled(n, a.of, a.as) \in Streams
    BY <2>1, AcceptedTyped, HearTyped DEF Settled
  <2>3. QED
    BY <1>2, <2>2 DEF Sent
<1>3. CASE a.do = "condition"
  BY <1>3, ActOf, HearTyped DEF Sent
<1>4. CASE a.do = "turn"
  BY <1>4, ActOf, HearTyped DEF Sent
<1>5. QED
  BY <1>1, <1>2, <1>3, <1>4, ActOf

LEMMA PerformedTyped ==
    ASSUME NEW n \in Streams, NEW a \in Acts
    PROVE  Performed(n, a) \in Streams
<1>1. n.pend \in Seq(Acts)
  BY DEF Streams
<1>2. Append(n.pend, a) \in Seq(Acts)
  BY <1>1, AppendProperties
<1>3. [n EXCEPT !.pend = Append(@, a)] \in Streams
  BY <1>2 DEF Streams
<1>4. QED
  BY <1>3, SentTyped DEF Performed

LEMMA AllTyped ==
    ASSUME NEW n \in Streams, NEW acts \in Seq(Acts)
    PROVE  PerformAll(n, acts) \in Streams
<1>1. Len(acts) \in Nat /\ \A i \in 1 .. Len(acts) : acts[i] \in Acts
  BY LenProperties, ElementOfSeq
<1>2. QED
  BY <1>1, PerformedTyped, Performs

LEMMA ActsTyped ==
    /\ \A s \in Seq(Receipts) :
          /\ AcceptEach(s) \in Seq(Acts)
          /\ \A d \in Outcomes \cup {"deferred"} : SettleEach(s, d) \in Seq(Acts)
    /\ \A c \in {"ready", "degraded"} : Condition(c) \in Acts
    /\ \A t \in Turns, is \in {"started", "completed", "failed"} : Turn(t, is) \in Acts
<1>1. ASSUME NEW s \in Seq(Receipts)
      PROVE  /\ AcceptEach(s) \in Seq(Acts)
             /\ \A d \in Outcomes \cup {"deferred"} : SettleEach(s, d) \in Seq(Acts)
  <2>1. DOMAIN s = 1 .. Len(s) /\ Len(s) \in Nat /\ \A i \in 1 .. Len(s) : s[i] \in Receipts
    BY LenProperties, ElementOfSeq
  <2>2. \A i \in 1 .. Len(s) : AcceptOf(s[i]) \in Acts
    BY <2>1 DEF AcceptOf, Acts
  <2>3. \A i \in 1 .. Len(s), d \in Outcomes \cup {"deferred"} : SettleOf(s[i], d) \in Acts
    BY <2>1 DEF SettleOf, Acts
  <2>4. QED
    BY <2>1, <2>2, <2>3 DEF AcceptEach, SettleEach
<1>2. \A c \in {"ready", "degraded"} : Condition(c) \in Acts
  BY DEF Condition, Acts
<1>3. \A t \in Turns, is \in {"started", "completed", "failed"} : Turn(t, is) \in Acts
  BY DEF Turn, Acts
<1>4. QED
  BY <1>1, <1>2, <1>3

Flights ==
    {f \in [ask : {"none", "start", "steer"}, turn : Turns \cup {NoTurn},
            events : Seq(Receipts), again : BOOLEAN,
            at : {"none", "sent", "served", "answered"},
            says : {"none", "ok", "race", "failed"}] :
        /\ f.at # "none" => f.ask # "none"
        /\ f.at \in {"sent", "served"} /\ f.ask = "steer" => f.turn \in Turns
        /\ f.at = "answered" => f.says # "none" /\ (f.says = "ok" => f.turn \in Turns)}

Seats ==
    [buffer : Seq(Receipts), timer : BOOLEAN, flight : Flights, waiting : BOOLEAN,
     awaiting : [Turns -> Seq(Receipts)], held : [Turns -> Seq(Receipts)],
     status : Statuses, turn : Turns \cup {NoTurn}]

Plans == [seat : Seats, net : Streams, late : SUBSET Receipts]

Lines ==
    {l \in [is : {"reply", "started", "completed", "acted", "status", "error",
                  "interrupted"},
            turn : Turns \cup {NoTurn},
            says : {"none", "ok", "race", "failed", "completed", "interrupted"}
                      \cup Statuses] :
        /\ l.is \in {"started", "completed", "acted"} => l.turn \in Turns
        /\ l.is = "reply" => /\ l.says \in {"ok", "race", "failed"}
                             /\ l.says = "ok" => l.turn \in Turns
        /\ l.is = "status" => l.says \in Statuses \ {"notLoaded"}}

LEMMA NoTurnIsNone == NoTurn \notin Turns /\ Turns \subseteq Nat
BY SeatConstantsOK DEF NoTurn

LEMMA NewTyped == NoFlight \in Flights /\ NewSeat \in Seats
<1>1. <<>> \in Seq(Receipts)
  OBVIOUS
<1>2. NoFlight \in Flights
  BY <1>1 DEF NoFlight, Flights
<1>3. [t \in Turns |-> <<>>] \in [Turns -> Seq(Receipts)]
  BY <1>1
<1>4. QED
  BY <1>1, <1>2, <1>3 DEF NewSeat, Seats, Statuses

LEMMA DoingTyped ==
    ASSUME NEW p \in Plans, NEW acts \in Seq(Acts)
    PROVE  /\ Doing(p, acts) \in Plans
           /\ Doing(p, acts) = [p EXCEPT !.net = PerformAll(p.net, acts)]
<1>1. PerformAll(p.net, acts) \in Streams
  BY AllTyped DEF Plans
<1>2. QED
  BY <1>1 DEF Doing, Plans

LEMMA AskingTyped ==
    ASSUME NEW p \in Plans, NEW ask \in {"start", "steer"},
           NEW t \in Turns \cup {NoTurn}, NEW events \in Seq(Receipts),
           NEW again \in BOOLEAN, ask = "steer" => t \in Turns
    PROVE  Asking(p, ask, t, events, again) \in Plans
<1> DEFINE f == [ask |-> ask, turn |-> t, events |-> events, again |-> again,
                 at |-> "sent", says |-> "none"]
<1>1. f \in Flights
  BY DEF Flights
<1> HIDE DEF f
<1>2. [p EXCEPT !.seat.flight = f] \in Plans
  <2>1. [p.seat EXCEPT !.flight = f] \in Seats
    BY <1>1 DEF Plans, Seats
  <2>2. QED
    BY <2>1 DEF Plans
<1>3. QED
  BY <1>2 DEF Asking, f

LEMMA DeferredTyped ==
    ASSUME NEW p \in Plans, NEW events \in Seq(Receipts)
    PROVE  Deferred(p, events) \in Plans
BY ActsTyped, DoingTyped DEF Deferred

LEMMA RebufferedTyped ==
    ASSUME NEW p \in Plans, NEW events \in Seq(Receipts)
    PROVE  Rebuffered(p, events) \in Plans
<1>1. p.seat \in Seats /\ p.seat.buffer \in Seq(Receipts)
  BY DEF Plans, Seats
<1>2. events \o p.seat.buffer \in Seq(Receipts)
  BY <1>1, ConcatProperties
<1>3. [p.seat EXCEPT !.buffer = events \o p.seat.buffer] \in Seats
  BY <1>1, <1>2 DEF Seats
<1>4. QED
  BY <1>3 DEF Rebuffered, Plans

LEMMA DeliveredTyped ==
    ASSUME NEW p \in Plans, NEW r \in Receipts
    PROVE  Delivered(p, r) \in Plans
<1>1. p.seat \in Seats /\ p.seat.buffer \in Seq(Receipts)
  BY DEF Plans, Seats
<1>2. Append(p.seat.buffer, r) \in Seq(Receipts)
  BY <1>1, AppendProperties
<1>3. [p.seat EXCEPT !.buffer = Append(p.seat.buffer, r), !.timer = TRUE] \in Seats
  BY <1>1, <1>2 DEF Seats
<1>4. QED
  BY <1>3 DEF Delivered, Plans

LEMMA DispatchedTyped ==
    ASSUME NEW p \in Plans, NEW events \in Seq(Receipts)
    PROVE  Dispatched(p, events) \in Plans
<1>1. p.seat.status \in Statuses /\ p.seat.turn \in Turns \cup {NoTurn}
  BY DEF Plans, Seats
<1>2. QED
  BY <1>1, RebufferedTyped, DeferredTyped, AskingTyped DEF Dispatched, Statuses

LEMMA DrainedTyped == ASSUME NEW p \in Plans PROVE Drained(p) \in Plans
<1>1. p.seat \in Seats /\ p.seat.buffer \in Seq(Receipts) /\ <<>> \in Seq(Receipts)
  BY DEF Plans, Seats
<1>2. [p.seat EXCEPT !.buffer = <<>>] \in Seats
  BY <1>1 DEF Seats
<1>3. [p EXCEPT !.seat.buffer = <<>>] \in Plans
  BY <1>2 DEF Plans
<1>4. QED
  BY <1>1, <1>3, DispatchedTyped DEF Drained

LEMMA FlushedTyped == ASSUME NEW p \in Plans PROVE Flushed(p) \in Plans
<1> DEFINE q == [p EXCEPT !.seat.timer = FALSE]
<1>1. q \in Plans
  <2>1. [p.seat EXCEPT !.timer = FALSE] \in Seats
    BY DEF Plans, Seats
  <2>2. QED
    BY <2>1 DEF Plans
<1>2. [q EXCEPT !.seat.waiting = TRUE] \in Plans
  <2>1. [q.seat EXCEPT !.waiting = TRUE] \in Seats
    BY <1>1 DEF Plans, Seats
  <2>2. QED
    BY <1>1, <2>1 DEF Plans
<1>3. Drained(q) \in Plans
  BY <1>1, DrainedTyped
<1>4. QED
  BY <1>2, <1>3 DEF Flushed

LEMMA FinishedTyped == ASSUME NEW p \in Plans PROVE Finished(p) \in Plans
<1> DEFINE q == [p EXCEPT !.seat.flight = NoFlight, !.seat.waiting = FALSE]
<1>1. q \in Plans
  <2>1. [p.seat EXCEPT !.flight = NoFlight, !.waiting = FALSE] \in Seats
    BY NewTyped DEF Plans, Seats
  <2>2. QED
    BY <2>1 DEF Plans
<1>2. Drained(q) \in Plans
  BY <1>1, DrainedTyped
<1>3. QED
  BY <1>1, <1>2 DEF Finished

LEMMA JoinedTyped ==
    ASSUME NEW p \in Plans, NEW t \in Turns, NEW events \in Seq(Receipts)
    PROVE  Joined(p, t, events) \in Plans
<1> DEFINE q == Doing(p, AcceptEach(events))
<1>0. q \in Plans
  BY ActsTyped, DoingTyped
<1>2. ToSet(events) \subseteq Receipts
  BY ElementsOf
<1> HIDE DEF q
<1>1. q.seat \in Seats /\ q.seat.held[t] \in Seq(Receipts) /\ q.late \subseteq Receipts
  BY <1>0 DEF Plans, Seats
<1>3. q.seat.held[t] \o events \in Seq(Receipts)
  BY <1>1, ConcatProperties
<1> DEFINE h == q.seat.held[t] \o events
           l == IF p.seat.turn = t /\ (p.net.link = "up" => t \in p.net.open)
                THEN q.late ELSE q.late \cup ToSet(events)
<1>4. l \subseteq Receipts /\ h \in Seq(Receipts)
  BY <1>1, <1>2, <1>3
<1>5. Joined(p, t, events) = [q EXCEPT !.seat.held[t] = h, !.late = l]
  BY DEF Joined, q
<1> HIDE DEF h, l
<1>6. [q.seat EXCEPT !.held[t] = h] \in Seats
  BY <1>1, <1>4 DEF Seats
<1>7. QED
  BY <1>0, <1>1, <1>4, <1>5, <1>6 DEF Plans

LEMMA RegisteredTyped ==
    ASSUME NEW p \in Plans, NEW t \in Turns, NEW events \in Seq(Receipts)
    PROVE  Registered(p, t, events) \in Plans
<1> DEFINE l == IF StillToRead("started", t) THEN p.late
                ELSE p.late \cup ToSet(events)
<1>1. ToSet(events) \subseteq Receipts
  BY ElementsOf
<1>2. l \subseteq Receipts
  BY <1>1 DEF Plans
<1>3. [p.seat EXCEPT !.awaiting[t] = events] \in Seats
  BY DEF Plans, Seats
<1> HIDE DEF l
<1>4. [p EXCEPT !.seat.awaiting[t] = events, !.late = l] \in Plans
  BY <1>2, <1>3 DEF Plans
<1>5. QED
  BY <1>4, JoinedTyped DEF Registered, l

LEMMA RetriedTyped ==
    ASSUME NEW p \in Plans, NEW events \in Seq(Receipts)
    PROVE  Retried(p, events) \in Plans
<1>1. p.seat.status \in Statuses /\ p.seat.turn \in Turns \cup {NoTurn}
  BY DEF Plans, Seats
<1>3. /\ Asking(p, "start", NoTurn, events, TRUE) \in Plans
      /\ p.seat.turn # NoTurn => Asking(p, "steer", p.seat.turn, events, TRUE) \in Plans
  BY <1>1, AskingTyped
<1>4. /\ Finished(p) \in Plans
      /\ Finished(Rebuffered(p, events)) \in Plans
      /\ Finished(Deferred(p, events)) \in Plans
  BY RebufferedTyped, DeferredTyped, FinishedTyped
<1>5. QED
  BY <1>1, <1>3, <1>4 DEF Retried, Statuses

LEMMA AnsweredTyped ==
    ASSUME NEW p \in Plans, p.seat.flight.at = "answered"
    PROVE  Answered(p) \in Plans
<1> DEFINE f == p.seat.flight
<1>1. /\ f.events \in Seq(Receipts) /\ f.again \in BOOLEAN
      /\ f.says \in {"ok", "race", "failed"} /\ f.ask \in {"start", "steer"}
      /\ f.says = "ok" => f.turn \in Turns
  BY DEF Plans, Seats, Flights
<1> HIDE DEF f
<1>2. CASE f.says = "ok"
  <2>1. Finished(Registered(p, f.turn, f.events)) \in Plans
        /\ Finished(Joined(p, f.turn, f.events)) \in Plans
    BY <1>1, <1>2, RegisteredTyped, JoinedTyped, FinishedTyped
  <2>2. QED
    BY <1>1, <1>2, <2>1 DEF Answered, f
<1>3. CASE f.says = "failed" \/ (f.says = "race" /\ f.again)
  BY <1>1, <1>3, DeferredTyped, FinishedTyped DEF Answered, f
<1>4. CASE f.says = "race" /\ ~f.again
  BY <1>1, <1>4, RetriedTyped DEF Answered, f
<1>5. QED
  BY <1>1, <1>2, <1>3, <1>4

LEMMA OnStartedTyped ==
    ASSUME NEW p \in Plans, NEW t \in Turns
    PROVE  OnStarted(p, t) \in Plans
<1> DEFINE b == [p EXCEPT !.seat.turn = t]
           acts == <<Condition("ready"), Turn(t, "started")>>
                     \o AcceptEach(p.seat.awaiting[t])
           q == Doing(b, acts)
<1>1. b \in Plans
  <2>1. [p.seat EXCEPT !.turn = t] \in Seats
    BY DEF Plans, Seats
  <2>2. QED
    BY <2>1 DEF Plans
<1>2. p.seat.awaiting[t] \in Seq(Receipts) /\ <<>> \in Seq(Receipts)
  BY DEF Plans, Seats
<1>3. acts \in Seq(Acts)
  <2>1. <<Condition("ready"), Turn(t, "started")>> \in Seq(Acts)
    BY ActsTyped
  <2>2. AcceptEach(p.seat.awaiting[t]) \in Seq(Acts)
    BY <1>2, ActsTyped
  <2>3. QED
    BY <2>1, <2>2, ConcatProperties
<1> HIDE DEF b, acts
<1>4. q \in Plans
  BY <1>1, <1>3, DoingTyped
<1>5. OnStarted(p, t) = IF p.seat.awaiting[t] = <<>> THEN q
        ELSE [q EXCEPT !.seat.held[t] = p.seat.awaiting[t],
                       !.seat.awaiting[t] = <<>>]
  BY DEF OnStarted, b, acts
<1> HIDE DEF q
<1>6. [q.seat EXCEPT !.held[t] = p.seat.awaiting[t], !.awaiting[t] = <<>>] \in Seats
  BY <1>2, <1>4 DEF Plans, Seats
<1>7. [q EXCEPT !.seat.held[t] = p.seat.awaiting[t], !.seat.awaiting[t] = <<>>] \in Plans
  BY <1>4, <1>6 DEF Plans
<1>8. QED
  BY <1>4, <1>5, <1>7

LEMMA OnCompletedTyped ==
    ASSUME NEW p \in Plans, NEW t \in Turns, NEW how
    PROVE  OnCompleted(p, t, how) \in Plans
<1> DEFINE phase == IF how = "failed" THEN "failed" ELSE "completed"
           as == IF how = "failed" THEN "deferred" ELSE "handled"
           acts == <<Turn(t, phase)>> \o SettleEach(p.seat.held[t], as)
           q == Doing(p, acts)
<1>1. p.seat.held[t] \in Seq(Receipts) /\ <<>> \in Seq(Receipts)
  BY DEF Plans, Seats
<1>2. as \in Outcomes \cup {"deferred"} /\ phase \in {"started", "completed", "failed"}
  BY DEF Outcomes
<1> HIDE DEF phase, as
<1>3. acts \in Seq(Acts)
  <2>1. Turn(t, phase) \in Acts /\ SettleEach(p.seat.held[t], as) \in Seq(Acts)
    BY <1>1, <1>2, ActsTyped
  <2>2. <<Turn(t, phase)>> \in Seq(Acts)
    BY <2>1
  <2>3. QED
    BY <2>1, <2>2, ConcatProperties
<1> HIDE DEF acts
<1>4. q \in Plans
  BY <1>3, DoingTyped
<1>5. OnCompleted(p, t, how) = [q EXCEPT !.seat.held[t] = <<>>, !.seat.turn = NoTurn]
  BY DEF OnCompleted, phase, as, acts
<1> HIDE DEF q
<1>6. [q.seat EXCEPT !.held[t] = <<>>, !.turn = NoTurn] \in Seats
  BY <1>1, <1>4 DEF Plans, Seats
<1>7. [q EXCEPT !.seat.held[t] = <<>>, !.seat.turn = NoTurn] \in Plans
  BY <1>4, <1>6 DEF Plans
<1>8. QED
  BY <1>5, <1>7

LEMMA OnActedTyped ==
    ASSUME NEW p \in Plans, NEW t \in Turns
    PROVE  OnActed(p, t) \in Plans
<1> DEFINE q == Doing(p, SettleEach(p.seat.held[t], "acted"))
<1>1. p.seat.held[t] \in Seq(Receipts) /\ <<>> \in Seq(Receipts)
  BY DEF Plans, Seats
<1>2. SettleEach(p.seat.held[t], "acted") \in Seq(Acts)
  BY <1>1, ActsTyped DEF Outcomes
<1>3. q \in Plans
  BY <1>2, DoingTyped
<1>4. OnActed(p, t) = [q EXCEPT !.seat.held[t] = <<>>]
  BY DEF OnActed
<1> HIDE DEF q
<1>5. [q.seat EXCEPT !.held[t] = <<>>] \in Seats
  BY <1>1, <1>3 DEF Plans, Seats
<1>6. [q EXCEPT !.seat.held[t] = <<>>] \in Plans
  BY <1>3, <1>5 DEF Plans
<1>7. QED
  BY <1>4, <1>6

LEMMA DegradedTyped ==
    ASSUME NEW p \in Plans PROVE Doing(p, <<Condition("degraded")>>) \in Plans
<1>1. <<Condition("degraded")>> \in Seq(Acts)
  BY ActsTyped
<1>2. QED
  BY <1>1, DoingTyped

LEMMA OnStatusTyped ==
    ASSUME NEW p \in Plans, NEW s \in Statuses
    PROVE  OnStatus(p, s) \in Plans
<1> DEFINE q == [p EXCEPT !.seat.status = s]
<1>1. q \in Plans
  <2>1. [p.seat EXCEPT !.status = s] \in Seats
    BY DEF Plans, Seats
  <2>2. QED
    BY <2>1 DEF Plans
<1> HIDE DEF q
<1>2. Flushed(q) \in Plans /\ Flushed(Doing(q, <<Condition("degraded")>>)) \in Plans
  BY <1>1, FlushedTyped, DegradedTyped
<1>3. QED
  BY <1>1, <1>2 DEF OnStatus, q

LEMMA OnReplyTyped ==
    ASSUME NEW p \in Plans, NEW l \in Lines, l.is = "reply",
           p.seat.flight.at = "served"
    PROVE  OnReply(p, l) \in Plans
<1> DEFINE f == [p.seat.flight EXCEPT !.at = "answered", !.says = l.says, !.turn = l.turn]
<1>1. l.says \in {"ok", "race", "failed"} /\ (l.says = "ok" => l.turn \in Turns)
      /\ l.turn \in Turns \cup {NoTurn}
  BY DEF Lines
<1>2. f \in Flights
  BY <1>1 DEF Plans, Seats, Flights
<1>3. OnReply(p, l) = [p EXCEPT !.seat.flight = f]
  BY DEF OnReply, Plans, Seats
<1> HIDE DEF f
<1>4. [p.seat EXCEPT !.flight = f] \in Seats
  BY <1>2 DEF Plans, Seats
<1>5. QED
  BY <1>3, <1>4 DEF Plans

LEMMA HandledTyped ==
    ASSUME NEW p \in Plans, NEW l \in Lines,
           l.is = "reply" => p.seat.flight.at = "served"
    PROVE  Handled(p, l) \in Plans
<1>1. /\ l.is \in {"reply", "started", "completed", "acted", "status", "error",
                   "interrupted"}
      /\ l.is \in {"started", "completed", "acted"} => l.turn \in Turns
      /\ l.is = "status" => l.says \in Statuses
  BY DEF Lines
<1>2. QED
  BY <1>1, OnReplyTyped, OnStartedTyped, OnCompletedTyped, OnActedTyped,
     OnStatusTyped, DegradedTyped DEF Handled

(* The lines the app-server writes.                                        *)
LEMMA LinesTyped ==
    /\ \A is \in {"error", "interrupted"} : Line(is) \in Lines /\ Line(is).is = is
    /\ \A says \in {"race", "failed"} : /\ Reply(says, NoTurn) \in Lines
                                        /\ Reply(says, NoTurn).is = "reply"
                                        /\ Reply(says, NoTurn).says = says
    /\ \A t \in Turns :
          /\ Reply("ok", t) \in Lines /\ Reply("ok", t).is = "reply"
          /\ Reply("ok", t).turn = t /\ Reply("ok", t).says = "ok"
          /\ Started(t) \in Lines /\ Started(t).is = "started" /\ Started(t).turn = t
          /\ UsedTool(t) \in Lines /\ UsedTool(t).is = "acted" /\ UsedTool(t).turn = t
          /\ \A how \in {"completed", "failed", "interrupted"} :
                /\ Completed(t, how) \in Lines /\ Completed(t, how).is = "completed"
                /\ Completed(t, how).turn = t /\ Completed(t, how).says = how
    /\ \A s \in Statuses \ {"notLoaded"} :
          Status(s) \in Lines /\ Status(s).is = "status" /\ Status(s).says = s
BY DEF Line, Reply, Started, UsedTool, Completed, Status, Lines, Statuses

Stages == {"off", "up", "flushing", "flushed", "interrupting", "interrupted", "closing"}

Typed ==
    /\ stream \in Streams
    /\ attached \in BOOLEAN /\ early \in Seq(Receipts)
    /\ seat \in Seats /\ stage \in Stages
    /\ codex \in [turn : Turns \cup {NoTurn}, used : 0 .. MaxTurns, broken : BOOLEAN]
    /\ out \in Seq(Lines)
    /\ spawns \in 0 .. MaxSpawns /\ errors \in 0 .. MaxErrors
    /\ shown \in [Msgs -> SUBSET Turns]
    /\ ends \in [Turns -> {"none", "well", "failed"}] /\ actedIn \subseteq Turns
    /\ late \subseteq Receipts /\ lost \subseteq Receipts
    /\ cut \in [Turns -> SUBSET Receipts]

(* A request is answered once: its reply is the only one to be read.       *)
OneReply ==
    \A i \in 1 .. Len(out) : out[i].is = "reply" =>
        /\ seat.flight.at = "served"
        /\ \A j \in 1 .. Len(out) : out[j].is = "reply" => j = i

LEMMA TypedIsTypeOK == Typed => TypeOK
BY DEF Typed, TypeOK, StreamTypeOK, Streams, RowStates, Seats, Flights, Stages

LEMMA NowTyped == ASSUME Typed PROVE Now \in Plans
BY DEF Typed, Now, Plans

LEMMA BecomeTyped ==
    ASSUME NEW p \in Plans, Become(p)
    PROVE  /\ seat' \in Seats /\ stream' \in Streams
           /\ late' \subseteq Receipts /\ lost' = lost /\ cut' = cut
BY DEF Become, Plans

LEMMA TailOf ==
    ASSUME NEW o \in Seq(Lines), o # <<>>
    PROVE  /\ Tail(o) \in Seq(Lines) /\ Len(Tail(o)) = Len(o) - 1
           /\ Len(o) \in Nat /\ Len(o) >= 1
           /\ Head(o) = o[1] /\ Head(o) \in Lines
           /\ \A i \in 1 .. Len(o) - 1 : Tail(o)[i] = o[i + 1]
BY HeadTailProperties, EmptySeq, LenProperties, ElementOfSeq

LEMMA WrittenOn ==
    ASSUME NEW o \in Seq(Lines), NEW l \in Seq(Lines)
    PROVE  /\ o \o l \in Seq(Lines)
           /\ Len(o) \in Nat /\ Len(l) \in Nat
           /\ Len(o \o l) = Len(o) + Len(l)
           /\ \A i \in 1 .. Len(o) : (o \o l)[i] = o[i] /\ i \in 1 .. Len(o \o l)
           /\ \A i \in 1 .. Len(l) :
                  (o \o l)[Len(o) + i] = l[i] /\ Len(o) + i \in 1 .. Len(o \o l)
           /\ \A i \in 1 .. Len(o \o l) : i \in 1 .. Len(o) \/ i - Len(o) \in 1 .. Len(l)
<1>1. /\ o \o l \in Seq(Lines) /\ Len(o) \in Nat /\ Len(l) \in Nat
      /\ Len(o \o l) = Len(o) + Len(l)
      /\ \A i \in 1 .. Len(o) + Len(l) :
             (o \o l)[i] = IF i <= Len(o) THEN o[i] ELSE l[i - Len(o)]
  BY ConcatProperties, LenProperties
<1> DEFINE ol == o \o l
<1> HIDE DEF ol
<1>2. \A i \in 1 .. Len(o) : ol[i] = o[i] /\ i \in 1 .. Len(ol)
  BY <1>1 DEF ol
<1>3. \A i \in 1 .. Len(l) : ol[Len(o) + i] = l[i] /\ Len(o) + i \in 1 .. Len(ol)
  <2>1. TAKE i \in 1 .. Len(l)
  <2> DEFINE k == Len(o) + i
  <2>2. k \in 1 .. Len(o) + Len(l) /\ ~(k <= Len(o)) /\ k - Len(o) = i
    BY <1>1
  <2> HIDE DEF k
  <2>3. ol[k] = l[i] /\ k \in 1 .. Len(ol)
    BY <1>1, <2>2 DEF ol
  <2>4. QED
    BY <2>3 DEF k
<1>4. \A i \in 1 .. Len(ol) : i \in 1 .. Len(o) \/ i - Len(o) \in 1 .. Len(l)
  BY <1>1 DEF ol
<1>5. QED
  BY <1>1, <1>2, <1>3, <1>4 DEF ol

(* The first message of the loop and its receipt.                          *)
LEMMA IncomingTyped ==
    ASSUME stream \in Streams, stream.down # <<>>,
           stream.copies[Head(stream.down)] < MaxCopies
    PROVE  /\ Head(stream.down) \in Msgs
           /\ Incoming \in Receipts /\ Taken \in Streams
<1> DEFINE m == Head(stream.down)
<1>1. stream.down \in Seq(Msgs) /\ stream.copies \in [Msgs -> 0 .. MaxCopies]
  BY DEF Streams
<1>2. m \in Msgs /\ Tail(stream.down) \in Seq(Msgs)
  BY <1>1, HeadTailProperties
<1> HIDE DEF m
<1>3. stream.copies[m] + 1 \in 1 .. MaxCopies /\ stream.copies[m] + 1 \in 0 .. MaxCopies
  BY <1>1, <1>2, StreamConstantsOK DEF m
<1>4. Incoming \in Receipts
  BY <1>2, <1>3 DEF Incoming, Receipts, m
<1>5. [stream EXCEPT !.down = Tail(@), !.copies[m] = @ + 1] \in Streams
  BY <1>1, <1>2, <1>3 DEF Streams
<1>6. QED
  BY <1>2, <1>4, <1>5 DEF Taken, m

LEMMA OpenedTyped ==
    ASSUME NEW n \in Streams, NEW acts \in Seq(Acts)
    PROVE  Opened(n, acts) \in Streams
<1>1. n.pend \in Seq(Acts) /\ <<>> \in Seq(Acts)
  BY DEF Streams
<1>2. [n EXCEPT !.pend = <<>>] \in Streams
  BY <1>1 DEF Streams
<1>3. QED
  BY <1>1, <1>2, AllTyped DEF Opened

LEMMA IntroductionTyped == ASSUME Typed PROVE Introduction \in Seq(Acts)
<1>1. seat.turn \in Turns \cup {NoTurn}
  BY DEF Typed, Seats
<1>2. <<Condition("ready")>> \in Seq(Acts) /\ <<>> \in Seq(Acts)
      /\ (seat.turn # NoTurn => <<Turn(seat.turn, "started")>> \in Seq(Acts))
  BY <1>1, ActsTyped
<1> DEFINE a == <<Condition("ready")>>
           b == IF seat.turn = NoTurn THEN <<>> ELSE <<Turn(seat.turn, "started")>>
<1>3. a \in Seq(Acts) /\ b \in Seq(Acts)
  BY <1>2
<1> HIDE DEF a, b
<1>4. a \o b \in Seq(Acts)
  BY <1>3, ConcatProperties
<1>5. QED
  BY <1>2, <1>4 DEF Introduction, a, b

(* What the connection does.                                               *)
LEMMA LinkTyped ==
    ASSUME Typed
    PROVE  /\ Push => stream' \in Streams
           /\ Lose => stream' \in Streams
           /\ EndStream => stream' \in Streams
           /\ Connect(Introduction) => stream' \in Streams
           /\ \A t \in Turns : Backstop(t) => stream' \in Streams
<1>1. stream \in Streams /\ MaxMsgs \in Nat /\ MaxConns \in Nat
  BY StreamConstantsOK DEF Typed
<1>2. ASSUME Push PROVE stream' \in Streams
  <2> DEFINE m == stream.sent + 1
             d == IF stream.link = "up" /\ stream.cond = "ready"
                  THEN Append(stream.down, m) ELSE stream.down
  <2>1. m \in Msgs /\ m \in 0 .. MaxMsgs
    BY <1>1, <1>2 DEF Push, Streams, Msgs
  <2> HIDE DEF m
  <2>2. d \in Seq(Msgs)
    BY <1>1, <2>1, AppendProperties DEF Streams
  <2>3. stream' = [stream EXCEPT !.sent = m, !.row[m] = "pending", !.down = d]
    BY <1>2 DEF Push, m
  <2> HIDE DEF d
  <2>4. QED
    BY <1>1, <2>1, <2>2, <2>3 DEF Streams, RowStates
<1>3. ASSUME Lose PROVE stream' \in Streams
  <2>1. PICK k \in 0 .. Len(stream.down) :
            stream' = [Released(stream) EXCEPT
                        !.link = "lost", !.cond = "none", !.open = {},
                        !.down = SubSeq(@, 1, k)]
    BY <1>3 DEF Lose
  <2> DEFINE n == Released(stream)
  <2>2. n \in Streams
    BY <1>1, ReleasedTyped
  <2>3. n.down = stream.down /\ stream.down \in Seq(Msgs) /\ Len(stream.down) \in Nat
    BY <1>1, LenProperties DEF Released, Streams
  <2> HIDE DEF n
  <2>4. SubSeq(n.down, 1, k) \in Seq(Msgs)
    BY <2>3, SubSeqProperties
  <2>5. QED
    BY <2>1, <2>2, <2>4 DEF Streams, n
<1>4. ASSUME EndStream PROVE stream' \in Streams
  BY <1>1, <1>4 DEF EndStream, Streams
<1>5. ASSUME Connect(Introduction) PROVE stream' \in Streams
  <2>1. PICK link \in {"up", "lost"} :
            stream' = Opened([stream EXCEPT !.active = TRUE, !.gen = @ + 1,
                                            !.link = link], Introduction)
    BY <1>5 DEF Connect
  <2> DEFINE g == stream.gen + 1
  <2>2. g \in 0 .. MaxConns
    BY <1>1, <1>5 DEF Connect, Streams
  <2> HIDE DEF g
  <2>3. [stream EXCEPT !.active = TRUE, !.gen = g, !.link = link] \in Streams
    BY <1>1, <2>2 DEF Streams
  <2>4. QED
    BY <2>1, <2>3, OpenedTyped, IntroductionTyped DEF g
<1>6. ASSUME NEW t \in Turns, Backstop(t) PROVE stream' \in Streams
  <2>1. [stream EXCEPT !.open = @ \ {t}, !.cond = "degraded"] \in Streams
    BY <1>1 DEF Streams
  <2>2. QED
    BY <1>6, <2>1, ReleasedTyped DEF Backstop
<1>7. QED
  BY <1>2, <1>3, <1>4, <1>5, <1>6

LEMMA TypedInit == Init => Typed /\ OneReply
<1> SUFFICES ASSUME Init PROVE Typed /\ OneReply
  OBVIOUS
<1>1. stream \in Streams
  <2>1. <<>> \in Seq(Acts) /\ <<>> \in Seq(Msgs)
    OBVIOUS
  <2>2. 0 \in 0 .. MaxConns /\ 0 \in 0 .. MaxCopies /\ 0 \in 0 .. MaxMsgs
    BY StreamConstantsOK
  <2>3. QED
    BY <2>1, <2>2 DEF Init, StreamInit, Streams, RowStates
<1>2. <<>> \in Seq(Receipts) /\ <<>> \in Seq(Lines) /\ seat \in Seats
  BY NewTyped DEF Init
<1>3. 0 \in 0 .. MaxTurns /\ 0 \in 0 .. MaxSpawns /\ 0 \in 0 .. MaxErrors
  BY SeatConstantsOK
<1>4. codex \in [turn : Turns \cup {NoTurn}, used : 0 .. MaxTurns, broken : BOOLEAN]
  BY <1>3 DEF Init, NewCodex
<1>5. Typed
  BY <1>1, <1>2, <1>3, <1>4 DEF Init, Typed, Stages
<1>6. OneReply
  <2>1. Len(<<>>) = 0
    BY EmptySeq
  <2>2. QED
    BY <2>1 DEF Init, OneReply
<1>7. QED
  BY <1>5, <1>6

(* The connection changes the stream and nothing else.                     *)
LEMMA ConnectionTyped ==
    ASSUME Typed, PushMessage \/ LoseLink \/ LoopEnds \/ Subscribe \/ SweepTurn
    PROVE  Typed'
<1>1. stream' \in Streams
  BY LinkTyped DEF PushMessage, LoseLink, LoopEnds, Subscribe, SweepTurn
<1>2. errors' \in 0 .. MaxErrors
  BY SeatConstantsOK DEF Typed, PushMessage, LoseLink, LoopEnds, Subscribe,
      SweepTurn, seatVars
<1>3. UNCHANGED <<wrapperVars, seat, stage, codex, out, spawns, historyVars, late, cut>>
  BY DEF PushMessage, LoseLink, LoopEnds, Subscribe, SweepTurn, seatVars, leaseVars
<1>4. lost' \subseteq Receipts
  BY DEF Typed, PushMessage, LoseLink, LoopEnds, Subscribe, SweepTurn, seatVars, leaseVars
<1>5. QED
  BY <1>1, <1>2, <1>3, <1>4 DEF Typed, wrapperVars, historyVars

LEMMA ForwardTyped == ASSUME Typed, Forward PROVE Typed'
<1>1. Incoming \in Receipts /\ Taken \in Streams
  BY IncomingTyped DEF Typed, Forward
<1>2. /\ seat' \in Seats /\ stream' \in Streams /\ early' \in Seq(Receipts)
      /\ late' \subseteq Receipts /\ lost' = lost /\ cut' = cut
  <2>1. CASE attached
    <3>1. [Now EXCEPT !.net = Taken] \in Plans
      BY <1>1, NowTyped DEF Plans
    <3>2. Delivered([Now EXCEPT !.net = Taken], Incoming) \in Plans
      BY <1>1, <3>1, DeliveredTyped
    <3>3. QED
      BY <2>1, <3>2, BecomeTyped DEF Forward, Received, Typed
  <2>2. CASE ~attached
    <3>1. Append(early, Incoming) \in Seq(Receipts)
      BY <1>1, AppendProperties DEF Typed
    <3>2. QED
      BY <1>1, <2>2, <3>1 DEF Forward, Received, Typed, leaseVars
  <2>3. QED
    BY <2>1, <2>2
<1>3. QED
  BY <1>2 DEF Typed, Forward, historyVars

LEMMA SpawnTyped == ASSUME Typed, Spawn PROVE Typed'
<1>1. seat' \in Seats
  <2>1. early \in Seq(Receipts)
    BY DEF Typed
  <2>2. (early # <<>>) \in BOOLEAN /\ "idle" \in Statuses
    BY DEF Statuses
  <2> DEFINE b == early # <<>>
  <2>3. seat' = [NewSeat EXCEPT !.status = "idle", !.buffer = early, !.timer = b]
    BY DEF Spawn
  <2> HIDE DEF b
  <2>4. b \in BOOLEAN
    BY DEF b
  <2>5. QED
    BY <2>1, <2>2, <2>3, <2>4, NewTyped DEF Seats
<1>2. stream' \in Streams
  BY ActsTyped, PerformedTyped DEF Typed, Spawn
<1>3. spawns' \in 0 .. MaxSpawns
  BY SeatConstantsOK DEF Typed, Spawn
<1>4. codex' \in [turn : Turns \cup {NoTurn}, used : 0 .. MaxTurns, broken : BOOLEAN]
  BY DEF Typed, Spawn, NewCodex
<1>5. out' \in Seq(Lines) /\ early' \in Seq(Receipts) /\ attached' \in BOOLEAN
      /\ stage' \in Stages
  BY DEF Spawn, Stages
<1>6. QED
  BY <1>1, <1>2, <1>3, <1>4, <1>5 DEF Typed, Spawn, historyVars, leaseVars

LEMMA StopTyped == ASSUME Typed, Stop \/ StopTurn PROVE Typed'
<1>1. CASE Stop
  <2>1. /\ seat' \in Seats /\ stream' \in Streams
        /\ late' \subseteq Receipts /\ lost' = lost /\ cut' = cut
    BY <1>1, NowTyped, FlushedTyped, BecomeTyped DEF Stop
  <2>2. stage' \in Stages /\ attached' \in BOOLEAN
    BY <1>1 DEF Stop, Stages
  <2>3. QED
    BY <1>1, <2>1, <2>2 DEF Typed, Stop, historyVars
<1>2. CASE StopTurn
  BY <1>2 DEF Typed, StopTurn, historyVars, wrapperVars, leaseVars, Stages
<1>3. QED
  BY <1>1, <1>2

LEMMA FailingTyped == ASSUME NEW s \in Seats PROVE Failing(s) \in Seq(Receipts)
<1>1. /\ s.flight.events \in Seq(Receipts) /\ s.buffer \in Seq(Receipts)
      /\ <<>> \in Seq(Receipts)
  BY DEF Seats, Flights
<1>2. QED
  BY <1>1, ConcatProperties DEF Failing

LEMMA CloseTyped == ASSUME Typed, Close PROVE Typed'
<1>1. Torn(Now) \in Plans
  <2>1. Now \in Plans /\ Now.seat = seat /\ seat \in Seats
    BY NowTyped DEF Now, Typed
  <2>2. QED
    BY <2>1, FailingTyped, DeferredTyped DEF Torn
<1>2. stream' \in Streams
  BY <1>1 DEF Close, Plans
<1>3. cut' \in [Turns -> SUBSET Receipts]
  <2>1. ASSUME NEW t \in Turns PROVE cut[t] \cup ToSet(seat.held[t]) \subseteq Receipts
    <3>1. seat.held[t] \in Seq(Receipts) /\ cut[t] \subseteq Receipts
      BY DEF Typed, Seats
    <3>2. QED
      BY <3>1, ElementsOf
  <2>2. QED
    BY <2>1 DEF Close
<1>4. codex' \in [turn : Turns \cup {NoTurn}, used : 0 .. MaxTurns, broken : BOOLEAN]
  BY DEF Typed, Close, NewCodex
<1>5. out' \in Seq(Lines) /\ stage' \in Stages /\ seat' \in Seats
  BY NewTyped DEF Close, Stages
<1>6. QED
  BY <1>2, <1>3, <1>4, <1>5 DEF Typed, Close, historyVars, wrapperVars

LEMMA ReadLineTyped == ASSUME Typed, OneReply, ReadLine PROVE Typed'
<1>1. /\ Tail(out) \in Seq(Lines) /\ Head(out) \in Lines
      /\ Head(out).is = "reply" => seat.flight.at = "served"
  BY TailOf DEF Typed, ReadLine, OneReply
<1>2. Now \in Plans /\ Now.seat = seat
  BY NowTyped DEF Now
<1>3. Handled(Now, Head(out)) \in Plans
  BY <1>1, <1>2, HandledTyped
<1>4. /\ seat' \in Seats /\ stream' \in Streams
      /\ late' \subseteq Receipts /\ lost' = lost /\ cut' = cut
  BY <1>3, BecomeTyped DEF ReadLine
<1>5. QED
  BY <1>1, <1>4 DEF Typed, ReadLine, Stages, historyVars, wrapperVars

LEMMA TasksTyped == ASSUME Typed, Continue \/ Timer PROVE Typed'
<1>1. /\ seat' \in Seats /\ stream' \in Streams
      /\ late' \subseteq Receipts /\ lost' = lost /\ cut' = cut
  <2>1. CASE Continue
    <3>1. Now \in Plans /\ Now.seat.flight.at = "answered"
      BY <2>1, NowTyped DEF Continue, Now
    <3>2. QED
      BY <2>1, <3>1, AnsweredTyped, BecomeTyped DEF Continue
  <2>2. CASE Timer
    BY <2>2, NowTyped, FlushedTyped, BecomeTyped DEF Timer
  <2>3. QED
    BY <2>1, <2>2
<1>2. QED
  BY <1>1 DEF Typed, Continue, Timer, historyVars, wrapperVars

(* The app-server serves a request.                                        *)
LEMMA ServeTyped ==
    ASSUME Typed, \E ask \in {"start", "steer"} : Asked(ask), Serve
    PROVE  seat' \in Seats
<1>1. /\ seat.flight \in Flights /\ seat.flight.at = "sent" /\ seat \in Seats
  BY DEF Typed, Seats, Asked
<1>2. [seat.flight EXCEPT !.at = "served"] \in Flights
  BY <1>1 DEF Flights
<1>3. seat' = [seat EXCEPT !.flight = [seat.flight EXCEPT !.at = "served"]]
  BY <1>1 DEF Serve, Seats
<1>4. QED
  BY <1>1, <1>2, <1>3 DEF Seats

LEMMA ShowsTyped ==
    ASSUME Typed, NEW t \in Turns, Shows(t) PROVE shown' \in [Msgs -> SUBSET Turns]
BY DEF Typed, Shows

(* What an action of the app-server writes.                                *)
Wrote(l) == l \in Seq(Lines) /\ out' = out \o l

LEMMA WroteTyped == ASSUME Typed, NEW l, Wrote(l) PROVE out' \in Seq(Lines)
BY WrittenOn DEF Typed, Wrote

LEMMA StartTurnWrites ==
    ASSUME Typed, StartTurn
    PROVE  LET t == codex.used + 1
           IN  /\ t \in Turns /\ codex' = [codex EXCEPT !.turn = t, !.used = t]
               /\ \/ Wrote(<<Reply("ok", t), Started(t), Status("active")>>)
                  \/ Wrote(<<Status("active"), Started(t), Reply("ok", t)>>)
<1> DEFINE t == codex.used + 1
<1>1. t \in Turns
  BY SeatConstantsOK DEF Typed, StartTurn
<1>2. codex' = [codex EXCEPT !.turn = t, !.used = t]
  BY DEF StartTurn
<1>3. \/ Writes(<<Reply("ok", t), Started(t), Status("active")>>)
      \/ Writes(<<Status("active"), Started(t), Reply("ok", t)>>)
  BY DEF StartTurn
<1> HIDE DEF t
<1>4. Reply("ok", t) \in Lines /\ Started(t) \in Lines /\ Status("active") \in Lines
  BY <1>1, LinesTyped DEF Statuses
<1>5. \/ Wrote(<<Reply("ok", t), Started(t), Status("active")>>)
      \/ Wrote(<<Status("active"), Started(t), Reply("ok", t)>>)
  <2> DEFINE l == <<Reply("ok", t), Started(t), Status("active")>>
             k == <<Status("active"), Started(t), Reply("ok", t)>>
  <2>1. l \in Seq(Lines) /\ k \in Seq(Lines)
    BY <1>4
  <2>2. Writes(l) \/ Writes(k)
    BY <1>3
  <2> HIDE DEF l, k
  <2>3. Wrote(l) \/ Wrote(k)
    BY <2>1, <2>2, Zenon DEF Writes, Wrote
  <2>4. QED
    BY <2>3 DEF l, k
<1>6. QED
  BY <1>1, <1>2, <1>5, Zenon DEF t

LEMMA StartTurnTyped == ASSUME Typed, StartTurn PROVE Typed'
<1> DEFINE t == codex.used + 1
<1>1. t \in Turns /\ t \in 0 .. MaxTurns /\ codex' = [codex EXCEPT !.turn = t, !.used = t]
  <2>1. t \in Turns /\ codex' = [codex EXCEPT !.turn = t, !.used = t]
    BY StartTurnWrites
  <2>2. QED
    BY <2>1, SeatConstantsOK
<1>2. out' \in Seq(Lines)
  BY StartTurnWrites, WroteTyped
<1>3. seat' \in Seats
  BY ServeTyped DEF StartTurn
<1>4. Shows(t)
  BY DEF StartTurn
<1> HIDE DEF t
<1>5. shown' \in [Msgs -> SUBSET Turns]
  BY <1>1, <1>4, ShowsTyped
<1>6. codex' \in [turn : Turns \cup {NoTurn}, used : 0 .. MaxTurns, broken : BOOLEAN]
  BY <1>1 DEF Typed
<1>7. QED
  BY <1>2, <1>3, <1>5, <1>6 DEF Typed, StartTurn, wrapperVars, leaseVars

LEMMA RequestsWrite ==
    ASSUME Typed
    PROVE  /\ Steer => codex.turn \in Turns /\ Wrote(<<Reply("ok", codex.turn)>>)
           /\ RefuseSteer => Wrote(<<Reply("race", NoTurn)>>)
           /\ RefuseRequest => Wrote(<<Reply("failed", NoTurn)>>)
<1>1. Steer => codex.turn \in Turns
  <2>1. seat.flight \in Flights /\ codex.turn \in Turns \cup {NoTurn}
    BY DEF Typed, Seats
  <2>2. Steer => /\ codex.turn = seat.flight.turn
                 /\ seat.flight.at = "sent" /\ seat.flight.ask = "steer"
    BY DEF Steer, Asked
  <2>3. QED
    BY <2>1, <2>2 DEF Flights
<1>2. QED
  BY <1>1, LinesTyped DEF Steer, RefuseSteer, RefuseRequest, Writes, Wrote

LEMMA RequestsTyped ==
    ASSUME Typed, Steer \/ RefuseSteer \/ RefuseRequest PROVE Typed'
<1>1. out' \in Seq(Lines)
  BY RequestsWrite, WroteTyped
<1>2. seat' \in Seats
  BY ServeTyped DEF Steer, RefuseSteer, RefuseRequest
<1>3. shown' \in [Msgs -> SUBSET Turns]
  BY RequestsWrite, ShowsTyped DEF Steer, RefuseSteer, RefuseRequest, historyVars, Typed
<1>4. errors' \in 0 .. MaxErrors
  BY SeatConstantsOK DEF Typed, Steer, RefuseSteer, RefuseRequest
<1>5. UNCHANGED <<stream, wrapperVars, stage, codex, spawns, ends, actedIn, leaseVars>>
  BY DEF Steer, RefuseSteer, RefuseRequest, historyVars
<1>6. QED
  BY <1>1, <1>2, <1>3, <1>4, <1>5 DEF Typed, wrapperVars, leaseVars

LEMMA EitherWrote ==
    ASSUME NEW a \in Lines, NEW b \in Lines, EitherOrder(a, b)
    PROVE  Wrote(<<a, b>>) \/ Wrote(<<b, a>>)
<1>1. <<a, b>> \in Seq(Lines) /\ <<b, a>> \in Seq(Lines)
  OBVIOUS
<1>2. QED
  BY <1>1, Zenon DEF EitherOrder, Writes, Wrote

(* How a turn ends, and what else the app-server says of itself.           *)
LEMMA EndsWrite ==
    ASSUME Typed, EndTurn \/ FailTurn
    PROVE  /\ codex.turn \in Turns
           /\ codex'.turn = NoTurn /\ codex'.used = codex.used
           /\ codex' \in [turn : Turns \cup {NoTurn}, used : 0 .. MaxTurns,
                          broken : BOOLEAN]
           /\ \E how \in {"completed", "failed"}, s \in {"idle", "systemError"} :
                 /\ how = "failed" => ends' = [ends EXCEPT ![codex.turn] = "failed"]
                 /\ how = "completed" => ends' = [ends EXCEPT ![codex.turn] = "well"]
                 /\ \/ Wrote(<<Completed(codex.turn, how), Status(s)>>)
                    \/ Wrote(<<Status(s), Completed(codex.turn, how)>>)
<1>1. codex.turn \in Turns
  BY DEF Typed, EndTurn, FailTurn
<1>2. /\ codex'.turn = NoTurn /\ codex'.used = codex.used
      /\ codex' \in [turn : Turns \cup {NoTurn}, used : 0 .. MaxTurns, broken : BOOLEAN]
  BY DEF Typed, EndTurn, FailTurn
<1>3. \A how \in {"completed", "failed"}, s \in {"idle", "systemError"} :
          /\ Completed(codex.turn, how) \in Lines /\ Status(s) \in Lines
  BY <1>1, LinesTyped DEF Statuses
<1>4. CASE EndTurn
  <2>1. EitherOrder(Completed(codex.turn, "completed"), Status("idle"))
        /\ ends' = [ends EXCEPT ![codex.turn] = "well"]
    BY <1>4 DEF EndTurn
  <2>2. \/ Wrote(<<Completed(codex.turn, "completed"), Status("idle")>>)
        \/ Wrote(<<Status("idle"), Completed(codex.turn, "completed")>>)
    BY <1>3, <2>1, EitherWrote
  <2>3. QED
    BY <1>1, <1>2, <2>1, <2>2
<1>5. CASE FailTurn
  <2>1. PICK s \in {"idle", "systemError"} :
            EitherOrder(Completed(codex.turn, "failed"), Status(s))
    BY <1>5 DEF FailTurn
  <2>2. ends' = [ends EXCEPT ![codex.turn] = "failed"]
    BY <1>5 DEF FailTurn
  <2>3. \/ Wrote(<<Completed(codex.turn, "failed"), Status(s)>>)
        \/ Wrote(<<Status(s), Completed(codex.turn, "failed")>>)
    BY <1>3, <2>1, EitherWrote
  <2>4. QED
    BY <1>1, <1>2, <2>2, <2>3
<1>6. QED
  BY <1>4, <1>5

LEMMA InterruptWrites ==
    ASSUME Typed, Interrupt
    PROVE  /\ codex'.turn = NoTurn /\ codex'.used = codex.used
           /\ codex' \in [turn : Turns \cup {NoTurn}, used : 0 .. MaxTurns,
                          broken : BOOLEAN]
           /\ \/ /\ codex.turn = NoTurn /\ ends' = ends
                 /\ Wrote(<<Line("interrupted")>>)
              \/ /\ codex.turn \in Turns
                 /\ ends' = [ends EXCEPT ![codex.turn] = "well"]
                 /\ \/ Wrote(<<Completed(codex.turn, "interrupted"), Line("interrupted")>>)
                    \/ Wrote(<<Line("interrupted"), Completed(codex.turn, "interrupted")>>)
<1>1. /\ codex'.turn = NoTurn /\ codex'.used = codex.used
      /\ codex' \in [turn : Turns \cup {NoTurn}, used : 0 .. MaxTurns, broken : BOOLEAN]
  BY DEF Typed, Interrupt
<1>2. CASE codex.turn = NoTurn
  <2>1. Writes(<<Line("interrupted")>>) /\ ends' = ends
    BY <1>2 DEF Interrupt
  <2>2. Wrote(<<Line("interrupted")>>)
    BY <2>1, LinesTyped DEF Writes, Wrote
  <2>3. QED
    BY <1>1, <1>2, <2>1, <2>2
<1>3. CASE codex.turn # NoTurn
  <2>1. /\ EitherOrder(Completed(codex.turn, "interrupted"), Line("interrupted"))
        /\ ends' = [ends EXCEPT ![codex.turn] = "well"]
    BY <1>3 DEF Interrupt
  <2>2. codex.turn \in Turns
    BY <1>3 DEF Typed
  <2>3. \/ Wrote(<<Completed(codex.turn, "interrupted"), Line("interrupted")>>)
        \/ Wrote(<<Line("interrupted"), Completed(codex.turn, "interrupted")>>)
    <3>1. Completed(codex.turn, "interrupted") \in Lines /\ Line("interrupted") \in Lines
      BY <2>2, LinesTyped
    <3>2. QED
      BY <2>1, <3>1, EitherWrote
  <2>4. QED
    BY <1>1, <2>1, <2>2, <2>3
<1>4. QED
  BY <1>2, <1>3

LEMMA NoticesWrite ==
    ASSUME Typed
    PROVE  /\ UseTool => codex.turn \in Turns /\ Wrote(<<UsedTool(codex.turn)>>)
           /\ ReportError => Wrote(<<Line("error")>>)
           /\ Recover => Wrote(<<Status("idle")>>)
<1>1. UseTool => codex.turn \in Turns
  BY DEF UseTool
<1>2. QED
  BY <1>1, LinesTyped DEF UseTool, ReportError, Recover, Writes, Wrote, Statuses

LEMMA TurnsTyped ==
    ASSUME Typed, EndTurn \/ FailTurn \/ Interrupt PROVE Typed'
<1>1. out' \in Seq(Lines)
  BY EndsWrite, InterruptWrites, WroteTyped
<1>2. codex' \in [turn : Turns \cup {NoTurn}, used : 0 .. MaxTurns, broken : BOOLEAN]
  BY EndsWrite, InterruptWrites
<1>3. ends' \in [Turns -> {"none", "well", "failed"}]
  BY DEF Typed, EndTurn, FailTurn, Interrupt
<1>4. errors' \in 0 .. MaxErrors
  <2>1. errors' = errors \/ (errors < MaxErrors /\ errors' = errors + 1)
    BY DEF EndTurn, FailTurn, Interrupt
  <2>2. errors \in 0 .. MaxErrors
    BY DEF Typed
  <2>3. QED
    BY <2>1, <2>2, SeatConstantsOK
<1>7. stage' \in Stages
  BY DEF Typed, EndTurn, FailTurn, Interrupt, Stages
<1>5. UNCHANGED <<stream, wrapperVars, seat, spawns, shown, actedIn, leaseVars>>
  BY DEF EndTurn, FailTurn, Interrupt
<1>6. QED
  BY <1>1, <1>2, <1>3, <1>4, <1>5, <1>7 DEF Typed, wrapperVars, leaseVars

LEMMA NoticesTyped ==
    ASSUME Typed, UseTool \/ ReportError \/ Recover PROVE Typed'
<1>1. out' \in Seq(Lines)
  BY NoticesWrite, WroteTyped
<1>2. codex' \in [turn : Turns \cup {NoTurn}, used : 0 .. MaxTurns, broken : BOOLEAN]
  BY DEF Typed, UseTool, ReportError, Recover
<1>3. errors' \in 0 .. MaxErrors /\ actedIn' \subseteq Turns
  BY SeatConstantsOK DEF Typed, UseTool, ReportError, Recover, historyVars
<1>4. UNCHANGED <<stream, wrapperVars, seat, stage, spawns, shown, ends, leaseVars>>
  BY DEF UseTool, ReportError, Recover, historyVars
<1>5. QED
  BY <1>1, <1>2, <1>3, <1>4 DEF Typed, wrapperVars, leaseVars

LEMMA TypedStep == Typed /\ OneReply /\ [Next]_vars => Typed'
<1> SUFFICES ASSUME Typed, OneReply, [Next]_vars PROVE Typed'
  OBVIOUS
<1>1. CASE UNCHANGED vars
  BY <1>1 DEF Typed, vars, wrapperVars, historyVars, leaseVars
<1>2. CASE Next
  BY <1>2, ConnectionTyped, ForwardTyped, SpawnTyped, StopTyped, CloseTyped,
     ReadLineTyped, TasksTyped, StartTurnTyped, RequestsTyped, TurnsTyped,
     NoticesTyped DEF Next
<1>3. QED
  BY <1>1, <1>2

-----------------------------------------------------------------------------
(* What the parts of the sink leave of a plan.                             *)

SameTurns(s, s2) ==
    s2.awaiting = s.awaiting /\ s2.held = s.held /\ s2.turn = s.turn
SameLate(p, q) == q.late = p.late

(* The buffer stays since there is nobody to give it to; or it is deferred;*)
(* or it is what the next request asks for.                                *)
Drains(s, n, s2, n2) ==
    \/ /\ s2.buffer = s.buffer /\ s2.flight = s.flight /\ n2 = n
       /\ \/ s.buffer = <<>> \/ s.status = "notLoaded"
          \/ s.status = "active" /\ s.turn = NoTurn
    \/ /\ s.buffer # <<>> /\ s.status = "systemError"
       /\ s2.buffer = <<>> /\ s2.flight = s.flight
       /\ n2 = PerformAll(n, SettleEach(s.buffer, "deferred"))
    \/ /\ s.buffer # <<>> /\ s.status \in {"idle", "active"}
       /\ s2.buffer = <<>> /\ n2 = n
       /\ s2.flight.at = "sent" /\ s2.flight.events = s.buffer
       /\ s2.flight.turn \in {NoTurn, s.turn}
       /\ s2.flight.ask = "steer" => s2.flight.turn = s.turn

LEMMA DrainedIs ==
    ASSUME NEW p \in Plans
    PROVE  LET q == Drained(p)
           IN  /\ SameTurns(p.seat, q.seat) /\ SameLate(p, q)
               /\ q.seat.status = p.seat.status
               /\ q.seat.timer = p.seat.timer /\ q.seat.waiting = p.seat.waiting
               /\ Drains(p.seat, p.net, q.seat, q.net)
<1> DEFINE b == p.seat.buffer
           e == [p EXCEPT !.seat.buffer = <<>>]
<1>1. p.seat \in Seats /\ b \in Seq(Receipts) /\ <<>> \in Seq(Receipts)
      /\ p.seat.status \in Statuses /\ b \o <<>> = b
  BY ConcatEmptySeq DEF Plans, Seats
<1>2. /\ e.seat = [p.seat EXCEPT !.buffer = <<>>] /\ e.net = p.net
      /\ e.late = p.late /\ e \in Plans
  BY <1>1 DEF Plans, Seats
<1>3. Drained(p) = IF b = <<>> THEN p ELSE Dispatched(e, b)
  BY DEF Drained
<1> HIDE DEF b, e
<1>4. /\ SameTurns(p.seat, e.seat) /\ e.seat.status = p.seat.status
      /\ e.seat.timer = p.seat.timer /\ e.seat.waiting = p.seat.waiting
      /\ e.seat.flight = p.seat.flight /\ e.seat.buffer = <<>> /\ e.seat \in Seats
  BY <1>1, <1>2 DEF Seats, SameTurns, Plans
<1>5. CASE b = <<>>
  BY <1>3, <1>5 DEF SameTurns, SameLate, Drains, b
<1>6. ASSUME b # <<>>, p.seat.status = "notLoaded"
                         \/ (p.seat.status = "active" /\ p.seat.turn = NoTurn)
      PROVE  /\ Drained(p).seat = [e.seat EXCEPT !.buffer = b]
             /\ Drained(p).net = p.net /\ SameLate(p, Drained(p))
  <2>1. Drained(p) = Rebuffered(e, b)
    BY <1>3, <1>4, <1>6 DEF Dispatched, SameTurns
  <2>2. Rebuffered(e, b) = [e EXCEPT !.seat.buffer = b]
    BY <1>1, <1>2, <1>4 DEF Rebuffered
  <2>3. QED
    BY <1>2, <2>1, <2>2 DEF Plans, SameLate
<1>7. ASSUME b # <<>>, p.seat.status = "notLoaded"
                         \/ (p.seat.status = "active" /\ p.seat.turn = NoTurn)
      PROVE  /\ SameTurns(p.seat, Drained(p).seat)
             /\ Drained(p).seat.status = p.seat.status
             /\ Drained(p).seat.timer = p.seat.timer
             /\ Drained(p).seat.waiting = p.seat.waiting
             /\ Drains(p.seat, p.net, Drained(p).seat, Drained(p).net)
  BY <1>4, <1>6, <1>7 DEF SameTurns, Drains, b, Seats
<1>8. ASSUME b # <<>>, p.seat.status = "systemError"
      PROVE  /\ Drained(p).seat = e.seat /\ SameLate(p, Drained(p))
             /\ Drained(p).net = PerformAll(p.net, SettleEach(b, "deferred"))
  <2>1. Drained(p) = Deferred(e, b)
    BY <1>3, <1>4, <1>8 DEF Dispatched
  <2>2. SettleEach(b, "deferred") \in Seq(Acts)
    BY <1>1, ActsTyped
  <2>3. Deferred(e, b) = [e EXCEPT !.net = PerformAll(e.net, SettleEach(b, "deferred"))]
    BY <1>2, <2>2, DoingTyped DEF Deferred
  <2>4. QED
    BY <1>2, <2>1, <2>3 DEF Plans, SameLate
<1>9. ASSUME b # <<>>, NEW ask \in {"start", "steer"}, NEW t \in {NoTurn, p.seat.turn},
             ask = "steer" => t = p.seat.turn, p.seat.status \in {"idle", "active"},
             Drained(p) = Asking(e, ask, t, b, FALSE)
      PROVE  /\ SameTurns(p.seat, Drained(p).seat) /\ SameLate(p, Drained(p))
             /\ Drained(p).seat.status = p.seat.status
             /\ Drained(p).seat.timer = p.seat.timer
             /\ Drained(p).seat.waiting = p.seat.waiting
             /\ Drains(p.seat, p.net, Drained(p).seat, Drained(p).net)
  <2> DEFINE f == [ask |-> ask, turn |-> t, events |-> b, again |-> FALSE,
                   at |-> "sent", says |-> "none"]
  <2>1. f.at = "sent" /\ f.events = b /\ f.turn = t /\ f.ask = ask
    OBVIOUS
  <2>2. Drained(p) = [e EXCEPT !.seat.flight = f]
    BY <1>9 DEF Asking
  <2> HIDE DEF f
  <2>3. /\ Drained(p).seat = [e.seat EXCEPT !.flight = f]
        /\ Drained(p).net = p.net /\ SameLate(p, Drained(p))
    BY <1>2, <2>2 DEF Plans, SameLate
  <2>4. QED
    BY <1>4, <1>9, <2>1, <2>3 DEF SameTurns, Drains, b, Seats
<1>10. CASE b # <<>> /\ p.seat.status = "systemError"
  BY <1>4, <1>8, <1>10 DEF Drains, SameTurns, b
<1>11. CASE b # <<>> /\ p.seat.status = "idle"
  <2>1. Drained(p) = Asking(e, "start", NoTurn, b, FALSE)
    BY <1>3, <1>4, <1>11 DEF Dispatched
  <2>2. QED
    BY <1>9, <1>11, <2>1
<1>12. CASE b # <<>> /\ p.seat.status = "active" /\ p.seat.turn # NoTurn
  <2>1. Drained(p) = Asking(e, "steer", p.seat.turn, b, FALSE)
    BY <1>3, <1>4, <1>12 DEF Dispatched, SameTurns
  <2>2. QED
    BY <1>9, <1>12, <2>1
<1>13. CASE b # <<>> /\ (p.seat.status = "notLoaded"
                         \/ (p.seat.status = "active" /\ p.seat.turn = NoTurn))
  BY <1>6, <1>7, <1>13
<1>14. QED
  BY <1>1, <1>5, <1>10, <1>11, <1>12, <1>13 DEF Statuses

LEMMA FlushedIs ==
    ASSUME NEW p \in Plans
    PROVE  LET q == Flushed(p)
           IN  /\ SameTurns(p.seat, q.seat) /\ SameLate(p, q)
               /\ q.seat.status = p.seat.status /\ q.seat.timer = FALSE
               /\ \/ /\ p.seat.buffer # <<>> /\ p.seat.flight.at # "none"
                     /\ q.seat.waiting = TRUE /\ q.net = p.net
                     /\ q.seat.buffer = p.seat.buffer
                     /\ q.seat.flight = p.seat.flight
                  \/ /\ p.seat.buffer = <<>> \/ p.seat.flight.at = "none"
                     /\ q.seat.waiting = p.seat.waiting
                     /\ Drains(p.seat, p.net, q.seat, q.net)
<1> DEFINE e == [p EXCEPT !.seat.timer = FALSE]
<1>1. /\ e.seat = [p.seat EXCEPT !.timer = FALSE] /\ e.net = p.net
      /\ SameLate(p, e) /\ e \in Plans /\ p.seat \in Seats
  BY DEF Plans, Seats, SameLate
<1>2. Flushed(p) = IF p.seat.buffer # <<>> /\ p.seat.flight.at # "none"
                   THEN [e EXCEPT !.seat.waiting = TRUE] ELSE Drained(e)
  BY DEF Flushed
<1> HIDE DEF e
<1>3. /\ SameTurns(p.seat, e.seat) /\ e.seat.status = p.seat.status
      /\ e.seat.timer = FALSE /\ e.seat.waiting = p.seat.waiting
      /\ e.seat.flight = p.seat.flight /\ e.seat.buffer = p.seat.buffer
      /\ e.seat \in Seats
  BY <1>1 DEF Seats, SameTurns, Plans
<1>4. CASE p.seat.buffer # <<>> /\ p.seat.flight.at # "none"
  <2>1. /\ Flushed(p).seat = [e.seat EXCEPT !.waiting = TRUE]
        /\ Flushed(p).net = e.net /\ SameLate(e, Flushed(p))
    BY <1>1, <1>2, <1>4 DEF Plans, SameLate
  <2>2. QED
    BY <1>1, <1>3, <1>4, <2>1 DEF SameTurns, SameLate, Seats
<1>5. CASE ~(p.seat.buffer # <<>> /\ p.seat.flight.at # "none")
  <2>1. Flushed(p) = Drained(e)
    BY <1>2, <1>5
  <2>2. /\ SameTurns(e.seat, Drained(e).seat) /\ SameLate(e, Drained(e))
        /\ Drained(e).seat.status = e.seat.status
        /\ Drained(e).seat.timer = e.seat.timer
        /\ Drained(e).seat.waiting = e.seat.waiting
        /\ Drains(e.seat, e.net, Drained(e).seat, Drained(e).net)
    BY <1>1, DrainedIs
  <2>3. QED
    BY <1>1, <1>3, <1>5, <2>1, <2>2 DEF SameTurns, SameLate, Drains
<1>6. QED
  BY <1>4, <1>5

LEMMA FinishedIs ==
    ASSUME NEW p \in Plans
    PROVE  LET q == Finished(p)
           IN  /\ SameTurns(p.seat, q.seat) /\ SameLate(p, q)
               /\ q.seat.status = p.seat.status /\ q.seat.timer = p.seat.timer
               /\ q.seat.waiting = FALSE
               /\ \/ /\ ~p.seat.waiting /\ q.net = p.net
                     /\ q.seat.buffer = p.seat.buffer
                     /\ q.seat.flight = NoFlight
                  \/ /\ p.seat.waiting
                     /\ Drains([p.seat EXCEPT !.flight = NoFlight], p.net, q.seat, q.net)
<1> DEFINE e == [p EXCEPT !.seat.flight = NoFlight, !.seat.waiting = FALSE]
<1>1. /\ e.seat = [p.seat EXCEPT !.flight = NoFlight, !.waiting = FALSE]
      /\ e.net = p.net /\ SameLate(p, e) /\ p.seat \in Seats /\ e.seat \in Seats
  BY NewTyped DEF Plans, Seats, SameLate
<1>2. e \in Plans
  BY <1>1 DEF Plans
<1>3. Finished(p) = IF p.seat.waiting THEN Drained(e) ELSE e
  BY DEF Finished
<1> HIDE DEF e
<1>4. /\ SameTurns(p.seat, e.seat) /\ e.seat.status = p.seat.status
      /\ e.seat.timer = p.seat.timer /\ e.seat.waiting = FALSE
      /\ e.seat.flight = NoFlight /\ e.seat.buffer = p.seat.buffer
  BY <1>1 DEF Seats, SameTurns
<1>5. CASE ~p.seat.waiting
  BY <1>1, <1>3, <1>4, <1>5
<1>6. CASE p.seat.waiting
  <2>1. Finished(p) = Drained(e)
    BY <1>3, <1>6
  <2>2. /\ SameTurns(e.seat, Drained(e).seat) /\ SameLate(e, Drained(e))
        /\ Drained(e).seat.status = e.seat.status
        /\ Drained(e).seat.timer = e.seat.timer
        /\ Drained(e).seat.waiting = e.seat.waiting
        /\ Drains(e.seat, e.net, Drained(e).seat, Drained(e).net)
    BY <1>2, DrainedIs
  <2> DEFINE s == [p.seat EXCEPT !.flight = NoFlight]
  <2>3. /\ s.buffer = e.seat.buffer /\ s.flight = e.seat.flight
        /\ s.status = e.seat.status /\ s.turn = e.seat.turn
    BY <1>1, <1>4 DEF Seats, SameTurns
  <2> HIDE DEF s
  <2>4. Drains(s, p.net, Finished(p).seat, Finished(p).net)
    BY <1>1, <2>1, <2>2, <2>3 DEF Drains
  <2>5. QED
    BY <1>1, <1>4, <1>6, <2>1, <2>2, <2>4 DEF SameTurns, SameLate, s
<1>7. QED
  BY <1>5, <1>6

SameBuffering(s, s2) ==
    /\ s2.buffer = s.buffer /\ s2.timer = s.timer /\ s2.flight = s.flight
    /\ s2.waiting = s.waiting /\ s2.status = s.status

StartedActs(s, t) ==
    <<Condition("ready"), Turn(t, "started")>> \o AcceptEach(s.awaiting[t])

LEMMA OnStartedIs ==
    ASSUME NEW p \in Plans, NEW t \in Turns
    PROVE  LET q == OnStarted(p, t)
           IN  /\ SameBuffering(p.seat, q.seat) /\ SameLate(p, q)
               /\ q.seat.turn = t
               /\ q.seat.awaiting = [p.seat.awaiting EXCEPT ![t] = <<>>]
               /\ q.seat.held = IF p.seat.awaiting[t] = <<>> THEN p.seat.held
                                ELSE [p.seat.held EXCEPT ![t] = p.seat.awaiting[t]]
               /\ q.net = PerformAll(p.net, StartedActs(p.seat, t))
               /\ StartedActs(p.seat, t) \in Seq(Acts)
<1> DEFINE b == [p EXCEPT !.seat.turn = t]
           acts == StartedActs(p.seat, t)
           q == Doing(b, acts)
<1>1. /\ b.seat = [p.seat EXCEPT !.turn = t] /\ b.net = p.net /\ SameLate(p, b)
      /\ p.seat \in Seats /\ b.seat \in Seats
  BY DEF Plans, Seats, SameLate
<1>2. b \in Plans
  BY <1>1 DEF Plans
<1>3. acts \in Seq(Acts)
  <2>1. <<Condition("ready"), Turn(t, "started")>> \in Seq(Acts)
    BY ActsTyped
  <2>2. p.seat.awaiting[t] \in Seq(Receipts)
    BY DEF Plans, Seats
  <2>3. AcceptEach(p.seat.awaiting[t]) \in Seq(Acts)
    BY <2>2, ActsTyped
  <2>4. QED
    BY <2>1, <2>3, ConcatProperties DEF StartedActs
<1> DEFINE w == p.seat.awaiting[t]
<1>4. OnStarted(p, t) = IF w = <<>> THEN q
        ELSE [q EXCEPT !.seat.held[t] = w, !.seat.awaiting[t] = <<>>]
  BY DEF OnStarted, StartedActs
<1> HIDE DEF acts, b
<1>5. /\ q.seat = b.seat /\ q.net = PerformAll(b.net, acts) /\ SameLate(b, q)
      /\ q \in Plans
  <2>1. q \in Plans /\ q = [b EXCEPT !.net = PerformAll(b.net, acts)]
    BY <1>2, <1>3, DoingTyped
  <2>2. QED
    BY <1>2, <2>1 DEF Plans, SameLate
<1> HIDE DEF q
<1>6. CASE w = <<>>
  <2>1. OnStarted(p, t) = q
    BY <1>4, <1>6
  <2>2. p.seat.awaiting = [p.seat.awaiting EXCEPT ![t] = <<>>]
    BY <1>6, <1>1 DEF Seats
  <2>3. q.seat = [p.seat EXCEPT !.turn = t]
    BY <1>1, <1>5
  <2>4. QED
    BY <1>1, <1>3, <1>5, <1>6, <2>1, <2>2, <2>3 DEF Seats, SameBuffering, SameLate, acts
<1>7. CASE w # <<>>
  <2> DEFINE z == OnStarted(p, t)
  <2>1. /\ z.seat = [q.seat EXCEPT !.held[t] = w, !.awaiting[t] = <<>>]
        /\ z.net = q.net /\ SameLate(q, z)
    BY <1>4, <1>5, <1>7 DEF Plans, SameLate
  <2> HIDE DEF z
  <2>2. q.seat = [p.seat EXCEPT !.turn = t]
    BY <1>1, <1>5
  <2>3. /\ SameBuffering(p.seat, z.seat) /\ z.seat.turn = t
        /\ z.seat.awaiting = [p.seat.awaiting EXCEPT ![t] = <<>>]
        /\ z.seat.held = [p.seat.held EXCEPT ![t] = w]
    BY <1>1, <2>1, <2>2 DEF Seats, SameBuffering
  <2>4. QED
    BY <1>1, <1>3, <1>5, <1>7, <2>1, <2>3 DEF SameLate, acts, z
<1>8. QED
  BY <1>6, <1>7

CompletedActs(s, t, how) ==
    <<Turn(t, IF how = "failed" THEN "failed" ELSE "completed")>>
      \o SettleEach(s.held[t], IF how = "failed" THEN "deferred" ELSE "handled")

LEMMA OnCompletedIs ==
    ASSUME NEW p \in Plans, NEW t \in Turns, NEW how
    PROVE  LET q == OnCompleted(p, t, how)
           IN  /\ SameBuffering(p.seat, q.seat) /\ SameLate(p, q)
               /\ q.seat.turn = NoTurn /\ q.seat.awaiting = p.seat.awaiting
               /\ q.seat.held = [p.seat.held EXCEPT ![t] = <<>>]
               /\ q.net = PerformAll(p.net, CompletedActs(p.seat, t, how))
               /\ CompletedActs(p.seat, t, how) \in Seq(Acts)
<1> DEFINE phase == IF how = "failed" THEN "failed" ELSE "completed"
           as == IF how = "failed" THEN "deferred" ELSE "handled"
           acts == CompletedActs(p.seat, t, how)
           q == Doing(p, acts)
           z == OnCompleted(p, t, how)
<1>1. p.seat.held[t] \in Seq(Receipts) /\ p.seat \in Seats
  BY DEF Plans, Seats
<1>2. as \in Outcomes \cup {"deferred"} /\ phase \in {"started", "completed", "failed"}
  BY DEF Outcomes
<1>3. acts = <<Turn(t, phase)>> \o SettleEach(p.seat.held[t], as)
  BY DEF CompletedActs
<1> HIDE DEF phase, as
<1>4. acts \in Seq(Acts)
  <2>1. Turn(t, phase) \in Acts /\ SettleEach(p.seat.held[t], as) \in Seq(Acts)
    BY <1>1, <1>2, ActsTyped
  <2>2. <<Turn(t, phase)>> \in Seq(Acts)
    BY <2>1
  <2>3. QED
    BY <1>3, <2>1, <2>2, ConcatProperties
<1>5. z = [q EXCEPT !.seat.held[t] = <<>>, !.seat.turn = NoTurn]
  BY DEF OnCompleted, CompletedActs
<1> HIDE DEF acts, z
<1>6. q.seat = p.seat /\ q.net = PerformAll(p.net, acts) /\ SameLate(p, q) /\ q \in Plans
  <2>1. q \in Plans /\ q = [p EXCEPT !.net = PerformAll(p.net, acts)]
    BY <1>4, DoingTyped
  <2>2. QED
    BY <2>1 DEF Plans, SameLate
<1> HIDE DEF q
<1>7. /\ z.seat = [p.seat EXCEPT !.held[t] = <<>>, !.turn = NoTurn]
      /\ z.net = q.net /\ SameLate(q, z)
  BY <1>5, <1>6 DEF Plans, SameLate
<1>8. /\ SameBuffering(p.seat, z.seat) /\ z.seat.turn = NoTurn
      /\ z.seat.awaiting = p.seat.awaiting
      /\ z.seat.held = [p.seat.held EXCEPT ![t] = <<>>]
  BY <1>1, <1>7 DEF Seats, SameBuffering
<1>9. QED
  BY <1>4, <1>6, <1>7, <1>8 DEF SameLate, acts, z

LEMMA OnActedIs ==
    ASSUME NEW p \in Plans, NEW t \in Turns
    PROVE  LET q == OnActed(p, t)
           IN  /\ SameBuffering(p.seat, q.seat) /\ SameLate(p, q)
               /\ q.seat.turn = p.seat.turn /\ q.seat.awaiting = p.seat.awaiting
               /\ q.seat.held = [p.seat.held EXCEPT ![t] = <<>>]
               /\ q.net = PerformAll(p.net, SettleEach(p.seat.held[t], "acted"))
               /\ SettleEach(p.seat.held[t], "acted") \in Seq(Acts)
<1> DEFINE acts == SettleEach(p.seat.held[t], "acted")
           q == Doing(p, acts)
           z == OnActed(p, t)
<1>1. p.seat.held[t] \in Seq(Receipts) /\ p.seat \in Seats
  BY DEF Plans, Seats
<1>2. acts \in Seq(Acts)
  BY <1>1, ActsTyped DEF Outcomes
<1>3. z = [q EXCEPT !.seat.held[t] = <<>>]
  BY DEF OnActed
<1> HIDE DEF acts, z
<1>4. q.seat = p.seat /\ q.net = PerformAll(p.net, acts) /\ SameLate(p, q) /\ q \in Plans
  <2>1. q \in Plans /\ q = [p EXCEPT !.net = PerformAll(p.net, acts)]
    BY <1>2, DoingTyped
  <2>2. QED
    BY <2>1 DEF Plans, SameLate
<1> HIDE DEF q
<1>5. /\ z.seat = [p.seat EXCEPT !.held[t] = <<>>]
      /\ z.net = q.net /\ SameLate(q, z)
  BY <1>3, <1>4 DEF Plans, SameLate
<1>6. /\ SameBuffering(p.seat, z.seat) /\ z.seat.turn = p.seat.turn
      /\ z.seat.awaiting = p.seat.awaiting
      /\ z.seat.held = [p.seat.held EXCEPT ![t] = <<>>]
  BY <1>1, <1>5 DEF Seats, SameBuffering
<1>7. QED
  BY <1>2, <1>4, <1>5, <1>6 DEF SameLate, acts, z

LEMMA DegradedIs ==
    ASSUME NEW p \in Plans
    PROVE  LET q == Doing(p, <<Condition("degraded")>>)
           IN  /\ q.seat = p.seat /\ SameLate(p, q)
               /\ q.net = PerformAll(p.net, <<Condition("degraded")>>)
<1>1. <<Condition("degraded")>> \in Seq(Acts)
  BY ActsTyped
<1> DEFINE acts == <<Condition("degraded")>>
<1> HIDE DEF acts
<1>2. Doing(p, acts) = [p EXCEPT !.net = PerformAll(p.net, acts)]
  BY <1>1, DoingTyped DEF acts
<1>3. QED
  BY <1>2 DEF Plans, SameLate, acts

(* A change of status, and then a flush.                                   *)
LEMMA OnStatusIs ==
    ASSUME NEW p \in Plans, NEW s \in Statuses \ {"notLoaded"}
    PROVE  \E e \in Plans :
              /\ OnStatus(p, s) = Flushed(e)
              /\ e.seat = [p.seat EXCEPT !.status = s] /\ SameLate(p, e)
              /\ e.net = p.net \/ e.net = PerformAll(p.net, <<Condition("degraded")>>)
<1> DEFINE q == [p EXCEPT !.seat.status = s]
           d == Doing(q, <<Condition("degraded")>>)
<1>1. q.seat = [p.seat EXCEPT !.status = s] /\ q.net = p.net /\ SameLate(p, q)
  BY DEF Plans, SameLate
<1>2. q \in Plans
  <2>1. [p.seat EXCEPT !.status = s] \in Seats
    BY DEF Plans, Seats
  <2>2. QED
    BY <2>1 DEF Plans
<1>3. OnStatus(p, s) = Flushed(IF s = "systemError" THEN d ELSE q)
  BY DEF OnStatus
<1> HIDE DEF q
<1>4. /\ d \in Plans /\ d.seat = q.seat /\ SameLate(q, d)
      /\ d.net = PerformAll(q.net, <<Condition("degraded")>>)
  BY <1>2, DegradedTyped, DegradedIs
<1> HIDE DEF d
<1>5. CASE s = "systemError"
  BY <1>1, <1>3, <1>4, <1>5 DEF SameLate
<1>6. CASE s # "systemError"
  BY <1>1, <1>2, <1>3, <1>6
<1>7. QED
  BY <1>5, <1>6

LEMMA OnReplyIs ==
    ASSUME NEW p \in Plans, NEW l
    PROVE  LET q == OnReply(p, l)
           IN  /\ SameTurns(p.seat, q.seat) /\ SameLate(p, q) /\ q.net = p.net
               /\ q.seat.buffer = p.seat.buffer /\ q.seat.timer = p.seat.timer
               /\ q.seat.waiting = p.seat.waiting /\ q.seat.status = p.seat.status
               /\ q.seat.flight = [p.seat.flight EXCEPT
                      !.at = "answered", !.says = l.says, !.turn = l.turn]
<1> DEFINE f == [p.seat.flight EXCEPT !.at = "answered", !.says = l.says, !.turn = l.turn]
           q == OnReply(p, l)
<1>1. q = [p EXCEPT !.seat.flight = f]
  BY DEF OnReply, Plans, Seats
<1> HIDE DEF f, q
<1>2. q.seat = [p.seat EXCEPT !.flight = f] /\ q.net = p.net /\ SameLate(p, q)
      /\ p.seat \in Seats
  BY <1>1 DEF Plans, SameLate
<1>3. QED
  BY <1>2 DEF Seats, SameTurns, f, q

(* What handling a line leaves.                                            *)
LEMMA HandledIs ==
    ASSUME NEW p, NEW l \in Lines
    PROVE  /\ l.is = "reply" => Handled(p, l) = OnReply(p, l)
           /\ l.is = "started" => l.turn \in Turns /\ Handled(p, l) = OnStarted(p, l.turn)
           /\ l.is = "completed" => /\ l.turn \in Turns
                                    /\ Handled(p, l) = OnCompleted(p, l.turn, l.says)
           /\ l.is = "acted" => l.turn \in Turns /\ Handled(p, l) = OnActed(p, l.turn)
           /\ l.is = "status" => /\ l.says \in Statuses \ {"notLoaded"}
                                 /\ Handled(p, l) = OnStatus(p, l.says)
           /\ l.is = "error" => Handled(p, l) = Doing(p, <<Condition("degraded")>>)
           /\ l.is = "interrupted" => Handled(p, l) = p
           /\ l.is \in {"reply", "started", "completed", "acted", "status", "error",
                        "interrupted"}
BY DEF Handled, Lines

(* A line that is no reply and no status leaves the buffer alone.          *)
LEMMA QuietLines ==
    ASSUME NEW p \in Plans, NEW l \in Lines, l.is \notin {"reply", "status"}
    PROVE  SameBuffering(p.seat, Handled(p, l).seat)
<1>1. CASE l.is = "started"
  <2>1. l.turn \in Turns /\ Handled(p, l) = OnStarted(p, l.turn)
    BY <1>1, HandledIs
  <2>2. QED
    BY <2>1, OnStartedIs
<1>2. CASE l.is = "completed"
  <2>1. l.turn \in Turns /\ Handled(p, l) = OnCompleted(p, l.turn, l.says)
    BY <1>2, HandledIs
  <2>2. QED
    BY <2>1, OnCompletedIs
<1>3. CASE l.is = "acted"
  <2>1. l.turn \in Turns /\ Handled(p, l) = OnActed(p, l.turn)
    BY <1>3, HandledIs
  <2>2. QED
    BY <2>1, OnActedIs
<1>4. CASE l.is = "error"
  BY <1>4, HandledIs, DegradedIs DEF SameBuffering
<1>5. CASE l.is = "interrupted"
  BY <1>5, HandledIs DEF SameBuffering
<1>6. QED
  BY <1>1, <1>2, <1>3, <1>4, <1>5, HandledIs

-----------------------------------------------------------------------------
(* One reply at a time, and with it the types hold.                        *)

NoReplies(o) == \A i \in 1 .. Len(o) : o[i].is # "reply"

(* A flush starts no request while one is under way.                       *)
LEMMA FlushKeepsFlight ==
    ASSUME NEW p \in Plans, p.seat.flight.at # "none"
    PROVE  Flushed(p).seat.flight = p.seat.flight
BY FlushedIs DEF Drains

(* Only a reply moves the request on.                                      *)
LEMMA LinesKeepFlight ==
    ASSUME NEW p \in Plans, NEW l \in Lines, l.is # "reply",
           p.seat.flight.at # "none"
    PROVE  Handled(p, l).seat.flight = p.seat.flight
<1>1. CASE l.is # "status"
  BY <1>1, QuietLines DEF SameBuffering
<1>2. CASE l.is = "status"
  <2>1. /\ l.says \in Statuses \ {"notLoaded"}
        /\ Handled(p, l) = OnStatus(p, l.says)
    BY <1>2, HandledIs
  <2>2. PICK e \in Plans : /\ OnStatus(p, l.says) = Flushed(e)
                           /\ e.seat = [p.seat EXCEPT !.status = l.says]
    BY <2>1, OnStatusIs
  <2>3. e.seat.flight = p.seat.flight
    BY <2>2 DEF Plans, Seats
  <2>4. QED
    BY <2>1, <2>2, <2>3, FlushKeepsFlight
<1>3. QED
  BY <1>1, <1>2

LEMMA OneReplyRead ==
    ASSUME Typed, OneReply, ReadLine PROVE OneReply'
<1>1. /\ out \in Seq(Lines) /\ out # <<>> /\ out' = Tail(out)
      /\ Now \in Plans /\ Now.seat = seat
  BY NowTyped DEF Typed, ReadLine, Now
<1>2. /\ Tail(out) \in Seq(Lines) /\ Len(Tail(out)) = Len(out) - 1
      /\ Len(out) \in Nat /\ Len(out) >= 1
      /\ Head(out) = out[1] /\ Head(out) \in Lines
      /\ \A i \in 1 .. Len(out) - 1 : Tail(out)[i] = out[i + 1]
  BY <1>1, TailOf
<1>3. seat'.flight = Handled(Now, Head(out)).seat.flight
  BY DEF ReadLine, Become
<1> DEFINE o == Tail(out)
<1>4. \A i \in 1 .. Len(o) : /\ i + 1 \in 1 .. Len(out) /\ i + 1 # 1
                             /\ o[i] = out[i + 1]
  BY <1>2
<1>5. 1 \in 1 .. Len(out) /\ \A i \in 1 .. Len(o), j \in 1 .. Len(o) :
          j + 1 = i + 1 => j = i
  BY <1>2
<1> HIDE DEF o
<1>6. CASE out[1].is = "reply"
  <2>1. \A i \in 1 .. Len(o) : o[i].is # "reply"
    BY <1>4, <1>5, <1>6 DEF OneReply
  <2>2. QED
    BY <1>1, <2>1 DEF OneReply, o
<1>7. CASE out[1].is # "reply"
  <2>1. seat.flight.at # "none" => seat'.flight = seat.flight
    BY <1>1, <1>2, <1>3, <1>7, LinesKeepFlight
  <2>2. \A i \in 1 .. Len(o) : o[i].is = "reply" =>
            /\ seat'.flight.at = "served"
            /\ \A j \in 1 .. Len(o) : o[j].is = "reply" => j = i
    BY <1>4, <1>5, <2>1 DEF OneReply
  <2>3. QED
    BY <1>1, <2>2 DEF OneReply, o
<1>8. QED
  BY <1>6, <1>7

(* What was written is no reply, or it is the one to the request served.   *)
LEMMA OneReplyWritten ==
    ASSUME Typed, OneReply, NEW l, Wrote(l),
           \/ NoReplies(l) /\ seat'.flight = seat.flight
           \/ /\ seat.flight.at = "sent" /\ seat'.flight.at = "served"
              /\ \E k \in 1 .. Len(l) :
                    \A i \in 1 .. Len(l) : l[i].is = "reply" => i = k
    PROVE  OneReply'
<1>1. l \in Seq(Lines) /\ out \in Seq(Lines) /\ out' = out \o l
  BY DEF Typed, Wrote
<1> DEFINE o == out \o l
<1>2. /\ Len(out) \in Nat /\ Len(l) \in Nat /\ Len(o) = Len(out) + Len(l)
      /\ \A i \in 1 .. Len(out) : o[i] = out[i]
      /\ \A i \in 1 .. Len(l) : o[Len(out) + i] = l[i]
      /\ \A i \in 1 .. Len(o) : i \in 1 .. Len(out) \/ i - Len(out) \in 1 .. Len(l)
  BY <1>1, WrittenOn
<1> HIDE DEF o
<1>3. \A i \in 1 .. Len(o) :
          \/ i \in 1 .. Len(out) /\ o[i] = out[i]
          \/ i - Len(out) \in 1 .. Len(l) /\ o[i] = l[i - Len(out)]
  <2>1. TAKE i \in 1 .. Len(o)
  <2> DEFINE k == i - Len(out)
  <2>2. i = Len(out) + k /\ (i \in 1 .. Len(out) \/ k \in 1 .. Len(l))
    BY <1>2
  <2> HIDE DEF k
  <2>3. k \in 1 .. Len(l) => o[i] = l[k]
    <3>1. k \in 1 .. Len(l) => o[Len(out) + k] = l[k]
      BY <1>2
    <3>2. QED
      BY <2>2, <3>1, Zenon
  <2>4. i \in 1 .. Len(out) => o[i] = out[i]
    BY <1>2
  <2>5. \/ i \in 1 .. Len(out) /\ o[i] = out[i]
        \/ k \in 1 .. Len(l) /\ o[i] = l[k]
    BY <2>2, <2>3, <2>4
  <2>6. QED
    BY <2>5 DEF k
<1>4. CASE NoReplies(l) /\ seat'.flight = seat.flight
  <2>1. \A i \in 1 .. Len(o) : o[i].is = "reply" => i \in 1 .. Len(out) /\ o[i] = out[i]
    BY <1>3, <1>4 DEF NoReplies
  <2>2. QED
    BY <1>1, <1>4, <2>1 DEF OneReply, o
<1>5. ASSUME seat.flight.at = "sent", seat'.flight.at = "served",
             NEW k \in 1 .. Len(l),
             \A i \in 1 .. Len(l) : l[i].is = "reply" => i = k
      PROVE  OneReply'
  <2>1. \A i \in 1 .. Len(o) : o[i].is = "reply" => i - Len(out) = k
    <3>1. \A i \in 1 .. Len(out) : out[i].is # "reply"
      BY <1>5 DEF OneReply
    <3>2. TAKE i \in 1 .. Len(o)
    <3> DEFINE j == i - Len(out)
    <3>3. \/ i \in 1 .. Len(out) /\ o[i] = out[i]
          \/ j \in 1 .. Len(l) /\ o[i] = l[j]
      BY <1>3
    <3> HIDE DEF j
    <3>4. o[i].is = "reply" => j = k
      BY <1>5, <3>1, <3>3
    <3>5. QED
      BY <3>4 DEF j
  <2>2. \A i, j \in 1 .. Len(o) : i - Len(out) = k /\ j - Len(out) = k => j = i
    BY <1>2
  <2>3. QED
    BY <1>1, <1>5, <2>1, <2>2 DEF OneReply, o
<1>6. QED
  BY <1>4, <1>5

LEMMA ShortLines ==
    ASSUME NEW a, NEW b, NEW c
    PROVE  /\ Len(<<a>>) = 1 /\ <<a>>[1] = a
           /\ Len(<<a, b>>) = 2 /\ <<a, b>>[1] = a /\ <<a, b>>[2] = b
           /\ Len(<<a, b, c>>) = 3 /\ <<a, b, c>>[1] = a
           /\ <<a, b, c>>[2] = b /\ <<a, b, c>>[3] = c
OBVIOUS

LEMMA OneReplyServed ==
    ASSUME Typed, OneReply, StartTurn \/ Steer \/ RefuseSteer \/ RefuseRequest
    PROVE  OneReply'
<1>1. seat.flight.at = "sent" /\ seat'.flight.at = "served"
  <2>1. seat.flight.at = "sent" /\ seat' = [seat EXCEPT !.flight.at = "served"]
    BY DEF StartTurn, Steer, RefuseSteer, RefuseRequest, Asked, Serve
  <2>2. seat \in Seats
    BY DEF Typed
  <2>3. QED
    BY <2>1, <2>2 DEF Seats, Flights
<1>2. CASE StartTurn
  <2> DEFINE t == codex.used + 1
  <2>1. /\ t \in Turns
        /\ \/ Wrote(<<Reply("ok", t), Started(t), Status("active")>>)
           \/ Wrote(<<Status("active"), Started(t), Reply("ok", t)>>)
    BY <1>2, StartTurnWrites
  <2> HIDE DEF t
  <2>2. Started(t).is # "reply" /\ Status("active").is # "reply"
    BY DEF Started, Status, Line
  <2> DEFINE a == <<Reply("ok", t), Started(t), Status("active")>>
             b == <<Status("active"), Started(t), Reply("ok", t)>>
  <2>3. Len(a) = 3 /\ Len(b) = 3 /\ a[2].is # "reply" /\ a[3].is # "reply"
        /\ b[1].is # "reply" /\ b[2].is # "reply"
    BY <2>2
  <2>4. Wrote(a) \/ Wrote(b)
    BY <2>1
  <2> HIDE DEF a, b
  <2>5. /\ \E k \in 1 .. Len(a) : \A i \in 1 .. Len(a) : a[i].is = "reply" => i = k
        /\ \E k \in 1 .. Len(b) : \A i \in 1 .. Len(b) : b[i].is = "reply" => i = k
    <3>1. \A i \in 1 .. Len(a) : a[i].is = "reply" => i = 1
      BY <2>3
    <3>2. \A i \in 1 .. Len(b) : b[i].is = "reply" => i = 3
      BY <2>3
    <3>3. 1 \in 1 .. Len(a) /\ 3 \in 1 .. Len(b)
      BY <2>3
    <3>4. QED
      BY <3>1, <3>2, <3>3
  <2>6. QED
    BY <1>1, <2>4, <2>5, OneReplyWritten
<1>3. CASE Steer \/ RefuseSteer \/ RefuseRequest
  <2>1. PICK a : Wrote(<<a>>)
    BY <1>3, RequestsWrite
  <2> DEFINE l == <<a>>
  <2>2. Len(l) = 1
    OBVIOUS
  <2>3. Wrote(l)
    BY <2>1
  <2> HIDE DEF l
  <2>4. \E k \in 1 .. Len(l) : \A i \in 1 .. Len(l) : l[i].is = "reply" => i = k
    BY <2>2
  <2>5. QED
    BY <1>1, <2>3, <2>4, OneReplyWritten
<1>4. QED
  BY <1>2, <1>3

LEMMA OneReplyTold ==
    ASSUME Typed, OneReply,
           EndTurn \/ FailTurn \/ Interrupt \/ UseTool \/ ReportError \/ Recover
    PROVE  OneReply'
<1>1. seat' = seat
  BY DEF EndTurn, FailTurn, Interrupt, UseTool, ReportError, Recover
<1>2. \E a, b : /\ a.is # "reply" /\ b.is # "reply"
                /\ Wrote(<<a>>) \/ Wrote(<<a, b>>)
  <2>1. CASE EndTurn \/ FailTurn
    <3>1. PICK how \in {"completed", "failed"}, s \in {"idle", "systemError"} :
              \/ Wrote(<<Completed(codex.turn, how), Status(s)>>)
              \/ Wrote(<<Status(s), Completed(codex.turn, how)>>)
      BY <2>1, EndsWrite
    <3>2. Completed(codex.turn, how).is # "reply" /\ Status(s).is # "reply"
      BY DEF Completed, Status, Line
    <3>3. QED
      BY <3>1, <3>2
  <2>2. CASE Interrupt
    <3>1. \/ Wrote(<<Line("interrupted")>>)
          \/ Wrote(<<Completed(codex.turn, "interrupted"), Line("interrupted")>>)
          \/ Wrote(<<Line("interrupted"), Completed(codex.turn, "interrupted")>>)
      BY <2>2, InterruptWrites
    <3>2. /\ Completed(codex.turn, "interrupted").is # "reply"
          /\ Line("interrupted").is # "reply"
      BY DEF Completed, Line
    <3>3. QED
      BY <3>1, <3>2
  <2>3. CASE UseTool \/ ReportError \/ Recover
    <3>1. \/ Wrote(<<UsedTool(codex.turn)>>)
          \/ Wrote(<<Line("error")>>) \/ Wrote(<<Status("idle")>>)
      BY <2>3, NoticesWrite
    <3>2. /\ UsedTool(codex.turn).is # "reply" /\ Line("error").is # "reply"
          /\ Status("idle").is # "reply"
      BY DEF UsedTool, Status, Line
    <3>3. QED
      BY <3>1, <3>2
  <2>4. QED
    BY <2>1, <2>2, <2>3
<1>3. PICK a, b : /\ a.is # "reply" /\ b.is # "reply"
                  /\ Wrote(<<a>>) \/ Wrote(<<a, b>>)
  BY <1>2
<1>4. NoReplies(<<a>>) /\ NoReplies(<<a, b>>)
  BY <1>3 DEF NoReplies
<1>5. QED
  BY <1>1, <1>3, <1>4, OneReplyWritten

LEMMA OneReplyStep == Typed /\ OneReply /\ [Next]_vars => OneReply'
<1> SUFFICES ASSUME Typed, OneReply, [Next]_vars PROVE OneReply'
  OBVIOUS
<1>1. ASSUME out' = out, seat.flight.at = "served" => seat'.flight = seat.flight
      PROVE  OneReply'
  BY <1>1 DEF OneReply
<1>2. ASSUME out' = <<>> PROVE OneReply'
  BY <1>2 DEF OneReply
<1>3. Now \in Plans /\ Now.seat = seat
  BY NowTyped DEF Now
<1>4. CASE UNCHANGED vars
  BY <1>1, <1>4 DEF vars
<1>5. CASE PushMessage \/ LoseLink \/ LoopEnds \/ Subscribe \/ SweepTurn \/ StopTurn
  BY <1>1, <1>5 DEF PushMessage, LoseLink, LoopEnds, Subscribe, SweepTurn, StopTurn,
      seatVars
<1>6. CASE Forward
  <2>1. seat'.flight = seat.flight
    <3>1. CASE attached
      <4>1. seat' = Delivered([Now EXCEPT !.net = Taken], Incoming).seat
        BY <1>6, <3>1 DEF Forward, Received, Become
      <4>2. seat \in Seats
        BY DEF Typed
      <4>3. QED
        BY <4>1, <4>2 DEF Delivered, Now, Seats
    <3>2. CASE ~attached
      BY <1>6, <3>2 DEF Forward, Received
    <3>3. QED
      BY <3>1, <3>2
  <2>2. QED
    BY <1>1, <1>6, <2>1 DEF Forward
<1>7. CASE Spawn \/ Close
  BY <1>2, <1>7 DEF Spawn, Close
<1>8. CASE Stop \/ Timer
  <2>1. seat' = Flushed(Now).seat /\ out' = out
    BY <1>8 DEF Stop, Timer, Become
  <2>2. seat.flight.at = "served" => seat'.flight = seat.flight
    BY <1>3, <2>1, FlushKeepsFlight
  <2>3. QED
    BY <1>1, <2>1, <2>2
<1>9. CASE Continue
  BY <1>1, <1>9 DEF Continue
<1>10. CASE ReadLine
  BY <1>10, OneReplyRead
<1>11. CASE Next
  BY <1>5, <1>6, <1>7, <1>8, <1>9, <1>10, <1>11, OneReplyServed, OneReplyTold DEF Next
<1>12. QED
  BY <1>4, <1>11

(* Type correctness: every variable of the runner, the stream and codex    *)
(* stays in its type, and no request is ever answered twice, however the   *)
(* lines of the app-server interleave with what the runner does.           *)
THEOREM SeatTypeCorrect == Spec => []TypeOK
<1>1. Spec => [](Typed /\ OneReply)
  BY TypedInit, TypedStep, OneReplyStep, PTL DEF Spec
<1>2. QED
  BY <1>1, TypedIsTypeOK, PTL
-----------------------------------------------------------------------------
(* What the answer to a request leaves.                                    *)

(* The events of the request that was answered, before the flush behind it *)
(* goes on: in the turn, waiting for its start, given back to the broker,  *)
(* back in the buffer, or let go of.                                       *)
JoinsTurn(p, e) ==
    LET f == p.seat.flight
    IN  /\ f.says = "ok" /\ f.turn \in Turns
        /\ p.seat.turn = f.turn \/ f.ask = "steer"
        /\ e.seat = [p.seat EXCEPT !.held = [p.seat.held EXCEPT
                                               ![f.turn] = @ \o f.events]]
        /\ e.net = PerformAll(p.net, AcceptEach(f.events))
        /\ \/ /\ e.late = p.late /\ p.seat.turn = f.turn
              /\ p.net.link = "up" => f.turn \in p.net.open
           \/ e.late = p.late \cup ToSet(f.events)

AwaitsTurn(p, e) ==
    LET f == p.seat.flight
    IN  /\ f.says = "ok" /\ f.turn \in Turns /\ p.seat.turn # f.turn
        /\ e.seat = [p.seat EXCEPT !.awaiting = [p.seat.awaiting EXCEPT
                                                   ![f.turn] = f.events]]
        /\ e.net = p.net
        /\ \/ e.late = p.late /\ StillToRead("started", f.turn)
           \/ e.late = p.late \cup ToSet(f.events)

GivesUp(p, e) ==
    LET f == p.seat.flight
    IN  /\ e.late = p.late
        /\ \/ /\ e.seat = p.seat
              /\ e.net = PerformAll(p.net, SettleEach(f.events, "deferred"))
           \/ /\ e.seat = [p.seat EXCEPT !.buffer = f.events \o @]
              /\ p.seat.status = "notLoaded" /\ e.net = p.net
           \/ /\ e.seat = p.seat /\ e.net = p.net
              /\ p.seat.status = "active" /\ p.seat.turn = NoTurn

AsksAgain(p, q) ==
    /\ SameTurns(p.seat, q.seat) /\ SameLate(p, q) /\ q.net = p.net
    /\ q.seat.buffer = p.seat.buffer /\ q.seat.timer = p.seat.timer
    /\ q.seat.waiting = p.seat.waiting /\ q.seat.status = p.seat.status
    /\ q.seat.flight.at = "sent" /\ q.seat.flight.events = p.seat.flight.events
    /\ q.seat.flight.turn \in {NoTurn, p.seat.turn}
    /\ q.seat.flight.ask = "steer" => q.seat.flight.turn = p.seat.turn

LEMMA JoinedIs ==
    ASSUME NEW p \in Plans, p.seat.flight.says = "ok", p.seat.flight.turn \in Turns,
           p.seat.turn = p.seat.flight.turn \/ p.seat.flight.ask = "steer"
    PROVE  JoinsTurn(p, Joined(p, p.seat.flight.turn, p.seat.flight.events))
<1> DEFINE t == p.seat.flight.turn
           events == p.seat.flight.events
           e == Joined(p, t, events)
           q == Doing(p, AcceptEach(events))
           h == [p.seat.held EXCEPT ![t] = @ \o events]
<1>1. /\ events \in Seq(Receipts) /\ t \in Turns /\ p.seat \in Seats
      /\ p.seat.held \in [Turns -> Seq(Receipts)]
  BY DEF Plans, Seats, Flights
<1>2. /\ q \in Plans /\ q.seat = p.seat /\ q.late = p.late
      /\ q.net = PerformAll(p.net, AcceptEach(events))
  <2> DEFINE acts == AcceptEach(events)
  <2>1. acts \in Seq(Acts)
    BY <1>1, ActsTyped
  <2> HIDE DEF acts
  <2>2. /\ Doing(p, acts) \in Plans
        /\ Doing(p, acts) = [p EXCEPT !.net = PerformAll(p.net, acts)]
    BY <2>1, DoingTyped
  <2>3. QED
    BY <2>2 DEF Plans, acts
<1> DEFINE ontime == p.seat.turn = t /\ (p.net.link = "up" => t \in p.net.open)
           l == IF ontime THEN q.late ELSE q.late \cup ToSet(events)
<1>3. e = [q EXCEPT !.seat.held[t] = @ \o events, !.late = l]
  BY DEF Joined
<1> HIDE DEF e, q, l, t, events
<1>4. /\ e.seat = [p.seat EXCEPT !.held = h]
      /\ e.net = q.net /\ e.late = l
  BY <1>1, <1>2, <1>3 DEF Plans, Seats
<1>5. \/ l = p.late /\ ontime
      \/ l = p.late \cup ToSet(events)
  BY <1>2 DEF l
<1>6. QED
  BY <1>1, <1>2, <1>4, <1>5 DEF JoinsTurn, e, t, events

LEMMA RegisteredIs ==
    ASSUME NEW p \in Plans, p.seat.flight.says = "ok", p.seat.flight.turn \in Turns
    PROVE  LET e == Registered(p, p.seat.flight.turn, p.seat.flight.events)
           IN  JoinsTurn(p, e) \/ AwaitsTurn(p, e)
<1> DEFINE t == p.seat.flight.turn
           events == p.seat.flight.events
           e == Registered(p, t, events)
           l == IF StillToRead("started", t) THEN p.late
                ELSE p.late \cup ToSet(events)
<1>1. /\ events \in Seq(Receipts) /\ t \in Turns /\ p.seat \in Seats
  BY DEF Plans, Seats, Flights
<1>2. e = IF p.seat.turn = t THEN Joined(p, t, events)
          ELSE [p EXCEPT !.seat.awaiting[t] = events, !.late = l]
  BY DEF Registered
<1>3. (l = p.late /\ StillToRead("started", t)) \/ l = p.late \cup ToSet(events)
  OBVIOUS
<1> HIDE DEF l, e
<1>4. CASE p.seat.turn = t
  BY <1>2, <1>4, JoinedIs DEF e
<1>5. CASE p.seat.turn # t
  <2>1. /\ e.seat = [p.seat EXCEPT !.awaiting = [p.seat.awaiting EXCEPT ![t] = events]]
        /\ e.net = p.net /\ e.late = l
    BY <1>1, <1>2, <1>5 DEF Plans, Seats
  <2>2. AwaitsTurn(p, e)
    BY <1>1, <1>3, <1>5, <2>1 DEF AwaitsTurn
  <2>3. QED
    BY <2>2 DEF e
<1>6. QED
  BY <1>4, <1>5

LEMMA GivesUpIs ==
    ASSUME NEW p \in Plans
    PROVE  LET events == p.seat.flight.events
           IN  /\ GivesUp(p, Deferred(p, events))
               /\ p.seat.status = "notLoaded" => GivesUp(p, Rebuffered(p, events))
               /\ p.seat.status = "active" /\ p.seat.turn = NoTurn => GivesUp(p, p)
<1> DEFINE events == p.seat.flight.events
<1>1. events \in Seq(Receipts) /\ p.seat \in Seats
  BY DEF Plans, Seats, Flights
<1>2. GivesUp(p, Deferred(p, events))
  <2> DEFINE acts == SettleEach(events, "deferred")
  <2>1. acts \in Seq(Acts)
    BY <1>1, ActsTyped
  <2> HIDE DEF acts
  <2>2. Doing(p, acts) = [p EXCEPT !.net = PerformAll(p.net, acts)]
    BY <2>1, DoingTyped
  <2>3. QED
    BY <2>2 DEF Plans, GivesUp, Deferred, acts
<1>3. p.seat.status = "notLoaded" => GivesUp(p, Rebuffered(p, events))
  BY <1>1 DEF Plans, GivesUp, Rebuffered
<1>4. p.seat.status = "active" /\ p.seat.turn = NoTurn => GivesUp(p, p)
  BY DEF GivesUp
<1>5. QED
  BY <1>2, <1>3, <1>4

LEMMA AnsweredIs ==
    ASSUME NEW p \in Plans, p.seat.flight.at = "answered"
    PROVE  \/ AsksAgain(p, Answered(p))
           \/ \E e \in Plans : /\ Answered(p) = Finished(e)
                               /\ JoinsTurn(p, e) \/ AwaitsTurn(p, e) \/ GivesUp(p, e)
<1> DEFINE f == p.seat.flight
<1>1. /\ f.events \in Seq(Receipts) /\ f.again \in BOOLEAN
      /\ f.says \in {"ok", "race", "failed"} /\ f.ask \in {"start", "steer"}
      /\ f.says = "ok" => f.turn \in Turns
      /\ p.seat.status \in Statuses /\ p.seat \in Seats
      /\ p.seat.turn \in Turns \cup {NoTurn}
  BY DEF Plans, Seats, Flights
<1> HIDE DEF f
<1>2. ASSUME f.says = "ok"
      PROVE  \E e \in Plans : /\ Answered(p) = Finished(e)
                              /\ JoinsTurn(p, e) \/ AwaitsTurn(p, e)
  <2>1. CASE f.ask = "start"
    <3> DEFINE e == Registered(p, f.turn, f.events)
    <3>1. Answered(p) = Finished(e)
      BY <1>2, <2>1 DEF Answered, f
    <3>2. e \in Plans
      BY <1>1, <1>2, RegisteredTyped
    <3>3. JoinsTurn(p, e) \/ AwaitsTurn(p, e)
      BY <1>1, <1>2, RegisteredIs DEF f
    <3> HIDE DEF e
    <3>4. QED
      BY <3>1, <3>2, <3>3
  <2>2. CASE f.ask = "steer"
    <3> DEFINE e == Joined(p, f.turn, f.events)
    <3>1. Answered(p) = Finished(e)
      BY <1>2, <2>2 DEF Answered, f
    <3>2. e \in Plans
      BY <1>1, <1>2, JoinedTyped
    <3>3. JoinsTurn(p, e)
      BY <1>1, <1>2, <2>2, JoinedIs DEF f
    <3> HIDE DEF e
    <3>4. QED
      BY <3>1, <3>2, <3>3
  <2>3. QED
    BY <1>1, <2>1, <2>2
<1>3. /\ Deferred(p, f.events) \in Plans /\ GivesUp(p, Deferred(p, f.events))
      /\ Rebuffered(p, f.events) \in Plans
  BY <1>1, DeferredTyped, RebufferedTyped, GivesUpIs DEF f
<1>4. CASE f.says = "failed" \/ (f.says = "race" /\ f.again)
  <2>1. Answered(p) = Finished(Deferred(p, f.events))
    BY <1>1, <1>4 DEF Answered, f
  <2>2. QED
    BY <1>3, <2>1
<1>5. CASE f.says = "race" /\ ~f.again
  <2>1. Answered(p) = Retried(p, f.events)
    BY <1>1, <1>5 DEF Answered, f
  <2>2. CASE p.seat.status = "notLoaded"
    <3>1. Answered(p) = Finished(Rebuffered(p, f.events))
      BY <2>1, <2>2 DEF Retried
    <3>2. GivesUp(p, Rebuffered(p, f.events))
      BY <2>2, GivesUpIs DEF f
    <3>3. QED
      BY <1>3, <3>1, <3>2
  <2>3. CASE p.seat.status = "systemError"
    <3>1. Answered(p) = Finished(Deferred(p, f.events))
      BY <2>1, <2>3 DEF Retried
    <3>2. QED
      BY <1>3, <3>1
  <2>4. CASE p.seat.status = "active" /\ p.seat.turn = NoTurn
    <3>1. Answered(p) = Finished(p)
      BY <2>1, <2>4 DEF Retried
    <3>2. GivesUp(p, p)
      BY <2>4, GivesUpIs DEF f
    <3>3. QED
      BY <3>1, <3>2
  <2>5. ASSUME NEW ask \in {"start", "steer"}, NEW t \in {NoTurn, p.seat.turn},
               ask = "steer" => t = p.seat.turn,
               Answered(p) = Asking(p, ask, t, f.events, TRUE)
        PROVE  AsksAgain(p, Answered(p))
    <3> DEFINE g == [ask |-> ask, turn |-> t, events |-> f.events, again |-> TRUE,
                     at |-> "sent", says |-> "none"]
               q == Answered(p)
    <3>1. g.at = "sent" /\ g.events = f.events /\ g.turn = t /\ g.ask = ask
      OBVIOUS
    <3>2. q = [p EXCEPT !.seat.flight = g]
      BY <2>5 DEF Asking
    <3> HIDE DEF g, q
    <3>3. q.seat = [p.seat EXCEPT !.flight = g] /\ q.net = p.net /\ SameLate(p, q)
      BY <3>2 DEF Plans, SameLate
    <3>4. AsksAgain(p, q)
      BY <1>1, <2>5, <3>1, <3>3 DEF AsksAgain, SameTurns, Seats, f
    <3>5. QED
      BY <3>4 DEF q
  <2>6. CASE p.seat.status = "idle"
    <3>1. Answered(p) = Asking(p, "start", NoTurn, f.events, TRUE)
      BY <2>1, <2>6 DEF Retried
    <3>2. QED
      BY <2>5, <3>1
  <2>7. CASE p.seat.status = "active" /\ p.seat.turn # NoTurn
    <3>1. Answered(p) = Asking(p, "steer", p.seat.turn, f.events, TRUE)
      BY <2>1, <2>7 DEF Retried
    <3>2. QED
      BY <2>5, <3>1
  <2>8. QED
    BY <1>1, <2>2, <2>3, <2>4, <2>6, <2>7 DEF Statuses
<1>6. QED
  BY <1>1, <1>2, <1>4, <1>5
-----------------------------------------------------------------------------
(* Receipts reach their turn.                                              *)

(* The end of the turn t is still to be heard of.                          *)
Heard(t) == codex.turn = t \/ StillToRead("completed", t)

EndFollows(o, i) ==
    \E j \in 1 .. Len(o) : j > i /\ o[j].is = "completed" /\ o[j].turn = o[i].turn

(* Of the turn the sink is in, and of one it has yet to hear the start of, *)
(* the end is still to come.                                               *)
TurnsAreFollowed ==
    /\ seat.turn # NoTurn => Heard(seat.turn)
    /\ \A i \in 1 .. Len(out) : out[i].is = "started" =>
           codex.turn = out[i].turn \/ EndFollows(out, i)

ReachInv == TurnsAreFollowed /\ ReceiptsReachTheirTurn

LEMMA WrittenSplit ==
    ASSUME NEW o \in Seq(Lines), NEW l \in Seq(Lines)
    PROVE  /\ Len(o) \in Nat /\ Len(l) \in Nat
           /\ \A i \in 1 .. Len(o \o l) :
                  \/ i \in 1 .. Len(o) /\ (o \o l)[i] = o[i]
                  \/ \E k \in 1 .. Len(l) : i = Len(o) + k /\ (o \o l)[i] = l[k]
           /\ \A i \in 1 .. Len(o) : i \in 1 .. Len(o \o l) /\ (o \o l)[i] = o[i]
           /\ \A k \in 1 .. Len(l) : \E i \in 1 .. Len(o \o l) :
                  i = Len(o) + k /\ (o \o l)[i] = l[k]
<1> DEFINE ol == o \o l
<1>1. /\ Len(o) \in Nat /\ Len(l) \in Nat /\ Len(ol) = Len(o) + Len(l)
      /\ \A i \in 1 .. Len(o) : ol[i] = o[i] /\ i \in 1 .. Len(ol)
      /\ \A i \in 1 .. Len(l) :
             ol[Len(o) + i] = l[i] /\ Len(o) + i \in 1 .. Len(ol)
      /\ \A i \in 1 .. Len(ol) : i \in 1 .. Len(o) \/ i - Len(o) \in 1 .. Len(l)
  BY WrittenOn
<1> HIDE DEF ol
<1>2. ASSUME NEW i \in 1 .. Len(ol), i \notin 1 .. Len(o)
      PROVE  \E k \in 1 .. Len(l) : i = Len(o) + k /\ ol[i] = l[k]
  <2> DEFINE k == i - Len(o)
  <2>1. k \in 1 .. Len(l) /\ i = Len(o) + k
    BY <1>1, <1>2
  <2> HIDE DEF k
  <2>2. ol[Len(o) + k] = l[k]
    BY <1>1, <2>1
  <2>3. ol[i] = l[k]
    BY <2>1, <2>2, Zenon
  <2>4. QED
    BY <2>1, <2>3
<1>3. \A k \in 1 .. Len(l) : \E i \in 1 .. Len(ol) : i = Len(o) + k /\ ol[i] = l[k]
  BY <1>1
<1>4. \A i \in 1 .. Len(ol) :
          \/ i \in 1 .. Len(o) /\ ol[i] = o[i]
          \/ \E k \in 1 .. Len(l) : i = Len(o) + k /\ ol[i] = l[k]
  BY <1>1, <1>2
<1>5. QED
  BY <1>1, <1>3, <1>4 DEF ol

LEMMA StillReadIs ==
    ASSUME Typed
    PROVE  \A is : \A t : StillToRead(is, t)
               <=> \E i \in 1 .. Len(out) : out[i].is = is /\ out[i].turn = t
BY DEF StillToRead, Typed

LEMMA StillReadNext ==
    ASSUME Typed'
    PROVE  \A is : \A t : StillToRead(is, t)'
               <=> \E i \in 1 .. Len(out') : out'[i].is = is /\ out'[i].turn = t
BY DEF StillToRead, Typed

(* What is written leaves everything before it to be read.                 *)
LEMMA StillReadWritten ==
    ASSUME Typed, Typed', NEW l, Wrote(l)
    PROVE  /\ \A is : \A t : StillToRead(is, t) => StillToRead(is, t)'
           /\ \A k \in 1 .. Len(l) : StillToRead(l[k].is, l[k].turn)'
<1>1. out \in Seq(Lines) /\ l \in Seq(Lines) /\ out' = out \o l
  BY DEF Typed, Wrote
<1> DEFINE ol == out \o l
<1>2. /\ \A i \in 1 .. Len(out) : i \in 1 .. Len(ol) /\ ol[i] = out[i]
      /\ \A k \in 1 .. Len(l) : \E i \in 1 .. Len(ol) : ol[i] = l[k]
  BY <1>1, WrittenSplit
<1>3. out' = ol
  BY <1>1
<1> HIDE DEF ol
<1>4. \A is : \A t : StillToRead(is, t) => StillToRead(is, t)'
  BY <1>2, <1>3, StillReadIs, StillReadNext
<1>5. \A k \in 1 .. Len(l) : StillToRead(l[k].is, l[k].turn)'
  BY <1>2, <1>3, StillReadNext
<1>6. QED
  BY <1>4, <1>5

LEMMA ReachWritten ==
    ASSUME Typed, Typed', ReachInv, NEW l, Wrote(l),
           \A k \in 1 .. Len(l) : l[k].is = "started" => codex'.turn = l[k].turn,
           \/ codex.turn = NoTurn \/ codex'.turn = codex.turn
           \/ \E k \in 1 .. Len(l) : l[k].is = "completed" /\ l[k].turn = codex.turn,
           seat'.turn = seat.turn, seat'.held = seat.held,
           seat'.awaiting = seat.awaiting, late' = late
    PROVE  ReachInv'
<1>1. out \in Seq(Lines) /\ l \in Seq(Lines) /\ out' = out \o l
  BY DEF Typed, Wrote
<1> DEFINE ol == out \o l
<1>2. /\ Len(out) \in Nat /\ Len(l) \in Nat
      /\ \A i \in 1 .. Len(ol) :
             \/ i \in 1 .. Len(out) /\ ol[i] = out[i]
             \/ \E k \in 1 .. Len(l) : i = Len(out) + k /\ ol[i] = l[k]
      /\ \A i \in 1 .. Len(out) : i \in 1 .. Len(ol) /\ ol[i] = out[i]
      /\ \A k \in 1 .. Len(l) : \E i \in 1 .. Len(ol) :
             i = Len(out) + k /\ ol[i] = l[k]
  BY <1>1, WrittenSplit
<1> HIDE DEF ol
<1>3. \A t \in Turns : Heard(t) => Heard(t)'
  <2>1. SUFFICES ASSUME NEW t \in Turns, Heard(t) PROVE Heard(t)'
    OBVIOUS
  <2>2. t # NoTurn
    BY NoTurnIsNone
  <2>3. codex.turn = t => codex'.turn = t \/ StillToRead("completed", t)'
    BY <2>2, StillReadWritten
  <2>4. QED
    BY <2>1, <2>3, StillReadWritten DEF Heard
<1>4. seat.turn # NoTurn => seat.turn \in Turns
  BY DEF Typed, Seats
<1>5. (seat.turn # NoTurn => Heard(seat.turn))'
  BY <1>3, <1>4 DEF ReachInv, TurnsAreFollowed, Heard
<1>6. ASSUME NEW i \in 1 .. Len(ol), ol[i].is = "started"
      PROVE  codex'.turn = ol[i].turn \/ EndFollows(ol, i)
  <2>1. CASE i \in 1 .. Len(out) /\ ol[i] = out[i]
    <3>1. CASE EndFollows(out, i)
      <4>1. PICK j \in 1 .. Len(out) :
                j > i /\ out[j].is = "completed" /\ out[j].turn = out[i].turn
        BY <3>1 DEF EndFollows
      <4>2. j \in 1 .. Len(ol) /\ ol[j] = out[j]
        BY <1>2
      <4>3. QED
        BY <2>1, <4>1, <4>2 DEF EndFollows
    <3>2. CASE codex.turn = out[i].turn
      <4>1. out[i].turn \in Turns
        <5>1. out[i] \in Lines
          BY <1>1, <2>1, ElementOfSeq
        <5>2. QED
          BY <1>6, <2>1, <5>1 DEF Lines
      <4>2. codex.turn # NoTurn
        BY <3>2, <4>1, NoTurnIsNone
      <4>3. CASE codex'.turn = codex.turn
        BY <2>1, <3>2, <4>3
      <4>4. ASSUME NEW k \in 1 .. Len(l), l[k].is = "completed", l[k].turn = codex.turn
            PROVE  EndFollows(ol, i)
        <5>1. PICK j \in 1 .. Len(ol) : j = Len(out) + k /\ ol[j] = l[k]
          BY <1>2
        <5>2. j > i
          BY <1>2, <2>1, <5>1
        <5>3. QED
          BY <2>1, <3>2, <4>4, <5>1, <5>2 DEF EndFollows
      <4>5. QED
        BY <4>2, <4>3, <4>4
    <3>3. QED
      BY <1>6, <2>1, <3>1, <3>2 DEF ReachInv, TurnsAreFollowed
  <2>2. CASE \E k \in 1 .. Len(l) : i = Len(out) + k /\ ol[i] = l[k]
    BY <1>6, <2>2
  <2>3. QED
    BY <1>2, <2>1, <2>2
<1>7. TurnsAreFollowed'
  <2>1. out' = ol
    BY <1>1 DEF ol
  <2>2. QED
    BY <1>5, <1>6, <2>1 DEF TurnsAreFollowed, EndFollows
<1>8. ReceiptsReachTheirTurn'
  BY <1>3, StillReadWritten DEF ReachInv, ReceiptsReachTheirTurn, Heard
<1>9. QED
  BY <1>7, <1>8 DEF ReachInv

LEMMA HandledTurns ==
    ASSUME NEW p \in Plans, NEW l \in Lines
    PROVE  LET q == Handled(p, l)
           IN  /\ SameLate(p, q)
               /\ \/ /\ l.is = "started" /\ l.turn \in Turns /\ q.seat.turn = l.turn
                     /\ q.seat.awaiting = [p.seat.awaiting EXCEPT ![l.turn] = <<>>]
                     /\ q.seat.held = IF p.seat.awaiting[l.turn] = <<>> THEN p.seat.held
                                      ELSE [p.seat.held EXCEPT
                                              ![l.turn] = p.seat.awaiting[l.turn]]
                  \/ /\ l.is = "completed" /\ l.turn \in Turns /\ q.seat.turn = NoTurn
                     /\ q.seat.awaiting = p.seat.awaiting
                     /\ q.seat.held = [p.seat.held EXCEPT ![l.turn] = <<>>]
                  \/ /\ l.is = "acted" /\ l.turn \in Turns /\ q.seat.turn = p.seat.turn
                     /\ q.seat.awaiting = p.seat.awaiting
                     /\ q.seat.held = [p.seat.held EXCEPT ![l.turn] = <<>>]
                  \/ /\ l.is \notin {"started", "completed", "acted"}
                     /\ SameTurns(p.seat, q.seat)
<1> DEFINE q == Handled(p, l)
<1>1. CASE l.is = "started"
  <2>1. l.turn \in Turns /\ q = OnStarted(p, l.turn)
    BY <1>1, HandledIs
  <2> HIDE DEF q
  <2>2. QED
    BY <1>1, <2>1, OnStartedIs DEF q
<1>2. CASE l.is = "completed"
  <2>1. l.turn \in Turns /\ q = OnCompleted(p, l.turn, l.says)
    BY <1>2, HandledIs
  <2> HIDE DEF q
  <2>2. QED
    BY <1>2, <2>1, OnCompletedIs DEF q
<1>3. CASE l.is = "acted"
  <2>1. l.turn \in Turns /\ q = OnActed(p, l.turn)
    BY <1>3, HandledIs
  <2> HIDE DEF q
  <2>2. QED
    BY <1>3, <2>1, OnActedIs DEF q
<1>4. CASE l.is = "status"
  <2>1. l.says \in Statuses \ {"notLoaded"} /\ q = OnStatus(p, l.says)
    BY <1>4, HandledIs
  <2> HIDE DEF q
  <2>2. PICK e \in Plans : /\ q = Flushed(e)
                           /\ e.seat = [p.seat EXCEPT !.status = l.says]
                           /\ SameLate(p, e)
    BY <2>1, OnStatusIs
  <2>3. SameTurns(p.seat, e.seat)
    BY <2>2 DEF SameTurns, Plans, Seats
  <2>4. SameTurns(e.seat, q.seat) /\ SameLate(e, q)
    BY <2>2, FlushedIs
  <2>5. SameTurns(p.seat, q.seat) /\ SameLate(p, q)
    BY <2>2, <2>3, <2>4 DEF SameTurns, SameLate
  <2>6. QED
    BY <1>4, <2>5 DEF q
<1>5. CASE l.is = "reply"
  <2>1. q = OnReply(p, l)
    BY <1>5, HandledIs
  <2> HIDE DEF q
  <2>2. SameTurns(p.seat, q.seat) /\ SameLate(p, q)
    BY <2>1, OnReplyIs
  <2>3. QED
    BY <1>5, <2>2 DEF q
<1>6. CASE l.is = "error"
  <2>1. q = Doing(p, <<Condition("degraded")>>)
    BY <1>6, HandledIs
  <2>2. q.seat = p.seat /\ SameLate(p, q)
    BY <2>1, DegradedIs
  <2> HIDE DEF q
  <2>3. QED
    BY <1>6, <2>2 DEF SameTurns, q
<1>7. CASE l.is = "interrupted"
  <2>1. q = p
    BY <1>7, HandledIs
  <2> HIDE DEF q
  <2>2. QED
    BY <1>7, <2>1 DEF SameTurns, SameLate, q
<1>8. QED
  BY <1>1, <1>2, <1>3, <1>4, <1>5, <1>6, <1>7, HandledIs

LEMMA StillReadTail ==
    ASSUME Typed, Typed', out # <<>>, out' = Tail(out)
    PROVE  \A is : \A t : StillToRead(is, t) =>
               StillToRead(is, t)' \/ (Head(out).is = is /\ Head(out).turn = t)
<1>1. /\ Len(out') = Len(out) - 1 /\ Len(out) \in Nat /\ Len(out) >= 1
      /\ Head(out) = out[1]
      /\ \A i \in 1 .. Len(out) - 1 : out'[i] = out[i + 1]
  BY TailOf DEF Typed
<1>2. ASSUME NEW i \in 1 .. Len(out), i # 1
      PROVE  \E k \in 1 .. Len(out') : out'[k] = out[i]
  <2> DEFINE k == i - 1
  <2>1. k \in 1 .. Len(out) - 1 /\ k + 1 = i
    BY <1>1, <1>2
  <2> HIDE DEF k
  <2>2. out'[k] = out[k + 1]
    BY <1>1, <2>1
  <2>3. out'[k] = out[i]
    BY <2>1, <2>2, Zenon
  <2>4. QED
    BY <1>1, <2>1, <2>3
<1>3. QED
  BY <1>1, <1>2, StillReadIs, StillReadNext

LEMMA FollowedTail ==
    ASSUME Typed, Typed', TurnsAreFollowed, out # <<>>, out' = Tail(out),
           codex' = codex
    PROVE  /\ Head(out).is = "started" => \A t : t = Head(out).turn => Heard(t)'
           /\ \A i \in 1 .. Len(out') : out'[i].is = "started" =>
                  codex'.turn = out'[i].turn \/ EndFollows(out', i)
<1>1. /\ Len(out') = Len(out) - 1 /\ Len(out) \in Nat /\ Len(out) >= 1
      /\ Head(out) = out[1]
      /\ \A i \in 1 .. Len(out) - 1 : out'[i] = out[i + 1]
  BY TailOf DEF Typed
<1>2. ASSUME NEW i \in 1 .. Len(out), NEW j \in 1 .. Len(out), j > i
      PROVE  \E k \in 1 .. Len(out') : k > i - 1 /\ out'[k] = out[j]
  <2> DEFINE k == j - 1
  <2>1. k \in 1 .. Len(out) - 1 /\ k + 1 = j /\ k > i - 1
    BY <1>1, <1>2
  <2> HIDE DEF k
  <2>2. out'[k] = out[k + 1]
    BY <1>1, <2>1
  <2>3. out'[k] = out[j]
    BY <2>1, <2>2, Zenon
  <2>4. QED
    BY <1>1, <2>1, <2>3
<1>3. ASSUME Head(out).is = "started", NEW t, t = Head(out).turn PROVE Heard(t)'
  <2>1. 1 \in 1 .. Len(out) /\ out[1].is = "started" /\ out[1].turn = t
    BY <1>1, <1>3
  <2>2. codex.turn = t \/ EndFollows(out, 1)
    BY <2>1 DEF TurnsAreFollowed
  <2>3. ASSUME EndFollows(out, 1) PROVE StillToRead("completed", t)'
    <3>1. PICK j \in 1 .. Len(out) : /\ j > 1 /\ out[j].is = "completed"
                                    /\ out[j].turn = t
      BY <2>1, <2>3 DEF EndFollows
    <3>2. PICK k \in 1 .. Len(out') : out'[k] = out[j]
      BY <1>2, <2>1, <3>1
    <3>3. QED
      BY <3>1, <3>2, StillReadNext
  <2>4. QED
    BY <2>2, <2>3 DEF Heard
<1>4. ASSUME NEW i \in 1 .. Len(out'), out'[i].is = "started"
      PROVE  codex'.turn = out'[i].turn \/ EndFollows(out', i)
  <2> DEFINE n == i + 1
  <2>1. n \in 1 .. Len(out) /\ n - 1 = i /\ out'[i] = out[n]
    BY <1>1
  <2> HIDE DEF n
  <2>2. codex.turn = out[n].turn \/ EndFollows(out, n)
    BY <1>4, <2>1 DEF TurnsAreFollowed
  <2>3. ASSUME EndFollows(out, n) PROVE EndFollows(out', i)
    <3>1. PICK j \in 1 .. Len(out) : /\ j > n /\ out[j].is = "completed"
                                    /\ out[j].turn = out[n].turn
      BY <2>3 DEF EndFollows
    <3>2. PICK k \in 1 .. Len(out') : k > n - 1 /\ out'[k] = out[j]
      BY <1>2, <2>1, <3>1
    <3>3. QED
      BY <2>1, <3>1, <3>2 DEF EndFollows
  <2>4. QED
    BY <2>1, <2>2, <2>3
<1>5. QED
  BY <1>3, <1>4

LEMMA ReachRead ==
    ASSUME Typed, Typed', ReachInv, ReadLine PROVE ReachInv'
<1> DEFINE l == Head(out)
<1>1. /\ out # <<>> /\ out' = Tail(out) /\ codex' = codex
      /\ Now \in Plans /\ Now.seat = seat /\ Now.late = late /\ l \in Lines
  BY NowTyped, TailOf DEF Typed, ReadLine, Now
<1>2. seat' = Handled(Now, l).seat /\ late' = Handled(Now, l).late
  BY DEF ReadLine, Become
<1>3. /\ late' = late
      /\ \/ /\ l.is = "started" /\ l.turn \in Turns /\ seat'.turn = l.turn
            /\ seat'.awaiting = [seat.awaiting EXCEPT ![l.turn] = <<>>]
            /\ seat'.held = IF seat.awaiting[l.turn] = <<>> THEN seat.held
                            ELSE [seat.held EXCEPT ![l.turn] = seat.awaiting[l.turn]]
         \/ /\ l.is = "completed" /\ l.turn \in Turns /\ seat'.turn = NoTurn
            /\ seat'.awaiting = seat.awaiting
            /\ seat'.held = [seat.held EXCEPT ![l.turn] = <<>>]
         \/ /\ l.is = "acted" /\ l.turn \in Turns /\ seat'.turn = seat.turn
            /\ seat'.awaiting = seat.awaiting
            /\ seat'.held = [seat.held EXCEPT ![l.turn] = <<>>]
         \/ /\ l.is \notin {"started", "completed", "acted"}
            /\ SameTurns(seat, seat')
  BY <1>1, <1>2, HandledTurns DEF SameLate
<1>4. /\ \A is : \A t : StillToRead(is, t) =>
             StillToRead(is, t)' \/ (l.is = is /\ l.turn = t)
      /\ l.is = "started" => \A t : t = l.turn => Heard(t)'
      /\ \A i \in 1 .. Len(out') : out'[i].is = "started" =>
             codex'.turn = out'[i].turn \/ EndFollows(out', i)
  BY <1>1, StillReadTail, FollowedTail DEF ReachInv
<1> HIDE DEF l
<1>5. \A t : Heard(t) => Heard(t)' \/ (l.is = "completed" /\ l.turn = t)
  BY <1>1, <1>4 DEF Heard
<1>6. ToSet(<<>>) = {}
  <2>1. <<>> \in Seq(Receipts)
    OBVIOUS
  <2>2. QED
    BY <2>1, ElementsOf
<1>7. (seat.turn # NoTurn => Heard(seat.turn))'
  <2>1. SUFFICES ASSUME NEW t, seat'.turn = t, t # NoTurn PROVE Heard(t)'
    BY DEF Heard
  <2>2. CASE l.is = "started"
    BY <1>3, <1>4, <2>1, <2>2
  <2>3. CASE l.is = "completed"
    BY <1>3, <2>1, <2>3
  <2>4. CASE l.is \notin {"started", "completed"}
    <3>1. seat.turn = t
      BY <1>3, <2>1, <2>4 DEF SameTurns
    <3>2. Heard(t)
      BY <2>1, <3>1 DEF ReachInv, TurnsAreFollowed
    <3>3. QED
      BY <1>5, <2>4, <3>2
  <2>5. QED
    BY <2>2, <2>3, <2>4
<1>8. TurnsAreFollowed'
  BY <1>4, <1>7 DEF TurnsAreFollowed
<1>9. ASSUME NEW t \in Turns
      PROVE  /\ ToSet(seat'.awaiting[t]) \subseteq late' \/ StillToRead("started", t)'
             /\ ToSet(seat'.held[t]) \subseteq late' \/ Heard(t)'
  <2>1. /\ ToSet(seat.awaiting[t]) \subseteq late \/ StillToRead("started", t)
        /\ ToSet(seat.held[t]) \subseteq late \/ Heard(t)
    BY DEF ReachInv, ReceiptsReachTheirTurn, Heard
  <2>2. seat.awaiting \in [Turns -> Seq(Receipts)] /\ seat.held \in [Turns -> Seq(Receipts)]
    BY DEF Typed, Seats
  <2>3. CASE l.is = "started"
    <3>1. CASE l.turn = t
      <4>1. seat'.awaiting[t] = <<>> /\ Heard(t)'
        BY <1>3, <1>4, <2>2, <2>3, <3>1
      <4>2. QED
        BY <1>6, <4>1
    <3>2. CASE l.turn # t
      <4>1. seat'.awaiting[t] = seat.awaiting[t] /\ seat'.held[t] = seat.held[t]
        BY <1>3, <2>2, <2>3, <3>2
      <4>2. QED
        BY <1>3, <1>4, <1>5, <2>1, <2>3, <3>2, <4>1
    <3>3. QED
      BY <3>1, <3>2
  <2>4. CASE l.is \in {"completed", "acted"}
    <3>1. /\ seat'.awaiting[t] = seat.awaiting[t]
          /\ seat'.held[t] = IF l.turn = t THEN <<>> ELSE seat.held[t]
      BY <1>3, <2>2, <2>4
    <3>2. QED
      BY <1>3, <1>4, <1>5, <1>6, <2>1, <2>4, <3>1
  <2>5. CASE l.is \notin {"started", "completed", "acted"}
    <3>1. seat'.awaiting[t] = seat.awaiting[t] /\ seat'.held[t] = seat.held[t]
      BY <1>3, <2>5 DEF SameTurns
    <3>2. QED
      BY <1>3, <1>4, <1>5, <2>1, <2>5, <3>1
  <2>6. QED
    BY <2>3, <2>4, <2>5
<1>10. ReceiptsReachTheirTurn'
  BY <1>9 DEF ReceiptsReachTheirTurn, Heard
<1>11. QED
  BY <1>8, <1>10 DEF ReachInv

(* What an answer puts before a turn is on time, or counted as late.       *)
LEMMA AnsweredTurns ==
    ASSUME NEW p \in Plans, p.seat.flight.at = "answered"
    PROVE  LET q == Answered(p)
           IN  /\ q.seat.turn = p.seat.turn /\ p.late \subseteq q.late
               /\ \A t \in Turns :
                     /\ \/ q.seat.awaiting[t] = p.seat.awaiting[t]
                        \/ StillToRead("started", t)
                        \/ ToSet(q.seat.awaiting[t]) \subseteq q.late
                     /\ \/ q.seat.held[t] = p.seat.held[t]
                        \/ p.seat.turn = t
                        \/ ToSet(q.seat.held[t]) \subseteq ToSet(p.seat.held[t]) \cup q.late
<1> DEFINE q == Answered(p)
           f == p.seat.flight
<1>1. CASE AsksAgain(p, q)
  BY <1>1 DEF AsksAgain, SameTurns, SameLate
<1>2. ASSUME NEW e \in Plans, q = Finished(e),
             JoinsTurn(p, e) \/ AwaitsTurn(p, e) \/ GivesUp(p, e)
      PROVE  /\ q.seat.turn = p.seat.turn /\ p.late \subseteq q.late
             /\ \A t \in Turns :
                   /\ \/ q.seat.awaiting[t] = p.seat.awaiting[t]
                      \/ StillToRead("started", t)
                      \/ ToSet(q.seat.awaiting[t]) \subseteq q.late
                   /\ \/ q.seat.held[t] = p.seat.held[t]
                      \/ p.seat.turn = t
                      \/ ToSet(q.seat.held[t]) \subseteq ToSet(p.seat.held[t]) \cup q.late
  <2>1. SameTurns(e.seat, q.seat) /\ SameLate(e, q)
    BY <1>2, FinishedIs
  <2>2. /\ p.seat \in Seats /\ f.events \in Seq(Receipts)
        /\ \A t \in Turns : p.seat.held[t] \in Seq(Receipts)
    BY DEF Plans, Seats, Flights
  <2>3. \A t \in Turns : ToSet(p.seat.held[t] \o f.events)
                           = ToSet(p.seat.held[t]) \cup ToSet(f.events)
    BY <2>2, ElementsOf
  <2> HIDE DEF q
  <2>4. CASE JoinsTurn(p, e)
    <3>1. /\ q.seat.awaiting = p.seat.awaiting /\ q.seat.turn = p.seat.turn
          /\ q.seat.held = [p.seat.held EXCEPT ![f.turn] = p.seat.held[f.turn] \o f.events]
          /\ q.late = e.late /\ p.late \subseteq e.late /\ f.turn \in Turns
          /\ p.seat.turn = f.turn \/ ToSet(f.events) \subseteq e.late
      BY <2>1, <2>2, <2>4 DEF JoinsTurn, SameTurns, SameLate, Seats
    <3> HIDE DEF f
    <3>2. ASSUME NEW t \in Turns
          PROVE  \/ q.seat.held[t] = p.seat.held[t]
                 \/ p.seat.turn = t
                 \/ ToSet(q.seat.held[t]) \subseteq ToSet(p.seat.held[t]) \cup q.late
      <4>1. p.seat.held \in [Turns -> Seq(Receipts)]
        BY <2>2 DEF Seats
      <4>2. CASE t = f.turn
        <5>1. q.seat.held[t] = p.seat.held[t] \o f.events
          BY <3>1, <4>1, <4>2
        <5>2. QED
          BY <2>3, <3>1, <4>2, <5>1
      <4>3. CASE t # f.turn
        BY <3>1, <4>1, <4>3
      <4>4. QED
        BY <4>2, <4>3
    <3>3. QED
      BY <3>1, <3>2
  <2>5. CASE AwaitsTurn(p, e)
    <3>1. /\ q.seat.held = p.seat.held /\ q.seat.turn = p.seat.turn
          /\ q.seat.awaiting = [p.seat.awaiting EXCEPT ![f.turn] = f.events]
          /\ q.late = e.late /\ p.late \subseteq e.late /\ f.turn \in Turns
          /\ StillToRead("started", f.turn) \/ ToSet(f.events) \subseteq e.late
      BY <2>1, <2>2, <2>5 DEF AwaitsTurn, SameTurns, SameLate, Seats
    <3> HIDE DEF f
    <3>2. p.seat.awaiting \in [Turns -> Seq(Receipts)]
      BY <2>2 DEF Seats
    <3>3. QED
      BY <3>1, <3>2
  <2>6. CASE GivesUp(p, e)
    BY <2>1, <2>2, <2>6 DEF GivesUp, SameTurns, SameLate, Seats
  <2>7. QED
    BY <1>2, <2>4, <2>5, <2>6
<1>3. QED
  BY <1>1, <1>2, AnsweredIs

LEMMA ReachAnswered ==
    ASSUME Typed, Typed', ReachInv, Continue PROVE ReachInv'
<1>1. /\ out' = out /\ codex' = codex
      /\ Now \in Plans /\ Now.seat = seat /\ Now.late = late
      /\ Now.seat.flight.at = "answered"
  BY NowTyped DEF Typed, Continue, Now
<1>2. seat' = Answered(Now).seat /\ late' = Answered(Now).late
  BY DEF Continue, Become
<1>3. /\ seat'.turn = seat.turn /\ late \subseteq late'
      /\ \A t \in Turns :
            /\ \/ seat'.awaiting[t] = seat.awaiting[t]
               \/ StillToRead("started", t)
               \/ ToSet(seat'.awaiting[t]) \subseteq late'
            /\ \/ seat'.held[t] = seat.held[t]
               \/ seat.turn = t
               \/ ToSet(seat'.held[t]) \subseteq ToSet(seat.held[t]) \cup late'
  <2>1. LET q == Answered(Now)
        IN  /\ q.seat.turn = Now.seat.turn /\ Now.late \subseteq q.late
            /\ \A t \in Turns :
                  /\ \/ q.seat.awaiting[t] = Now.seat.awaiting[t]
                     \/ StillToRead("started", t)
                     \/ ToSet(q.seat.awaiting[t]) \subseteq q.late
                  /\ \/ q.seat.held[t] = Now.seat.held[t]
                     \/ Now.seat.turn = t
                     \/ ToSet(q.seat.held[t]) \subseteq ToSet(Now.seat.held[t]) \cup q.late
    BY <1>1, AnsweredTurns
  <2>2. QED
    BY <1>1, <1>2, <2>1
<1>4. \A is : \A t : StillToRead(is, t) => StillToRead(is, t)'
  BY <1>1 DEF StillToRead
<1>5. \A t : Heard(t) => Heard(t)'
  BY <1>1, <1>4 DEF Heard
<1>6. TurnsAreFollowed'
  BY <1>1, <1>3, <1>5 DEF ReachInv, TurnsAreFollowed, Heard, EndFollows
<1>7. ASSUME NEW t \in Turns
      PROVE  /\ ToSet(seat'.awaiting[t]) \subseteq late' \/ StillToRead("started", t)'
             /\ ToSet(seat'.held[t]) \subseteq late' \/ Heard(t)'
  <2>1. /\ ToSet(seat.awaiting[t]) \subseteq late \/ StillToRead("started", t)
        /\ ToSet(seat.held[t]) \subseteq late \/ Heard(t)
    BY DEF ReachInv, ReceiptsReachTheirTurn, Heard
  <2>2. seat.turn = t => Heard(t)
    BY NoTurnIsNone DEF ReachInv, TurnsAreFollowed
  <2>3. QED
    BY <1>3, <1>4, <1>5, <2>1, <2>2
<1>8. QED
  BY <1>6, <1>7 DEF ReachInv, ReceiptsReachTheirTurn, Heard

LEMMA ReachInit == Init => ReachInv
<1> SUFFICES ASSUME Init PROVE ReachInv
  OBVIOUS
<1>1. Len(out) = 0 /\ seat.turn = NoTurn
  BY DEF Init, NewSeat
<1>2. ToSet(<<>>) = {}
  <2>1. <<>> \in Seq(Receipts)
    OBVIOUS
  <2>2. QED
    BY <2>1, ElementsOf
<1>3. \A t \in Turns : seat.awaiting[t] = <<>> /\ seat.held[t] = <<>>
  BY DEF Init, NewSeat
<1>4. QED
  BY <1>1, <1>2, <1>3 DEF ReachInv, TurnsAreFollowed, ReceiptsReachTheirTurn

LEMMA ReachFresh ==
    ASSUME out' = <<>>, seat'.turn = NoTurn,
           \A t \in Turns : seat'.awaiting[t] = <<>> /\ seat'.held[t] = <<>>
    PROVE  ReachInv'
<1>1. Len(out') = 0
  OBVIOUS
<1>2. ToSet(<<>>) = {}
  <2>1. <<>> \in Seq(Receipts)
    OBVIOUS
  <2>2. QED
    BY <2>1, ElementsOf
<1>3. TurnsAreFollowed'
  BY <1>1 DEF TurnsAreFollowed
<1>4. ReceiptsReachTheirTurn'
  BY <1>2 DEF ReceiptsReachTheirTurn
<1>5. QED
  BY <1>3, <1>4 DEF ReachInv

LEMMA ReachSame ==
    ASSUME ReachInv, out' = out, codex' = codex, late' = late,
           SameTurns(seat, seat')
    PROVE  ReachInv'
<1>1. \A is : \A t : StillToRead(is, t)' <=> StillToRead(is, t)
  BY DEF StillToRead
<1>2. QED
  BY <1>1 DEF SameTurns, ReachInv, TurnsAreFollowed, ReceiptsReachTheirTurn, Heard,
      EndFollows

LEMMA ReachServed ==
    ASSUME Typed, Typed', ReachInv, StartTurn \/ Steer \/ RefuseSteer \/ RefuseRequest
    PROVE  ReachInv'
<1>1. /\ seat'.turn = seat.turn /\ seat'.held = seat.held
      /\ seat'.awaiting = seat.awaiting /\ late' = late
  <2>1. seat' = [seat EXCEPT !.flight.at = "served"] /\ late' = late /\ seat \in Seats
    BY DEF StartTurn, Steer, RefuseSteer, RefuseRequest, Serve, Typed, leaseVars
  <2>2. QED
    BY <2>1 DEF Seats
<1>2. CASE StartTurn
  <2> DEFINE t == codex.used + 1
  <2>1. /\ t \in Turns /\ codex' = [codex EXCEPT !.turn = t, !.used = t]
        /\ \/ Wrote(<<Reply("ok", t), Started(t), Status("active")>>)
           \/ Wrote(<<Status("active"), Started(t), Reply("ok", t)>>)
    BY <1>2, StartTurnWrites
  <2>2. codex.turn = NoTurn /\ codex'.turn = t
    BY <1>2, <2>1 DEF StartTurn, Typed
  <2> HIDE DEF t
  <2>3. /\ Reply("ok", t).is # "started" /\ Status("active").is # "started"
        /\ Started(t).turn = t
    BY DEF Reply, Started, Status, Line
  <2> DEFINE a == <<Reply("ok", t), Started(t), Status("active")>>
             b == <<Status("active"), Started(t), Reply("ok", t)>>
  <2>4. /\ \A k \in 1 .. Len(a) : a[k].is = "started" => a[k].turn = t
        /\ \A k \in 1 .. Len(b) : b[k].is = "started" => b[k].turn = t
    BY <2>3
  <2>5. Wrote(a) \/ Wrote(b)
    BY <2>1
  <2> HIDE DEF a, b
  <2>6. QED
    BY <1>1, <2>2, <2>4, <2>5, ReachWritten
<1>3. CASE Steer \/ RefuseSteer \/ RefuseRequest
  <2>1. PICK a : Wrote(<<a>>) /\ a.is = "reply"
    <3>1. /\ Reply("ok", codex.turn).is = "reply" /\ Reply("race", NoTurn).is = "reply"
          /\ Reply("failed", NoTurn).is = "reply"
      BY DEF Reply, Line
    <3>2. QED
      BY <1>3, <3>1, RequestsWrite
  <2> DEFINE l == <<a>>
  <2>2. \A k \in 1 .. Len(l) : l[k].is = "started" => codex'.turn = l[k].turn
    BY <2>1
  <2>3. Wrote(l) /\ codex' = codex
    BY <1>3, <2>1 DEF Steer, RefuseSteer, RefuseRequest
  <2> HIDE DEF l
  <2>4. QED
    BY <1>1, <2>2, <2>3, ReachWritten
<1>4. QED
  BY <1>2, <1>3

LEMMA ReachTold ==
    ASSUME Typed, Typed', ReachInv,
           EndTurn \/ FailTurn \/ Interrupt \/ UseTool \/ ReportError \/ Recover
    PROVE  ReachInv'
<1>1. seat' = seat /\ late' = late
  BY DEF EndTurn, FailTurn, Interrupt, UseTool, ReportError, Recover, leaseVars
<1>2. ASSUME NEW a, NEW b, a.is # "started", b.is # "started",
             NEW l, l \in {<<a>>, <<a, b>>, <<b, a>>}, Wrote(l),
             \/ codex.turn = NoTurn \/ codex'.turn = codex.turn
             \/ a.is = "completed" /\ a.turn = codex.turn /\ l # <<a>>
      PROVE  ReachInv'
  <2>1. \A k \in 1 .. Len(l) : l[k].is = "started" => codex'.turn = l[k].turn
    BY <1>2
  <2>2. \/ codex.turn = NoTurn \/ codex'.turn = codex.turn
        \/ \E k \in 1 .. Len(l) : l[k].is = "completed" /\ l[k].turn = codex.turn
    <3>1. SUFFICES ASSUME a.is = "completed", a.turn = codex.turn, l # <<a>>
                   PROVE  \E k \in 1 .. Len(l) :
                              l[k].is = "completed" /\ l[k].turn = codex.turn
      BY <1>2
    <3>2. CASE l = <<a, b>>
      <4>1. 1 \in 1 .. Len(l) /\ l[1] = a
        BY <3>2
      <4>2. QED
        BY <3>1, <4>1
    <3>3. CASE l = <<b, a>>
      <4>1. 2 \in 1 .. Len(l) /\ l[2] = a
        BY <3>3
      <4>2. QED
        BY <3>1, <4>1
    <3>4. QED
      BY <1>2, <3>1, <3>2, <3>3
  <2>3. QED
    BY <1>1, <1>2, <2>1, <2>2, ReachWritten
<1>3. CASE EndTurn \/ FailTurn
  <2>1. PICK how \in {"completed", "failed"}, s \in {"idle", "systemError"} :
            \/ Wrote(<<Completed(codex.turn, how), Status(s)>>)
            \/ Wrote(<<Status(s), Completed(codex.turn, how)>>)
    BY <1>3, EndsWrite
  <2> DEFINE a == Completed(codex.turn, how)
             b == Status(s)
  <2>2. a.is = "completed" /\ a.turn = codex.turn /\ b.is # "started"
    BY DEF Completed, Status, Line
  <2>3. Wrote(<<a, b>>) \/ Wrote(<<b, a>>)
    BY <2>1
  <2> HIDE DEF a, b
  <2>4. <<a, b>> # <<a>> /\ <<b, a>> # <<a>>
    <3>1. Len(<<a, b>>) = 2 /\ Len(<<b, a>>) = 2 /\ Len(<<a>>) = 1
      OBVIOUS
    <3>2. QED
      BY <3>1
  <2>5. QED
    BY <1>2, <2>2, <2>3, <2>4
<1>4. CASE Interrupt
  <2> DEFINE a == Completed(codex.turn, "interrupted")
             b == Line("interrupted")
  <2>1. \/ codex.turn = NoTurn /\ Wrote(<<b>>)
        \/ Wrote(<<a, b>>) \/ Wrote(<<b, a>>)
    BY <1>4, InterruptWrites
  <2>2. a.is = "completed" /\ a.turn = codex.turn /\ b.is # "started"
    BY DEF Completed, Line
  <2> HIDE DEF a, b
  <2>3. <<a, b>> # <<a>> /\ <<b, a>> # <<a>>
    <3>1. Len(<<a, b>>) = 2 /\ Len(<<b, a>>) = 2 /\ Len(<<a>>) = 1
      OBVIOUS
    <3>2. QED
      BY <3>1
  <2>4. QED
    BY <1>2, <2>1, <2>2, <2>3
<1>5. CASE UseTool \/ ReportError \/ Recover
  <2>1. PICK a : Wrote(<<a>>) /\ a.is # "started"
    <3>1. /\ UsedTool(codex.turn).is # "started" /\ Line("error").is # "started"
          /\ Status("idle").is # "started"
      BY DEF UsedTool, Status, Line
    <3>2. QED
      BY <1>5, <3>1, NoticesWrite
  <2>2. codex'.turn = codex.turn
    BY <1>5 DEF UseTool, ReportError, Recover, Typed
  <2>3. QED
    BY <1>2, <2>1, <2>2
<1>6. QED
  BY <1>3, <1>4, <1>5

(* A message received and a flush leave the turns alone.                   *)
LEMMA ReceivedKeepsTurns ==
    ASSUME Typed, Forward
    PROVE  /\ SameTurns(seat, seat') /\ UNCHANGED leaseVars
           /\ seat'.flight = seat.flight /\ seat'.waiting = seat.waiting
           /\ seat'.status = seat.status
           /\ out' = out /\ codex' = codex /\ stage' = stage
<1>1. CASE attached
  <2> DEFINE q == Delivered([Now EXCEPT !.net = Taken], Incoming)
  <2>1. seat' = q.seat /\ late' = q.late /\ lost' = lost /\ cut' = cut
    BY <1>1 DEF Forward, Received, Become
  <2>2. seat \in Seats
    BY DEF Typed
  <2>3. /\ q.late = late /\ SameTurns(seat, q.seat)
        /\ q.seat.flight = seat.flight /\ q.seat.waiting = seat.waiting
        /\ q.seat.status = seat.status
    BY <2>2 DEF Delivered, Now, SameTurns, Seats
  <2> HIDE DEF q
  <2>4. QED
    BY <2>1, <2>3 DEF Forward, leaseVars
<1>2. CASE ~attached
  BY <1>2 DEF Forward, Received, SameTurns
<1>3. QED
  BY <1>1, <1>2

LEMMA ReachStep == Typed /\ Typed' /\ ReachInv /\ [Next]_vars => ReachInv'
<1> SUFFICES ASSUME Typed, Typed', ReachInv, [Next]_vars PROVE ReachInv'
  OBVIOUS
<1>1. CASE UNCHANGED vars
  BY <1>1, ReachSame DEF vars, SameTurns, leaseVars
<1>2. CASE PushMessage \/ LoseLink \/ LoopEnds \/ Subscribe \/ SweepTurn \/ StopTurn
  BY <1>2, ReachSame DEF PushMessage, LoseLink, LoopEnds, Subscribe, SweepTurn, StopTurn,
      seatVars, SameTurns, leaseVars
<1>3. CASE Forward
  BY <1>3, ReceivedKeepsTurns, ReachSame DEF leaseVars
<1>4. CASE Spawn \/ Close
  <2>1. /\ out' = <<>> /\ seat'.turn = NoTurn
        /\ \A t \in Turns : seat'.awaiting[t] = <<>> /\ seat'.held[t] = <<>>
    <3>1. CASE Spawn
      BY <3>1 DEF Spawn, NewSeat
    <3>2. CASE Close
      BY <3>2 DEF Close, NewSeat
    <3>3. QED
      BY <1>4, <3>1, <3>2
  <2>2. QED
    BY <2>1, ReachFresh
<1>5. CASE Stop \/ Timer
  <2>1. Now \in Plans /\ Now.seat = seat /\ Now.late = late
    BY NowTyped DEF Now
  <2>2. seat' = Flushed(Now).seat /\ late' = Flushed(Now).late
        /\ out' = out /\ codex' = codex
    BY <1>5 DEF Stop, Timer, Become
  <2>3. SameTurns(Now.seat, Flushed(Now).seat) /\ SameLate(Now, Flushed(Now))
    BY <2>1, FlushedIs
  <2>4. SameTurns(seat, seat') /\ late' = late
    BY <2>1, <2>2, <2>3 DEF SameLate
  <2>5. QED
    BY <2>2, <2>4, ReachSame
<1>6. CASE Next
  BY <1>2, <1>3, <1>4, <1>5, <1>6, ReachRead, ReachAnswered, ReachServed, ReachTold
  DEF Next
<1>7. QED
  BY <1>1, <1>6

(* A receipt the sink keeps for a turn is kept for one still to be heard   *)
(* of, unless it came after the turn was over or swept                     *)
(* (registerStartedReceipts and the continuation of a steer): whatever the *)
(* order in which the app-server tells of a turn and answers for it.       *)
THEOREM ReceiptsAlwaysReachTheirTurn == Spec => []ReceiptsReachTheirTurn
<1>1. Init => Typed /\ OneReply /\ ReachInv
  BY TypedInit, ReachInit
<1>2. Typed /\ OneReply /\ ReachInv /\ [Next]_vars => (Typed /\ OneReply /\ ReachInv)'
  BY TypedStep, OneReplyStep, ReachStep
<1>3. Spec => [](Typed /\ OneReply /\ ReachInv)
  BY <1>1, <1>2, PTL DEF Spec
<1>4. ReachInv => ReceiptsReachTheirTurn
  BY DEF ReachInv
<1>5. QED
  BY <1>3, <1>4, PTL
-----------------------------------------------------------------------------
(* What is buffered is due.                                                *)

(* The stages of a teardown, and what is left of the agent after it.       *)
StagesInv ==
    /\ attached <=> stage = "up"
    /\ stage = "off" => out = <<>> /\ codex.turn = NoTurn /\ ~codex.broken
    /\ \A i \in 1 .. Len(out) :
           out[i].is = "interrupted" => stage \in {"interrupted", "closing"}

(* A sink that takes codex for active will hear otherwise, or codex is.    *)
StatusFollows(o, i) == \E j \in 1 .. Len(o) : j > i /\ o[j].is = "status"

StatusIsTold ==
    stage = "up" =>
        /\ seat.status = "active" /\ codex.turn = NoTurn =>
               \E i \in 1 .. Len(out) : out[i].is = "status"
        /\ \A i \in 1 .. Len(out) :
               out[i].is = "status" /\ out[i].says = "active" =>
                   codex.turn # NoTurn \/ StatusFollows(out, i)

(* The final flush of the stage g has returned to the sink s.              *)
DueIn(g, s) == /\ g \in {"flushed", "flushing"} /\ ~s.waiting
               /\ g = "flushing" => s.flight.at = "none"

(* What a flush leaves behind, and what each stage may still have.         *)
SettledIn(g, s) ==
    /\ g # "off" => s.status # "notLoaded"
    /\ g = "off" => s.buffer = <<>> /\ s.flight.at = "none"
    /\ g = "flushing" /\ ~s.waiting /\ s.flight.at # "none" => s.buffer = <<>>
    /\ DueIn(g, s) /\ s.buffer # <<>> => s.turn = NoTurn
    /\ g \in {"interrupting", "interrupted"} => s.buffer = <<>>

WaitsIn(g, s) ==
    g = "up" /\ s.buffer # <<>> /\ ~s.timer /\ ~s.waiting => s.status = "active"

DueInv == StagesInv /\ StatusIsTold /\ SettledIn(stage, seat) /\ WaitsIn(stage, seat)

LEMMA SettledFlush ==
    ASSUME NEW p \in Plans, NEW g \in Stages \ {"off"}, SettledIn(g, p.seat),
           ~DueIn(g, p.seat)
    PROVE  SettledIn(g, Flushed(p).seat) /\ WaitsIn(g, Flushed(p).seat)
<1> DEFINE s == p.seat
           q == Flushed(p).seat
<1>1. /\ q.turn = s.turn /\ q.status = s.status /\ q.timer = FALSE
      /\ s.status # "notLoaded"
  BY FlushedIs DEF SameTurns, SettledIn
<1>2. /\ s.waiting \in BOOLEAN /\ s \in Seats
  BY DEF Plans, Seats
<1>3. \/ /\ s.buffer # <<>> /\ s.flight.at # "none"
         /\ q.waiting = TRUE /\ q.buffer = s.buffer /\ q.flight = s.flight
      \/ /\ s.buffer = <<>> \/ s.flight.at = "none"
         /\ q.waiting = s.waiting
         /\ Drains(s, p.net, q, Flushed(p).net)
  BY FlushedIs
<1>4. CASE /\ s.buffer # <<>> /\ s.flight.at # "none"
           /\ q.waiting = TRUE /\ q.buffer = s.buffer /\ q.flight = s.flight
  BY <1>1, <1>4 DEF SettledIn, WaitsIn, DueIn
<1>5. CASE /\ s.buffer = <<>> \/ s.flight.at = "none"
           /\ q.waiting = s.waiting
           /\ Drains(s, p.net, q, Flushed(p).net)
  <2>1. \/ q.buffer = <<>>
        \/ /\ q.buffer = s.buffer /\ q.flight = s.flight
           /\ s.status = "active" /\ s.turn = NoTurn
    BY <1>1, <1>5 DEF Drains
  <2>2. q.buffer = <<>> => SettledIn(g, q) /\ WaitsIn(g, q)
    BY <1>1 DEF SettledIn, WaitsIn
  <2>3. ASSUME q.buffer = s.buffer, q.flight = s.flight, s.buffer # <<>>,
               s.status = "active", s.turn = NoTurn
        PROVE  SettledIn(g, q) /\ WaitsIn(g, q)
    BY <1>1, <1>5, <2>3 DEF SettledIn, WaitsIn, DueIn
  <2>4. QED
    BY <2>1, <2>2, <2>3
<1>6. QED
  BY <1>3, <1>4, <1>5

LEMMA SettledFinish ==
    ASSUME NEW p \in Plans, NEW g \in Stages \ {"off"}, SettledIn(g, p.seat),
           WaitsIn(g, p.seat), p.seat.flight.at # "none"
    PROVE  SettledIn(g, Finished(p).seat) /\ WaitsIn(g, Finished(p).seat)
<1> DEFINE s == p.seat
           q == Finished(p).seat
           e == [s EXCEPT !.flight = NoFlight]
<1>1. /\ q.turn = s.turn /\ q.status = s.status /\ q.timer = s.timer
      /\ s.status # "notLoaded" /\ q.waiting = FALSE
  BY FinishedIs DEF SameTurns, SettledIn
<1>2. s \in Seats
  BY DEF Plans
<1>3. \/ ~s.waiting /\ q.buffer = s.buffer /\ q.flight = NoFlight
      \/ Drains(e, p.net, q, Finished(p).net)
  BY FinishedIs
<1>4. CASE ~s.waiting /\ q.buffer = s.buffer /\ q.flight = NoFlight
  <2>1. NoFlight.at = "none"
    BY DEF NoFlight
  <2>2. QED
    BY <1>1, <1>4, <2>1 DEF SettledIn, WaitsIn, DueIn
<1>5. CASE Drains(e, p.net, q, Finished(p).net)
  <2>1. /\ e.buffer = s.buffer /\ e.flight = NoFlight /\ e.status = s.status
        /\ e.turn = s.turn /\ NoFlight.at = "none"
    BY <1>2 DEF Seats, NoFlight
  <2> HIDE DEF e
  <2>2. \/ q.buffer = <<>>
        \/ /\ q.buffer = s.buffer /\ q.flight.at = "none"
           /\ s.status = "active" /\ s.turn = NoTurn
    BY <1>1, <1>5, <2>1 DEF Drains
  <2>3. q.buffer = <<>> => SettledIn(g, q) /\ WaitsIn(g, q)
    BY <1>1 DEF SettledIn, WaitsIn
  <2>4. ASSUME q.buffer = s.buffer, q.flight.at = "none", s.buffer # <<>>,
               s.status = "active", s.turn = NoTurn
        PROVE  SettledIn(g, q) /\ WaitsIn(g, q)
    BY <1>1, <2>4 DEF SettledIn, WaitsIn, DueIn
  <2>5. QED
    BY <2>2, <2>3, <2>4
<1>6. QED
  BY <1>3, <1>4, <1>5

LEMMA SettledAnswered ==
    ASSUME NEW p \in Plans, NEW g \in Stages \ {"off"}, SettledIn(g, p.seat),
           WaitsIn(g, p.seat), p.seat.flight.at = "answered"
    PROVE  SettledIn(g, Answered(p).seat) /\ WaitsIn(g, Answered(p).seat)
<1> DEFINE s == p.seat
<1>1. s \in Seats /\ s.status # "notLoaded"
  BY DEF Plans, SettledIn
<1>2. CASE AsksAgain(p, Answered(p))
  <2> DEFINE q == Answered(p).seat
  <2>1. /\ q.buffer = s.buffer /\ q.timer = s.timer /\ q.waiting = s.waiting
        /\ q.status = s.status /\ q.flight.at = "sent" /\ q.turn = s.turn
    BY <1>2 DEF AsksAgain, SameTurns
  <2> HIDE DEF q
  <2>2. SettledIn(g, q) /\ WaitsIn(g, q)
    BY <1>1, <2>1 DEF SettledIn, WaitsIn, DueIn
  <2>3. QED
    BY <2>2 DEF q
<1>3. ASSUME NEW e \in Plans, Answered(p) = Finished(e),
             JoinsTurn(p, e) \/ AwaitsTurn(p, e) \/ GivesUp(p, e)
      PROVE  SettledIn(g, Answered(p).seat) /\ WaitsIn(g, Answered(p).seat)
  <2>1. /\ e.seat.buffer = s.buffer /\ e.seat.timer = s.timer
        /\ e.seat.waiting = s.waiting /\ e.seat.status = s.status
        /\ e.seat.flight = s.flight /\ e.seat.turn = s.turn
    <3>1. CASE JoinsTurn(p, e)
      BY <1>1, <3>1 DEF JoinsTurn, Seats
    <3>2. CASE AwaitsTurn(p, e)
      BY <1>1, <3>2 DEF AwaitsTurn, Seats
    <3>3. CASE GivesUp(p, e)
      BY <1>1, <3>3 DEF GivesUp
    <3>4. QED
      BY <1>3, <3>1, <3>2, <3>3
  <2>2. SettledIn(g, e.seat) /\ WaitsIn(g, e.seat) /\ e.seat.flight.at # "none"
    BY <2>1 DEF SettledIn, WaitsIn, DueIn
  <2>3. SettledIn(g, Finished(e).seat) /\ WaitsIn(g, Finished(e).seat)
    BY <2>2, SettledFinish
  <2>4. QED
    BY <1>3, <2>3
<1>4. QED
  BY <1>2, <1>3, AnsweredIs

LEMMA SettledHandled ==
    ASSUME NEW p \in Plans, NEW l \in Lines, NEW g \in Stages \ {"off"},
           SettledIn(g, p.seat), WaitsIn(g, p.seat), ~DueIn(g, p.seat),
           l.is = "reply" => p.seat.flight.at = "served"
    PROVE  SettledIn(g, Handled(p, l).seat) /\ WaitsIn(g, Handled(p, l).seat)
<1> DEFINE s == p.seat
           q == Handled(p, l).seat
<1>1. CASE l.is \notin {"reply", "status"}
  <2>1. SameBuffering(s, q)
    BY <1>1, QuietLines
  <2> HIDE DEF q
  <2>2. QED
    BY <2>1 DEF SameBuffering, SettledIn, WaitsIn, DueIn, q
<1>2. CASE l.is = "reply"
  <2>1. Handled(p, l) = OnReply(p, l) /\ s.flight.at = "served" /\ s \in Seats
    BY <1>2, HandledIs DEF Plans
  <2>2. /\ q.buffer = s.buffer /\ q.timer = s.timer /\ q.waiting = s.waiting
        /\ q.status = s.status /\ q.turn = s.turn
        /\ q.flight = [s.flight EXCEPT !.at = "answered", !.says = l.says,
                                       !.turn = l.turn]
    <3> DEFINE r == OnReply(p, l)
    <3>1. /\ SameTurns(s, r.seat) /\ r.seat.buffer = s.buffer
          /\ r.seat.timer = s.timer /\ r.seat.waiting = s.waiting
          /\ r.seat.status = s.status
          /\ r.seat.flight = [s.flight EXCEPT !.at = "answered", !.says = l.says,
                                              !.turn = l.turn]
      BY OnReplyIs
    <3> HIDE DEF r
    <3>2. Handled(p, l) = r
      BY <2>1 DEF r
    <3>3. QED
      BY <3>1, <3>2 DEF SameTurns
  <2>3. q.flight.at = "answered"
    BY <2>1, <2>2 DEF Seats, Flights
  <2> HIDE DEF q
  <2>4. SettledIn(g, q) /\ WaitsIn(g, q)
    BY <2>1, <2>2, <2>3 DEF SettledIn, WaitsIn, DueIn
  <2>5. QED
    BY <2>4 DEF q
<1>3. CASE l.is = "status"
  <2>1. l.says \in Statuses \ {"notLoaded"} /\ Handled(p, l) = OnStatus(p, l.says)
    BY <1>3, HandledIs
  <2>2. PICK e \in Plans : /\ OnStatus(p, l.says) = Flushed(e)
                           /\ e.seat = [p.seat EXCEPT !.status = l.says]
    BY <2>1, OnStatusIs
  <2>3. /\ e.seat.buffer = s.buffer /\ e.seat.waiting = s.waiting
        /\ e.seat.status = l.says /\ e.seat.turn = s.turn
        /\ e.seat.flight = s.flight
    BY <2>2 DEF Plans, Seats
  <2>4. SettledIn(g, e.seat) /\ ~DueIn(g, e.seat)
    BY <2>1, <2>3 DEF SettledIn, DueIn
  <2>5. QED
    BY <2>1, <2>2, <2>4, SettledFlush
<1>4. QED
  BY <1>1, <1>2, <1>3, HandledIs

LEMMA SettledForward ==
    ASSUME Typed, DueInv, Forward
    PROVE  SettledIn(stage, seat') /\ WaitsIn(stage, seat')
<1>1. /\ seat'.turn = seat.turn /\ seat'.status = seat.status
      /\ seat'.waiting = seat.waiting /\ seat'.flight = seat.flight
  BY ReceivedKeepsTurns DEF SameTurns
<1>2. CASE attached
  <2>1. stage = "up"
    BY <1>2 DEF DueInv, StagesInv
  <2>2. seat'.timer = TRUE
    <3>1. seat' = Delivered([Now EXCEPT !.net = Taken], Incoming).seat
      BY <1>2 DEF Forward, Received, Become
    <3>2. QED
      BY <3>1 DEF Delivered, Now, Typed, Seats
  <2>3. QED
    BY <1>1, <2>1, <2>2 DEF DueInv, SettledIn, WaitsIn, DueIn
<1>3. CASE ~attached
  BY <1>3 DEF Forward, Received, DueInv
<1>4. QED
  BY <1>2, <1>3

LEMMA SettledStop ==
    ASSUME Typed, DueInv, Stop
    PROVE  SettledIn(stage', seat') /\ WaitsIn(stage', seat')
<1>1. /\ Now \in Plans /\ Now.seat = seat /\ seat \in Seats
      /\ seat' = Flushed(Now).seat
      /\ stage' = IF seat.buffer = <<>> \/ seat.waiting THEN "flushed" ELSE "flushing"
      /\ seat.status # "notLoaded"
  BY NowTyped DEF Typed, Now, Stop, Become, DueInv, SettledIn
<1> DEFINE q == Flushed(Now).seat
<1>2. /\ q.turn = seat.turn /\ q.status = seat.status
  BY <1>1, FlushedIs DEF SameTurns
<1>3. \/ /\ seat.buffer # <<>> /\ seat.flight.at # "none"
         /\ q.waiting = TRUE /\ q.buffer = seat.buffer /\ q.flight = seat.flight
      \/ /\ seat.buffer = <<>> \/ seat.flight.at = "none"
         /\ q.waiting = seat.waiting
         /\ Drains(seat, Now.net, q, Flushed(Now).net)
  BY <1>1, FlushedIs
<1>4. CASE /\ seat.buffer # <<>> /\ seat.flight.at # "none"
           /\ q.waiting = TRUE /\ q.buffer = seat.buffer /\ q.flight = seat.flight
  BY <1>1, <1>2, <1>4 DEF SettledIn, WaitsIn, DueIn
<1>5. CASE /\ seat.buffer = <<>> \/ seat.flight.at = "none"
           /\ q.waiting = seat.waiting
           /\ Drains(seat, Now.net, q, Flushed(Now).net)
  <2>1. \/ q.buffer = <<>>
        \/ /\ q.buffer = seat.buffer /\ q.flight = seat.flight
           /\ seat.turn = NoTurn
    BY <1>1, <1>5 DEF Drains
  <2>2. QED
    BY <1>1, <1>2, <1>5, <2>1 DEF SettledIn, WaitsIn, DueIn
<1>6. QED
  BY <1>3, <1>4, <1>5

(* The sink, whatever the step.                                            *)
LEMMA SettledStep ==
    ASSUME Typed, OneReply, DueInv, [Next]_vars
    PROVE  SettledIn(stage', seat') /\ WaitsIn(stage', seat')
<1>1. SettledIn(stage, seat) /\ WaitsIn(stage, seat) /\ seat \in Seats /\ stage \in Stages
  BY DEF DueInv, Typed
<1>2. Now \in Plans /\ Now.seat = seat
  BY NowTyped DEF Now
<1>3. StopIsDue <=> DueIn(stage, seat)
  BY DEF StopIsDue, DueIn
<1>4. CASE UNCHANGED <<stage, seat>>
  BY <1>1, <1>4
<1>5. CASE Forward
  BY <1>5, SettledForward DEF Forward
<1>6. CASE Stop
  BY <1>6, SettledStop
<1>7. CASE Spawn
  <2>1. /\ stage' = "up" /\ seat'.status = "idle" /\ seat'.waiting = FALSE
        /\ seat'.timer = (seat'.buffer # <<>>)
    BY <1>7 DEF Spawn, NewSeat
  <2>2. QED
    BY <2>1 DEF SettledIn, WaitsIn, DueIn
<1>8. CASE Close
  <2>1. stage' = "off" /\ seat'.buffer = <<>> /\ seat'.flight.at = "none"
    BY <1>8 DEF Close, NewSeat, NoFlight
  <2>2. QED
    BY <2>1 DEF SettledIn, WaitsIn, DueIn
<1>9. CASE StopTurn
  <2>1. /\ DueIn(stage, seat) /\ seat.turn # NoTurn /\ stage' = "interrupting"
        /\ seat' = seat
    BY <1>3, <1>9 DEF StopTurn
  <2>2. stage # "off" /\ seat.buffer = <<>>
    BY <1>1, <2>1 DEF SettledIn, DueIn
  <2>3. QED
    BY <1>1, <2>1, <2>2 DEF SettledIn, WaitsIn, DueIn
<1>10. CASE Interrupt
  BY <1>1, <1>10 DEF Interrupt, SettledIn, WaitsIn, DueIn
<1>11. CASE Timer
  <2>1. /\ ~DueIn(stage, seat) /\ seat' = Flushed(Now).seat /\ stage' = stage
        /\ seat.timer = TRUE
    BY <1>1, <1>3, <1>11 DEF Timer, Quiet, Become, Seats
  <2>2. CASE stage # "off"
    BY <1>1, <1>2, <2>1, <2>2, SettledFlush
  <2>3. CASE stage = "off"
    <3>1. seat.buffer = <<>> /\ seat.flight.at = "none"
      BY <1>1, <2>3 DEF SettledIn
    <3>2. Flushed(Now).seat.buffer = <<>> /\ Flushed(Now).seat.flight = seat.flight
      BY <1>2, <3>1, FlushedIs DEF Drains
    <3>3. QED
      BY <2>1, <2>3, <3>1, <3>2 DEF SettledIn, WaitsIn, DueIn
  <2>4. QED
    BY <2>2, <2>3
<1>12. CASE Continue
  <2>1. /\ Now.seat.flight.at = "answered" /\ stage' = stage
        /\ seat' = Answered(Now).seat
    BY <1>2, <1>12 DEF Continue, Become
  <2>2. stage # "off"
    BY <1>1, <1>2, <2>1 DEF SettledIn
  <2>3. QED
    BY <1>1, <1>2, <2>1, <2>2, SettledAnswered
<1>13. CASE ReadLine
  <2> DEFINE l == Head(out)
  <2>1. /\ ~DueIn(stage, seat) /\ out # <<>> /\ seat' = Handled(Now, l).seat
        /\ stage' = IF l.is = "interrupted" THEN "closing" ELSE stage
    BY <1>3, <1>13 DEF ReadLine, Become
  <2>2. l \in Lines /\ (l.is = "reply" => seat.flight.at = "served")
    BY <2>1, TailOf DEF Typed, OneReply
  <2>3. stage # "off"
    BY <2>1 DEF DueInv, StagesInv
  <2> HIDE DEF l
  <2>4. SettledIn(stage, seat') /\ WaitsIn(stage, seat')
    BY <1>1, <1>2, <2>1, <2>2, <2>3, SettledHandled
  <2>5. QED
    BY <2>1, <2>3, <2>4 DEF SettledIn, WaitsIn, DueIn
<1>14. CASE StartTurn \/ Steer \/ RefuseSteer \/ RefuseRequest
  <2>1. /\ seat' = [seat EXCEPT !.flight.at = "served"] /\ stage' = stage
        /\ seat.flight.at = "sent"
    BY <1>14 DEF StartTurn, Steer, RefuseSteer, RefuseRequest, Serve, Asked
  <2>2. /\ seat'.turn = seat.turn /\ seat'.status = seat.status
        /\ seat'.waiting = seat.waiting /\ seat'.timer = seat.timer
        /\ seat'.buffer = seat.buffer /\ seat'.flight.at = "served"
    BY <1>1, <2>1 DEF Seats, Flights
  <2>3. QED
    BY <1>1, <2>1, <2>2 DEF SettledIn, WaitsIn, DueIn
<1>15. CASE \/ PushMessage \/ LoseLink \/ LoopEnds \/ Subscribe \/ SweepTurn
            \/ UseTool \/ EndTurn \/ FailTurn \/ ReportError \/ Recover
  BY <1>4, <1>15 DEF PushMessage, LoseLink, LoopEnds, Subscribe, SweepTurn,
      UseTool, EndTurn, FailTurn, ReportError, Recover, seatVars
<1>16. QED
  BY <1>4, <1>5, <1>6, <1>7, <1>8, <1>9, <1>10, <1>11, <1>12, <1>13, <1>14, <1>15
  DEF Next, vars

LEMMA StatusWritten ==
    ASSUME Typed, Typed', StagesInv, StatusIsTold, NEW l, Wrote(l),
           seat'.status = seat.status, attached' = attached,
           stage' = stage \/ (stage # "up" /\ stage' = "interrupted"),
           \A k \in 1 .. Len(l) : l[k].is = "interrupted" => stage' = "interrupted",
           stage # "off",
           \A k \in 1 .. Len(l) : l[k].is = "status" /\ l[k].says = "active" =>
               codex'.turn # NoTurn,
           \/ codex.turn = NoTurn \/ codex'.turn # NoTurn \/ stage # "up"
           \/ \E k \in 1 .. Len(l) : l[k].is = "status"
    PROVE  StagesInv' /\ StatusIsTold'
<1>1. out \in Seq(Lines) /\ l \in Seq(Lines) /\ out' = out \o l
  BY DEF Typed, Wrote
<1> DEFINE ol == out \o l
<1>2. /\ Len(out) \in Nat /\ Len(l) \in Nat
      /\ \A i \in 1 .. Len(ol) :
             \/ i \in 1 .. Len(out) /\ ol[i] = out[i]
             \/ \E k \in 1 .. Len(l) : i = Len(out) + k /\ ol[i] = l[k]
      /\ \A i \in 1 .. Len(out) : i \in 1 .. Len(ol) /\ ol[i] = out[i]
      /\ \A k \in 1 .. Len(l) : \E i \in 1 .. Len(ol) :
             i = Len(out) + k /\ ol[i] = l[k]
  BY <1>1, WrittenSplit
<1>3. out' = ol
  BY <1>1
<1> HIDE DEF ol
<1>4. StagesInv'
  <2>1. \A i \in 1 .. Len(ol) :
            ol[i].is = "interrupted" => stage' \in {"interrupted", "closing"}
    BY <1>2 DEF StagesInv
  <2>2. (attached <=> stage = "up")' /\ stage' # "off"
    BY DEF StagesInv
  <2>3. QED
    BY <1>3, <2>1, <2>2 DEF StagesInv
<1>5. ASSUME stage' = "up" PROVE StatusIsTold'
  <2>1. stage = "up" /\ stage' = stage
    BY <1>5
  <2>2. /\ seat.status = "active" /\ codex.turn = NoTurn =>
               \E i \in 1 .. Len(out) : out[i].is = "status"
        /\ \A i \in 1 .. Len(out) :
               out[i].is = "status" /\ out[i].says = "active" =>
                   codex.turn # NoTurn \/ StatusFollows(out, i)
    BY <2>1 DEF StatusIsTold
  <2>3. ASSUME codex.turn # NoTurn, codex'.turn = NoTurn
        PROVE  \E k \in 1 .. Len(ol) : /\ ol[k].is = "status"
                                       /\ \A i \in 1 .. Len(out) : k > i
    <3>1. PICK k \in 1 .. Len(l) : l[k].is = "status"
      BY <2>1, <2>3
    <3>2. PICK n \in 1 .. Len(ol) : n = Len(out) + k /\ ol[n] = l[k]
      BY <1>2
    <3>3. \A i \in 1 .. Len(out) : n > i
      BY <1>2, <3>2
    <3>4. QED
      BY <3>1, <3>2, <3>3
  <2>4. ASSUME seat'.status = "active", codex'.turn = NoTurn
        PROVE  \E i \in 1 .. Len(ol) : ol[i].is = "status"
    <3>1. CASE codex.turn # NoTurn
      BY <2>3, <2>4, <3>1
    <3>2. CASE codex.turn = NoTurn
      BY <1>2, <2>2, <2>4, <3>2
    <3>3. QED
      BY <3>1, <3>2
  <2>5. ASSUME NEW i \in 1 .. Len(ol), ol[i].is = "status", ol[i].says = "active",
               codex'.turn = NoTurn
        PROVE  StatusFollows(ol, i)
    <3>1. i \in 1 .. Len(out) /\ ol[i] = out[i]
      BY <1>2, <2>5
    <3>2. CASE codex.turn # NoTurn
      BY <2>3, <2>5, <3>1, <3>2 DEF StatusFollows
    <3>3. CASE StatusFollows(out, i)
      <4>1. PICK j \in 1 .. Len(out) : j > i /\ out[j].is = "status"
        BY <3>3 DEF StatusFollows
      <4>2. j \in 1 .. Len(ol) /\ ol[j] = out[j]
        BY <1>2
      <4>3. QED
        BY <4>1, <4>2 DEF StatusFollows
    <3>4. QED
      BY <2>2, <2>5, <3>1, <3>2, <3>3
  <2>6. QED
    BY <1>3, <2>4, <2>5 DEF StatusIsTold, StatusFollows
<1>6. stage' # "up" => StatusIsTold'
  BY DEF StatusIsTold
<1>7. QED
  BY <1>4, <1>5, <1>6

LEMMA StatusSame ==
    ASSUME StagesInv, StatusIsTold, out' = out, codex' = codex,
           seat'.status = seat.status,
           stage' = "up" => stage = "up", stage' = "off" => stage = "off",
           attached' <=> stage' = "up",
           stage \in {"interrupted", "closing"} => stage' \in {"interrupted", "closing"}
    PROVE  StagesInv' /\ StatusIsTold'
BY DEF StagesInv, StatusIsTold, StatusFollows

LEMMA StatusFresh ==
    ASSUME out' = <<>>, attached' <=> stage' = "up", seat'.status # "active",
           codex'.turn = NoTurn, ~codex'.broken
    PROVE  StagesInv' /\ StatusIsTold'
<1>1. Len(out') = 0
  OBVIOUS
<1>2. QED
  BY <1>1 DEF StagesInv, StatusIsTold

LEMMA StatusRead ==
    ASSUME Typed, Typed', DueInv, ReadLine PROVE StagesInv' /\ StatusIsTold'
<1> DEFINE l == Head(out)
<1>1. /\ out # <<>> /\ out' = Tail(out) /\ codex' = codex /\ attached' = attached
      /\ Now \in Plans /\ Now.seat = seat /\ l \in Lines
      /\ stage' = IF l.is = "interrupted" THEN "closing" ELSE stage
      /\ seat' = Handled(Now, l).seat
      /\ StagesInv /\ StatusIsTold
  BY NowTyped, TailOf DEF Typed, ReadLine, Now, Become, wrapperVars, DueInv
<1>2. /\ Len(out') = Len(out) - 1 /\ Len(out) \in Nat /\ Len(out) >= 1
      /\ l = out[1] /\ 1 \in 1 .. Len(out)
      /\ \A i \in 1 .. Len(out) - 1 : out'[i] = out[i + 1]
  BY TailOf DEF Typed, ReadLine
<1> HIDE DEF l
<1>3. l.is = "interrupted" => stage \in {"interrupted", "closing"}
  BY <1>1, <1>2 DEF StagesInv
<1>4. stage # "off"
  BY <1>1 DEF StagesInv
<1>5. \A i \in 1 .. Len(out') : i + 1 \in 1 .. Len(out) /\ out'[i] = out[i + 1]
  BY <1>2
<1>6. StagesInv'
  <2>1. \A i \in 1 .. Len(out') :
            out'[i].is = "interrupted" => stage' \in {"interrupted", "closing"}
    BY <1>1, <1>5 DEF StagesInv
  <2>2. (attached <=> stage = "up")' /\ stage' # "off"
    BY <1>1, <1>3, <1>4 DEF StagesInv
  <2>3. QED
    BY <2>1, <2>2 DEF StagesInv
<1>7. seat'.status = IF l.is = "status" THEN l.says ELSE seat.status
  <2>1. CASE l.is = "status"
    <3>1. l.says \in Statuses \ {"notLoaded"} /\ Handled(Now, l) = OnStatus(Now, l.says)
      BY <1>1, <2>1, HandledIs
    <3>2. PICK e \in Plans : /\ OnStatus(Now, l.says) = Flushed(e)
                             /\ e.seat = [seat EXCEPT !.status = l.says]
      BY <1>1, <3>1, OnStatusIs
    <3>3. e.seat.status = l.says
      BY <3>2 DEF Typed, Seats
    <3>4. Flushed(e).seat.status = e.seat.status
      BY FlushedIs
    <3>5. seat' = Flushed(e).seat
      BY <1>1, <3>1, <3>2
    <3>6. QED
      BY <2>1, <3>3, <3>4, <3>5
  <2>2. CASE l.is = "reply"
    <3>1. Handled(Now, l) = OnReply(Now, l)
      BY <1>1, <2>2, HandledIs
    <3>2. OnReply(Now, l).seat.status = Now.seat.status
      BY <1>1, OnReplyIs
    <3>3. QED
      BY <1>1, <2>2, <3>1, <3>2
  <2>3. CASE l.is \notin {"reply", "status"}
    BY <1>1, <2>3, QuietLines DEF SameBuffering
  <2>4. QED
    BY <1>1, <2>1, <2>2, <2>3
<1>8. ASSUME stage' = "up" PROVE StatusIsTold'
  <2>1. stage = "up" /\ l.is # "interrupted"
    BY <1>1, <1>8
  <2>2. /\ seat.status = "active" /\ codex.turn = NoTurn =>
               \E i \in 1 .. Len(out) : out[i].is = "status"
        /\ \A i \in 1 .. Len(out) :
               out[i].is = "status" /\ out[i].says = "active" =>
                   codex.turn # NoTurn \/ StatusFollows(out, i)
    BY <1>1, <2>1 DEF StatusIsTold
  <2>3. ASSUME NEW i \in 1 .. Len(out), NEW j \in 1 .. Len(out), j > i
        PROVE  \E k \in 1 .. Len(out') : k > i - 1 /\ out'[k] = out[j]
    <3> DEFINE k == j - 1
    <3>1. k \in 1 .. Len(out) - 1 /\ k + 1 = j /\ k > i - 1
      BY <1>2, <2>3
    <3> HIDE DEF k
    <3>2. out'[k] = out[k + 1]
      BY <1>2, <3>1
    <3>3. out'[k] = out[j]
      BY <3>1, <3>2, Zenon
    <3>4. QED
      BY <1>2, <3>1, <3>3
  <2>4. ASSUME seat'.status = "active", codex'.turn = NoTurn
        PROVE  \E i \in 1 .. Len(out') : out'[i].is = "status"
    <3>1. PICK j \in 1 .. Len(out) : j > 1 /\ out[j].is = "status"
      <4>1. CASE l.is = "status"
        <5>1. out[1].is = "status" /\ out[1].says = "active"
          BY <1>2, <1>7, <2>4, <4>1
        <5>2. StatusFollows(out, 1)
          BY <1>1, <1>2, <2>2, <2>4, <5>1
        <5>3. QED
          BY <5>2 DEF StatusFollows
      <4>2. CASE l.is # "status"
        <5>1. PICK i \in 1 .. Len(out) : out[i].is = "status"
          BY <1>1, <1>7, <2>2, <2>4, <4>2
        <5>2. i # 1
          BY <1>2, <4>2, <5>1
        <5>3. QED
          BY <1>2, <5>1, <5>2
      <4>3. QED
        BY <4>1, <4>2
    <3>2. QED
      BY <1>2, <2>3, <3>1
  <2>5. ASSUME NEW i \in 1 .. Len(out'), out'[i].is = "status",
               out'[i].says = "active", codex'.turn = NoTurn
        PROVE  StatusFollows(out', i)
    <3> DEFINE n == i + 1
    <3>1. n \in 1 .. Len(out) /\ out'[i] = out[n] /\ n - 1 = i
      BY <1>2
    <3> HIDE DEF n
    <3>2. StatusFollows(out, n)
      BY <1>1, <2>2, <2>5, <3>1
    <3>3. PICK j \in 1 .. Len(out) : j > n /\ out[j].is = "status"
      BY <3>2 DEF StatusFollows
    <3>4. PICK k \in 1 .. Len(out') : k > n - 1 /\ out'[k] = out[j]
      BY <2>3, <3>1, <3>3
    <3>5. QED
      BY <3>1, <3>3, <3>4 DEF StatusFollows
  <2>6. QED
    BY <2>4, <2>5 DEF StatusIsTold
<1>9. stage' # "up" => StatusIsTold'
  BY DEF StatusIsTold
<1>10. QED
  BY <1>6, <1>8, <1>9

LEMMA StatusServed ==
    ASSUME Typed, Typed', DueInv, StartTurn \/ Steer \/ RefuseSteer \/ RefuseRequest
    PROVE  StagesInv' /\ StatusIsTold'
<1>1. /\ seat' = [seat EXCEPT !.flight.at = "served"] /\ seat.flight.at = "sent"
      /\ stage' = stage /\ attached' = attached /\ seat \in Seats
      /\ StagesInv /\ StatusIsTold
  BY DEF StartTurn, Steer, RefuseSteer, RefuseRequest, Serve, Asked, wrapperVars,
      Typed, DueInv
<1>2. seat'.status = seat.status /\ stage # "off"
  <2>1. SettledIn(stage, seat)
    BY DEF DueInv
  <2>2. QED
    BY <1>1, <2>1 DEF Seats, SettledIn
<1>3. CASE StartTurn
  <2> DEFINE t == codex.used + 1
  <2>1. /\ t \in Turns /\ codex' = [codex EXCEPT !.turn = t, !.used = t]
        /\ \/ Wrote(<<Reply("ok", t), Started(t), Status("active")>>)
           \/ Wrote(<<Status("active"), Started(t), Reply("ok", t)>>)
    BY <1>3, StartTurnWrites
  <2>2. codex'.turn # NoTurn
    BY <2>1, NoTurnIsNone DEF Typed
  <2> HIDE DEF t
  <2> DEFINE a == <<Reply("ok", t), Started(t), Status("active")>>
             b == <<Status("active"), Started(t), Reply("ok", t)>>
  <2>3. /\ Reply("ok", t).is # "interrupted" /\ Started(t).is # "interrupted"
        /\ Status("active").is # "interrupted"
    BY DEF Reply, Started, Status, Line
  <2>4. /\ \A k \in 1 .. Len(a) : a[k].is # "interrupted"
        /\ \A k \in 1 .. Len(b) : b[k].is # "interrupted"
    BY <2>3
  <2>5. Wrote(a) \/ Wrote(b)
    BY <2>1
  <2> HIDE DEF a, b
  <2>6. QED
    BY <1>1, <1>2, <2>2, <2>4, <2>5, StatusWritten
<1>4. CASE Steer \/ RefuseSteer \/ RefuseRequest
  <2>1. PICK a : Wrote(<<a>>) /\ a.is = "reply"
    <3>1. /\ Reply("ok", codex.turn).is = "reply" /\ Reply("race", NoTurn).is = "reply"
          /\ Reply("failed", NoTurn).is = "reply"
      BY DEF Reply, Line
    <3>2. QED
      BY <1>4, <3>1, RequestsWrite
  <2> DEFINE l == <<a>>
  <2>2. \A k \in 1 .. Len(l) : l[k].is = "reply"
    BY <2>1
  <2>3. Wrote(l) /\ codex' = codex
    BY <1>4, <2>1 DEF Steer, RefuseSteer, RefuseRequest
  <2> HIDE DEF l
  <2>4. QED
    BY <1>1, <1>2, <2>2, <2>3, StatusWritten
<1>5. QED
  BY <1>3, <1>4

LEMMA StatusTold ==
    ASSUME Typed, Typed', DueInv,
           EndTurn \/ FailTurn \/ Interrupt \/ UseTool \/ ReportError \/ Recover
    PROVE  StagesInv' /\ StatusIsTold'
<1>1. /\ seat' = seat /\ attached' = attached /\ StagesInv /\ StatusIsTold
      /\ stage' = stage \/ (stage # "up" /\ stage' = "interrupted")
      /\ ~Interrupt => stage' = stage
      /\ Interrupt => stage = "interrupting" /\ stage' = "interrupted"
  BY DEF EndTurn, FailTurn, Interrupt, UseTool, ReportError, Recover, wrapperVars,
      DueInv
<1>2. stage # "off"
  <2>1. CASE EndTurn \/ FailTurn
    BY <1>1, <2>1 DEF EndTurn, FailTurn, StagesInv
  <2>2. CASE UseTool
    BY <1>1, <2>2, NoTurnIsNone DEF UseTool, StagesInv
  <2>3. CASE Interrupt \/ ReportError
    BY <1>1, <2>3 DEF ReportError
  <2>4. CASE Recover
    BY <1>1, <2>4 DEF Recover, StagesInv
  <2>5. QED
    BY <2>1, <2>2, <2>3, <2>4
<1>3. CASE EndTurn \/ FailTurn
  <2>1. PICK how \in {"completed", "failed"}, s \in {"idle", "systemError"} :
            \/ Wrote(<<Completed(codex.turn, how), Status(s)>>)
            \/ Wrote(<<Status(s), Completed(codex.turn, how)>>)
    BY <1>3, EndsWrite
  <2> DEFINE a == Completed(codex.turn, how)
             b == Status(s)
             ab == <<a, b>>
             ba == <<b, a>>
  <2>2. a.is = "completed" /\ b.is = "status" /\ b.says # "active"
    BY DEF Completed, Status, Line
  <2>3. Wrote(ab) \/ Wrote(ba)
    BY <2>1
  <2>4. /\ \A k \in 1 .. Len(ab) : /\ ab[k].is # "interrupted"
                                   /\ ab[k].is = "status" => ab[k].says # "active"
        /\ \A k \in 1 .. Len(ba) : /\ ba[k].is # "interrupted"
                                   /\ ba[k].is = "status" => ba[k].says # "active"
        /\ 2 \in 1 .. Len(ab) /\ ab[2] = b /\ 1 \in 1 .. Len(ba) /\ ba[1] = b
    BY <2>2
  <2> HIDE DEF a, b, ab, ba
  <2>5. stage' = stage
    BY <1>3, <1>1 DEF EndTurn, FailTurn
  <2>6. CASE Wrote(ab)
    <3>1. \E k \in 1 .. Len(ab) : ab[k].is = "status"
      BY <2>2, <2>4
    <3>2. QED
      BY <1>1, <1>2, <2>4, <2>5, <2>6, <3>1, StatusWritten
  <2>7. CASE Wrote(ba)
    <3>1. \E k \in 1 .. Len(ba) : ba[k].is = "status"
      BY <2>2, <2>4
    <3>2. QED
      BY <1>1, <1>2, <2>4, <2>5, <2>7, <3>1, StatusWritten
  <2>8. QED
    BY <2>3, <2>6, <2>7
<1>4. CASE Interrupt
  <2> DEFINE a == Completed(codex.turn, "interrupted")
             b == Line("interrupted")
  <2>1. Wrote(<<b>>) \/ Wrote(<<a, b>>) \/ Wrote(<<b, a>>)
    BY <1>4, InterruptWrites
  <2>2. a.is # "status" /\ b.is # "status"
    BY DEF Completed, Line
  <2> HIDE DEF a, b
  <2>3. ASSUME NEW l, l \in {<<b>>, <<a, b>>, <<b, a>>}, Wrote(l)
        PROVE  StagesInv' /\ StatusIsTold'
    <3>1. \A k \in 1 .. Len(l) : l[k].is # "status"
      BY <2>2, <2>3
    <3>2. QED
      BY <1>1, <1>2, <1>4, <2>3, <3>1, StatusWritten
  <2>4. QED
    BY <2>1, <2>3
<1>5. CASE UseTool \/ ReportError \/ Recover
  <2>1. PICK a : /\ Wrote(<<a>>) /\ a.is # "interrupted"
                 /\ a.is = "status" => a.says # "active"
    <3>1. /\ UsedTool(codex.turn).is = "acted" /\ Line("error").is = "error"
          /\ Status("idle").is = "status" /\ Status("idle").says = "idle"
      BY DEF UsedTool, Status, Line
    <3>2. QED
      BY <1>5, <3>1, NoticesWrite
  <2> DEFINE l == <<a>>
  <2>2. \A k \in 1 .. Len(l) : /\ l[k].is # "interrupted"
                               /\ l[k].is = "status" => l[k].says # "active"
    BY <2>1
  <2>3. codex'.turn = codex.turn /\ stage' = stage
    BY <1>5 DEF UseTool, ReportError, Recover, Typed
  <2>4. Wrote(l)
    BY <2>1
  <2> HIDE DEF l
  <2>5. QED
    BY <1>1, <1>2, <2>2, <2>3, <2>4, StatusWritten
<1>6. QED
  BY <1>3, <1>4, <1>5

LEMMA DueInit == Init => DueInv
<1> SUFFICES ASSUME Init PROVE DueInv
  OBVIOUS
<1>1. Len(out) = 0 /\ seat.status = "notLoaded" /\ seat.buffer = <<>>
      /\ seat.flight.at = "none" /\ stage = "off" /\ ~attached
      /\ codex.turn = NoTurn /\ ~codex.broken /\ out = <<>>
  BY DEF Init, NewSeat, NewCodex, NoFlight
<1>2. QED
  BY <1>1 DEF DueInv, StagesInv, StatusIsTold, SettledIn, WaitsIn, DueIn

LEMMA DueStep == Typed /\ Typed' /\ OneReply /\ DueInv /\ [Next]_vars => DueInv'
<1> SUFFICES ASSUME Typed, Typed', OneReply, DueInv, [Next]_vars PROVE DueInv'
  OBVIOUS
<1>1. (SettledIn(stage, seat) /\ WaitsIn(stage, seat))'
  BY SettledStep DEF SettledIn, WaitsIn, DueIn
<1>2. StagesInv /\ StatusIsTold
  BY DEF DueInv
<1> SUFFICES StagesInv' /\ StatusIsTold'
  BY <1>1 DEF DueInv
<1>3. ASSUME out' = out, codex' = codex, seat'.status = seat.status,
             \/ attached' = attached /\ stage' = stage
             \/ attached' = FALSE /\ stage \in {"up", "flushed", "flushing"}
                /\ stage' \notin {"up", "off"}
      PROVE  StagesInv' /\ StatusIsTold'
  <2>0. attached <=> stage = "up"
    BY <1>2, Zenon DEF StagesInv
  <2>1. attached' <=> stage' = "up"
    <3>1. CASE attached' = attached /\ stage' = stage
      BY <2>0, <3>1, Zenon
    <3>2. CASE attached' = FALSE /\ stage' \notin {"up", "off"}
      <4>1. stage' # "up"
        BY <3>2
      <4>2. ~attached'
        BY <3>2, Zenon
      <4>3. QED
        BY <4>1, <4>2, Zenon
    <3>3. QED
      BY <1>3, <3>1, <3>2, Zenon
  <2>2. /\ stage' = "up" => stage = "up"
        /\ stage' = "off" => stage = "off"
        /\ stage \in {"interrupted", "closing"} => stage' \in {"interrupted", "closing"}
    BY <1>3
  <2>3. QED
    BY <1>2, <1>3, <2>1, <2>2, StatusSame
<1>4. CASE \/ UNCHANGED vars \/ PushMessage \/ LoseLink \/ LoopEnds
           \/ Subscribe \/ SweepTurn
  BY <1>3, <1>4 DEF PushMessage, LoseLink, LoopEnds, Subscribe, SweepTurn,
      seatVars, wrapperVars, vars
<1>5. CASE Forward
  BY <1>3, <1>5, ReceivedKeepsTurns DEF Forward
<1>6. CASE Spawn
  BY <1>6, StatusFresh DEF Spawn, NewSeat, NewCodex
<1>7. CASE Close
  <2>1. attached' = attached /\ stage # "up" /\ stage' = "off"
    BY <1>7 DEF Close, StopIsDue, wrapperVars
  <2>2. attached' <=> stage' = "up"
    BY <1>2, <2>1, Zenon DEF StagesInv
  <2>3. /\ out' = <<>> /\ seat'.status # "active"
        /\ codex'.turn = NoTurn /\ ~codex'.broken
    BY <1>7 DEF Close, NewSeat, NewCodex
  <2>4. QED
    BY <2>2, <2>3, StatusFresh
<1>8. CASE StopTurn
  <2>1. /\ stage \in {"flushed", "flushing"} /\ stage' = "interrupting"
        /\ attached' = attached
    BY <1>8 DEF StopTurn, StopIsDue, wrapperVars
  <2>2. attached' = FALSE
    BY <1>2, <2>1, Zenon DEF StagesInv, Typed
  <2>3. QED
    BY <1>3, <1>8, <2>1, <2>2 DEF StopTurn
<1>9. CASE Stop \/ Timer
  <2>1. Now \in Plans /\ Now.seat = seat /\ seat' = Flushed(Now).seat
    BY <1>9, NowTyped DEF Now, Stop, Timer, Become
  <2>2. seat'.status = seat.status
    BY <2>1, FlushedIs
  <2>3. QED
    BY <1>3, <1>9, <2>2 DEF Stop, Timer, wrapperVars
<1>10. CASE Continue
  <2>1. /\ Now \in Plans /\ Now.seat = seat /\ seat' = Answered(Now).seat
        /\ Now.seat.flight.at = "answered"
    BY <1>10, NowTyped DEF Now, Continue, Become
  <2>2. seat'.status = seat.status
    <3>1. CASE AsksAgain(Now, Answered(Now))
      BY <2>1, <3>1 DEF AsksAgain
    <3>2. ASSUME NEW e \in Plans, Answered(Now) = Finished(e),
                 JoinsTurn(Now, e) \/ AwaitsTurn(Now, e) \/ GivesUp(Now, e)
          PROVE  seat'.status = seat.status
      <4>1. e.seat.status = seat.status
        BY <2>1, <3>2 DEF JoinsTurn, AwaitsTurn, GivesUp, Plans, Seats
      <4>2. Finished(e).seat.status = e.seat.status
        BY FinishedIs
      <4>3. QED
        BY <2>1, <3>2, <4>1, <4>2
    <3>3. QED
      BY <2>1, <3>1, <3>2, AnsweredIs
  <2>3. QED
    BY <1>3, <1>10, <2>2 DEF Continue, wrapperVars
<1>11. QED
  BY <1>4, <1>5, <1>6, <1>7, <1>8, <1>9, <1>10, StatusRead, StatusServed,
     StatusTold DEF Next

(* No wakeup is lost: whenever events are buffered, the bundle timer, a    *)
(* flush that waits, a turn or status of codex still to come, or the final *)
(* flush of a teardown will look at them (scheduleFlush, flush, flushNow,  *)
(* applyStatus), in every interleaving of lines, answers and teardowns.    *)
THEOREM BufferIsAlwaysDue == Spec => []BufferIsDue
<1>1. Init => Typed /\ OneReply /\ DueInv
  BY TypedInit, DueInit
<1>2. Typed /\ OneReply /\ DueInv /\ [Next]_vars => (Typed /\ OneReply /\ DueInv)'
  BY TypedStep, OneReplyStep, DueStep
<1>3. Spec => [](Typed /\ OneReply /\ DueInv)
  BY <1>1, <1>2, PTL DEF Spec
<1>4. Typed /\ DueInv => BufferIsDue
  <2>1. SUFFICES ASSUME Typed, DueInv, seat.buffer # <<>>, ~seat.timer, ~seat.waiting,
                        codex.turn = NoTurn, ~StopIsDue, stage # "closing"
                 PROVE  \E i \in DOMAIN out : out[i].is = "status"
    BY DEF BufferIsDue
  <2>2. /\ SettledIn(stage, seat) /\ WaitsIn(stage, seat) /\ StatusIsTold
        /\ stage \in Stages /\ seat \in Seats /\ DOMAIN out = 1 .. Len(out)
    BY <2>1 DEF DueInv, Typed
  <2>3. stage = "up"
    BY <2>1, <2>2 DEF SettledIn, StopIsDue, Stages
  <2>4. QED
    BY <2>1, <2>2, <2>3 DEF WaitsIn, StatusIsTold
<1>5. QED
  BY <1>3, <1>4, PTL
-----------------------------------------------------------------------------
(* No frame says more than the turn showed.                                *)

(* What it takes to settle the message m as d, and to put s in the turn t. *)
Backed(m, d) ==
    /\ d = "handled" => \E t \in shown[m] : ends[t] = "well"
    /\ d = "acted" => \E t \in shown[m] : t \in actedIn
ShownIn(t, s) == \A r \in ToSet(s) : t \in shown[r[1]]

HonestAct(a) == a.do = "settle" => Backed(a.of[1], a.as)

HonestNet(n) ==
    /\ \A m \in Msgs : Backed(m, n.row[m])
    /\ \A i \in 1 .. Len(n.pend) : HonestAct(n.pend[i])

HonestSeat(s) ==
    /\ \A t \in Turns : ShownIn(t, s.awaiting[t]) /\ ShownIn(t, s.held[t])
    /\ s.flight.at = "answered" /\ s.flight.says = "ok" =>
           ShownIn(s.flight.turn, s.flight.events)

HonestLine(l, events) ==
    /\ l.is = "reply" /\ l.says = "ok" => ShownIn(l.turn, events)
    /\ l.is = "completed" /\ l.says # "failed" => ends[l.turn] = "well"
    /\ l.is = "acted" => l.turn \in actedIn

(* A turn ends once.                                                       *)
EndsOnce ==
    /\ codex.turn <= codex.used
    /\ \A t \in Turns : t = codex.turn \/ t > codex.used => ends[t] = "none"

HonestInv ==
    /\ HonestNet(stream) /\ HonestSeat(seat) /\ EndsOnce
    /\ \A i \in 1 .. Len(out) : HonestLine(out[i], seat.flight.events)

LEMMA PlainlyBacked ==
    ASSUME NEW m PROVE \A d : d \notin {"handled", "acted"} => Backed(m, d)
BY DEF Backed

(* Where the rows of n2 are those of n or are claims of nothing.           *)
LEMMA HonestKept ==
    ASSUME NEW n, NEW n2, HonestNet(n), n2.pend = n.pend,
           \A m \in Msgs : n2.row[m] = n.row[m] \/ n2.row[m] \notin {"handled", "acted"}
    PROVE  HonestNet(n2)
<1>1. \A m \in Msgs : Backed(m, n2.row[m])
  BY PlainlyBacked DEF HonestNet
<1>2. QED
  BY <1>1 DEF HonestNet

LEMMA HonestReleased ==
    ASSUME NEW n \in Streams, HonestNet(n) PROVE HonestNet(Released(n))
<1>1. /\ Released(n).pend = n.pend
      /\ \A m \in Msgs : Released(n).row[m] = n.row[m] \/ Released(n).row[m] = "pending"
  BY DEF Released, Streams
<1> DEFINE q == Released(n)
<1> HIDE DEF q
<1>2. /\ q.pend = n.pend
      /\ \A m \in Msgs : q.row[m] = n.row[m] \/ q.row[m] \notin {"handled", "acted"}
  BY <1>1 DEF q
<1>3. QED
  BY <1>2, HonestKept DEF q

LEMMA HonestHears ==
    ASSUME NEW n \in Streams, HonestNet(n)
    PROVE  /\ \A m \in Msgs : HonestNet(HearAccepted(n, m))
           /\ \A m \in Msgs, d \in Outcomes \cup {"deferred"} :
                  Backed(m, d) => HonestNet(HearSettled(n, m, d))
           /\ \A c \in {"ready", "degraded"} : HonestNet(HearCondition(n, c))
           /\ \A t \in Turns : \A phase : HonestNet(HearTurn(n, t, phase))
<1>1. ASSUME NEW m \in Msgs PROVE HonestNet(HearAccepted(n, m))
  <2> DEFINE q == HearAccepted(n, m)
  <2>1. /\ q.pend = n.pend
        /\ \A k \in Msgs : q.row[k] = n.row[k] \/ q.row[k] \notin {"handled", "acted"}
    BY DEF HearAccepted, Streams
  <2> HIDE DEF q
  <2>2. QED
    BY <2>1, HonestKept DEF q
<1>2. ASSUME NEW m \in Msgs, NEW d \in Outcomes \cup {"deferred"}, Backed(m, d)
      PROVE  HonestNet(HearSettled(n, m, d))
  <2> DEFINE q == HearSettled(n, m, d)
  <2>1. /\ q.pend = n.pend
        /\ \A k \in Msgs : \/ q.row[k] = n.row[k]
                           \/ q.row[k] = "pending"
                           \/ k = m /\ q.row[k] = d
    BY DEF HearSettled, Streams
  <2> HIDE DEF q
  <2>2. \A k \in Msgs : Backed(k, q.row[k])
    BY <1>2, <2>1, PlainlyBacked DEF HonestNet
  <2>3. QED
    BY <2>1, <2>2 DEF HonestNet, q
<1>3. ASSUME NEW c \in {"ready", "degraded"} PROVE HonestNet(HearCondition(n, c))
  <2> DEFINE worse == [n EXCEPT !.cond = c]
             ready == [n EXCEPT !.cond = c, !.down = @ \o PendingRows(n)]
  <2>1. /\ worse \in Streams /\ worse.row = n.row /\ worse.pend = n.pend
        /\ ready.row = n.row /\ ready.pend = n.pend
    BY DEF Streams
  <2>2. HearCondition(n, c) \in {Released(worse), n, ready}
    BY DEF HearCondition
  <2> HIDE DEF worse, ready
  <2>3. HonestNet(worse) /\ HonestNet(ready)
    BY <2>1 DEF HonestNet
  <2>4. QED
    BY <2>1, <2>2, <2>3, HonestReleased
<1>4. ASSUME NEW t \in Turns, NEW phase PROVE HonestNet(HearTurn(n, t, phase))
  <2> DEFINE more == [n EXCEPT !.open = @ \cup {t}]
             closed == [n EXCEPT !.open = @ \ {t}]
             worse == [closed EXCEPT !.cond = "degraded"]
  <2>1. /\ more.row = n.row /\ more.pend = n.pend
        /\ closed.row = n.row /\ closed.pend = n.pend
        /\ worse \in Streams /\ worse.row = n.row /\ worse.pend = n.pend
    BY DEF Streams
  <2>2. HearTurn(n, t, phase) \in {more, n, Released(worse), closed}
    BY DEF HearTurn
  <2> HIDE DEF more, closed, worse
  <2>3. HonestNet(more) /\ HonestNet(closed) /\ HonestNet(worse)
    BY <2>1 DEF HonestNet
  <2>4. QED
    BY <2>1, <2>2, <2>3, HonestReleased
<1>5. QED
  BY <1>1, <1>2, <1>3, <1>4

LEMMA HonestAccepted ==
    ASSUME NEW n \in Streams, HonestNet(n), NEW r \in Receipts
    PROVE  HonestNet(Accepted(n, r))
<1> DEFINE heard == IF n.link = "up" THEN HearAccepted(n, r[1]) ELSE n
           q == [heard EXCEPT !.acc[r] = n.gen]
<1>1. heard \in Streams /\ HonestNet(heard)
  BY HearTyped, HonestHears, ReceiptOf
<1>2. Accepted(n, r) \in {n, q}
  BY DEF Accepted
<1> HIDE DEF heard
<1>3. q.row = heard.row /\ q.pend = heard.pend
  BY <1>1 DEF Streams
<1> HIDE DEF q
<1>4. HonestNet(q)
  BY <1>1, <1>3 DEF HonestNet
<1>5. QED
  BY <1>2, <1>4

LEMMA HonestPerformed ==
    ASSUME NEW n \in Streams, HonestNet(n), NEW a \in Acts, HonestAct(a)
    PROVE  HonestNet(Performed(n, a))
<1>1. HonestNet(Sent(n, a))
  <2>1. CASE a.do = "accept"
    BY <2>1, ActOf, HonestAccepted DEF Sent
  <2>2. CASE a.do = "settle"
    <3>1. /\ a.of \in Receipts /\ a.as \in Outcomes \cup {"deferred"} /\ a.of[1] \in Msgs
          /\ Backed(a.of[1], a.as)
      BY <2>2, ActOf, ReceiptOf DEF HonestAct
    <3> DEFINE held == Accepted(n, a.of)
    <3>2. held \in Streams /\ HonestNet(held)
      BY <3>1, AcceptedTyped, HonestAccepted
    <3>3. Sent(n, a) \in {HearSettled(held, a.of[1], a.as), held}
      BY <2>2 DEF Sent, Settled
    <3> HIDE DEF held
    <3>4. QED
      BY <3>1, <3>2, <3>3, HonestHears
  <2>3. CASE a.do = "condition"
    BY <2>3, ActOf, HonestHears DEF Sent
  <2>4. CASE a.do = "turn"
    BY <2>4, ActOf, HonestHears DEF Sent
  <2>5. QED
    BY <2>1, <2>2, <2>3, <2>4, ActOf
<1>2. HonestNet([n EXCEPT !.pend = Append(@, a)])
  <2> DEFINE q == [n EXCEPT !.pend = Append(@, a)]
  <2>1. n.pend \in Seq(Acts) /\ q.row = n.row /\ q.pend = Append(n.pend, a)
    BY DEF Streams
  <2> HIDE DEF q
  <2>2. \A i \in 1 .. Len(q.pend) : \/ i \in 1 .. Len(n.pend) /\ q.pend[i] = n.pend[i]
                                    \/ q.pend[i] = a
    BY <2>1, AppendProperties
  <2>3. QED
    BY <2>1, <2>2 DEF HonestNet, q
<1>3. QED
  BY <1>1, <1>2 DEF Performed

HonestActs(acts) == \A i \in 1 .. Len(acts) : HonestAct(acts[i])

LEMMA HonestAll ==
    ASSUME NEW n \in Streams, HonestNet(n), NEW acts \in Seq(Acts), HonestActs(acts)
    PROVE  HonestNet(PerformAll(n, acts))
<1> DEFINE good == {x \in Streams : HonestNet(x)}
<1>1. Len(acts) \in Nat /\ \A i \in 1 .. Len(acts) : acts[i] \in Acts /\ HonestAct(acts[i])
  BY LenProperties, ElementOfSeq DEF HonestActs
<1>2. \A i \in 1 .. Len(acts) : \A x \in good : Performed(x, acts[i]) \in good
  BY <1>1, PerformedTyped, HonestPerformed
<1>3. n \in good
  OBVIOUS
<1> HIDE DEF good
<1>4. PerformAll(n, acts) \in good
  BY <1>1, <1>2, <1>3, Performs
<1>5. QED
  BY <1>4 DEF good

LEMMA HonestEach ==
    ASSUME NEW s \in Seq(Receipts)
    PROVE  /\ HonestActs(AcceptEach(s)) /\ HonestActs(SettleEach(s, "deferred"))
           /\ \A d : (\A r \in ToSet(s) : Backed(r[1], d)) => HonestActs(SettleEach(s, d))
<1>1. DOMAIN s = 1 .. Len(s) /\ Len(s) \in Nat /\ \A i \in 1 .. Len(s) : s[i] \in ToSet(s)
  BY ElementsOf
<1>2. HonestActs(AcceptEach(s))
  BY <1>1 DEF HonestActs, AcceptEach, AcceptOf, HonestAct
<1>3. ASSUME NEW d, \A r \in ToSet(s) : Backed(r[1], d) PROVE HonestActs(SettleEach(s, d))
  <2> DEFINE acts == SettleEach(s, d)
  <2>1. /\ Len(acts) = Len(s)
        /\ \A i \in 1 .. Len(s) : acts[i].of = s[i] /\ acts[i].as = d
    BY <1>1 DEF SettleEach, SettleOf
  <2> HIDE DEF acts
  <2>2. \A i \in 1 .. Len(s) : Backed(acts[i].of[1], acts[i].as)
    BY <1>1, <1>3, <2>1
  <2>3. QED
    BY <2>1, <2>2 DEF HonestActs, HonestAct, acts
<1>4. \A r \in ToSet(s) : Backed(r[1], "deferred")
  BY PlainlyBacked
<1>5. QED
  BY <1>2, <1>3, <1>4

HonestPlan(p) == HonestNet(p.net) /\ HonestSeat(p.seat)

LEMMA HonestTurns ==
    ASSUME NEW s, NEW s2, HonestSeat(s), SameTurns(s, s2),
           s2.flight = s.flight \/ s2.flight.at # "answered"
    PROVE  HonestSeat(s2)
BY DEF HonestSeat, SameTurns

LEMMA HonestDrains ==
    ASSUME NEW s \in Seats, NEW n \in Streams, NEW s2, NEW n2, HonestSeat(s),
           HonestNet(n), SameTurns(s, s2), Drains(s, n, s2, n2)
    PROVE  HonestNet(n2) /\ HonestSeat(s2)
<1>1. HonestNet(PerformAll(n, SettleEach(s.buffer, "deferred")))
  <2> DEFINE acts == SettleEach(s.buffer, "deferred")
  <2>1. s.buffer \in Seq(Receipts)
    BY DEF Seats
  <2>2. acts \in Seq(Acts) /\ HonestActs(acts)
    BY <2>1, ActsTyped, HonestEach
  <2> HIDE DEF acts
  <2>3. HonestNet(PerformAll(n, acts))
    BY <2>2, HonestAll
  <2>4. QED
    BY <2>3 DEF acts
<1>2. n2 = n \/ n2 = PerformAll(n, SettleEach(s.buffer, "deferred"))
  BY DEF Drains
<1>3. s2.flight = s.flight \/ s2.flight.at = "sent"
  BY DEF Drains
<1>4. HonestSeat(s2)
  BY <1>3, HonestTurns
<1>5. QED
  BY <1>1, <1>2, <1>4

LEMMA HonestFlushed ==
    ASSUME NEW p \in Plans, HonestPlan(p) PROVE HonestPlan(Flushed(p))
<1> DEFINE q == Flushed(p)
<1>1. p.seat \in Seats /\ p.net \in Streams
  BY DEF Plans
<1>2. /\ SameTurns(p.seat, q.seat)
      /\ \/ q.net = p.net /\ q.seat.flight = p.seat.flight
         \/ Drains(p.seat, p.net, q.seat, q.net)
  BY FlushedIs
<1> HIDE DEF q
<1>3. ASSUME q.net = p.net, q.seat.flight = p.seat.flight PROVE HonestPlan(q)
  BY <1>2, <1>3, HonestTurns DEF HonestPlan
<1>4. ASSUME Drains(p.seat, p.net, q.seat, q.net) PROVE HonestPlan(q)
  BY <1>1, <1>2, <1>4, HonestDrains DEF HonestPlan
<1>5. HonestPlan(q)
  BY <1>2, <1>3, <1>4
<1>6. QED
  BY <1>5 DEF q

LEMMA HonestFinished ==
    ASSUME NEW p \in Plans, HonestPlan(p) PROVE HonestPlan(Finished(p))
<1> DEFINE q == Finished(p)
           s == [p.seat EXCEPT !.flight = NoFlight]
<1>1. p.seat \in Seats /\ p.net \in Streams
  BY DEF Plans
<1>2. /\ SameTurns(p.seat, q.seat)
      /\ \/ q.net = p.net /\ q.seat.flight = NoFlight
         \/ Drains(s, p.net, q.seat, q.net)
  BY FinishedIs
<1>3. NoFlight.at # "answered" /\ NoFlight \in Flights
  BY NewTyped DEF NoFlight
<1>4. s \in Seats /\ SameTurns(p.seat, s) /\ s.flight = NoFlight
  BY <1>1, <1>3 DEF Seats, SameTurns
<1> HIDE DEF q, s
<1>5. HonestSeat(s)
  BY <1>3, <1>4, HonestTurns DEF HonestPlan
<1>6. ASSUME q.net = p.net, q.seat.flight = NoFlight PROVE HonestPlan(q)
  BY <1>2, <1>3, <1>6, HonestTurns DEF HonestPlan
<1>7. ASSUME Drains(s, p.net, q.seat, q.net) PROVE HonestPlan(q)
  <2>1. SameTurns(s, q.seat)
    BY <1>2, <1>4 DEF SameTurns
  <2>2. QED
    BY <1>1, <1>4, <1>5, <1>7, <2>1, HonestDrains DEF HonestPlan
<1>8. HonestPlan(q)
  BY <1>2, <1>6, <1>7
<1>9. QED
  BY <1>8 DEF q

LEMMA HonestAnswered ==
    ASSUME NEW p \in Plans, HonestPlan(p), p.seat.flight.at = "answered"
    PROVE  HonestPlan(Answered(p))
<1> DEFINE f == p.seat.flight
<1>1. /\ p.seat \in Seats /\ p.net \in Streams /\ f.events \in Seq(Receipts)
      /\ p.seat.held \in [Turns -> Seq(Receipts)]
      /\ p.seat.awaiting \in [Turns -> Seq(Receipts)]
      /\ HonestNet(p.net) /\ HonestSeat(p.seat)
  BY DEF Plans, Seats, Flights, HonestPlan
<1>2. ASSUME NEW n2, \/ n2 = PerformAll(p.net, AcceptEach(f.events))
                     \/ n2 = PerformAll(p.net, SettleEach(f.events, "deferred"))
      PROVE  HonestNet(n2)
  <2> DEFINE as == AcceptEach(f.events)
             ss == SettleEach(f.events, "deferred")
  <2>1. as \in Seq(Acts) /\ HonestActs(as) /\ ss \in Seq(Acts) /\ HonestActs(ss)
    BY <1>1, ActsTyped, HonestEach
  <2>2. n2 = PerformAll(p.net, as) \/ n2 = PerformAll(p.net, ss)
    BY <1>2
  <2> HIDE DEF as, ss
  <2>3. QED
    BY <1>1, <2>1, <2>2, HonestAll
<1>3. CASE AsksAgain(p, Answered(p))
  <2> DEFINE q == Answered(p)
  <2>1. q.net = p.net /\ SameTurns(p.seat, q.seat) /\ q.seat.flight.at # "answered"
    BY <1>3 DEF AsksAgain
  <2> HIDE DEF q
  <2>2. HonestPlan(q)
    BY <1>1, <2>1, HonestTurns DEF HonestPlan
  <2>3. QED
    BY <2>2 DEF q
<1>4. ASSUME NEW e \in Plans, Answered(p) = Finished(e), JoinsTurn(p, e)
      PROVE  HonestPlan(Answered(p))
  <2> DEFINE h == p.seat.held[f.turn] \o f.events
  <2>1. /\ e.seat.held = [p.seat.held EXCEPT ![f.turn] = h]
        /\ e.seat.awaiting = p.seat.awaiting /\ e.seat.flight = f
        /\ f.turn \in Turns /\ f.says = "ok"
        /\ e.net = PerformAll(p.net, AcceptEach(f.events))
    BY <1>1, <1>4 DEF JoinsTurn, Seats
  <2>2. ShownIn(f.turn, f.events) /\ ShownIn(f.turn, p.seat.held[f.turn])
    BY <1>1, <2>1 DEF HonestSeat
  <2>3. ToSet(h) = ToSet(p.seat.held[f.turn]) \cup ToSet(f.events)
    BY <1>1, <2>1, ElementsOf
  <2> HIDE DEF h
  <2>4. ShownIn(f.turn, h)
    BY <2>2, <2>3 DEF ShownIn
  <2>5. \A t \in Turns : e.seat.held[t] = IF t = f.turn THEN h ELSE p.seat.held[t]
    BY <1>1, <2>1
  <2> HIDE DEF f
  <2>6. HonestSeat(e.seat)
    BY <1>1, <2>1, <2>2, <2>4, <2>5 DEF HonestSeat
  <2>7. HonestNet(e.net)
    BY <1>2, <2>1
  <2>8. QED
    BY <1>4, <2>6, <2>7, HonestFinished DEF HonestPlan
<1>5. ASSUME NEW e \in Plans, Answered(p) = Finished(e), AwaitsTurn(p, e)
      PROVE  HonestPlan(Answered(p))
  <2>1. /\ e.seat.awaiting = [p.seat.awaiting EXCEPT ![f.turn] = f.events]
        /\ e.seat.held = p.seat.held /\ e.seat.flight = f
        /\ f.turn \in Turns /\ f.says = "ok" /\ e.net = p.net
    BY <1>1, <1>5 DEF AwaitsTurn, Seats
  <2>2. ShownIn(f.turn, f.events)
    BY <1>1, <2>1 DEF HonestSeat
  <2>3. \A t \in Turns : e.seat.awaiting[t] =
                         IF t = f.turn THEN f.events ELSE p.seat.awaiting[t]
    BY <1>1, <2>1
  <2> HIDE DEF f
  <2>4. HonestSeat(e.seat)
    BY <1>1, <2>1, <2>2, <2>3 DEF HonestSeat
  <2>5. QED
    BY <1>1, <1>5, <2>1, <2>4, HonestFinished DEF HonestPlan
<1>6. ASSUME NEW e \in Plans, Answered(p) = Finished(e), GivesUp(p, e)
      PROVE  HonestPlan(Answered(p))
  <2>1. SameTurns(p.seat, e.seat) /\ e.seat.flight = p.seat.flight
    BY <1>1, <1>6 DEF GivesUp, SameTurns, Seats
  <2>2. HonestSeat(e.seat)
    BY <1>1, <2>1, HonestTurns
  <2>3. HonestNet(e.net)
    BY <1>1, <1>2, <1>6 DEF GivesUp
  <2>4. QED
    BY <1>6, <2>2, <2>3, HonestFinished DEF HonestPlan
<1>7. QED
  BY <1>3, <1>4, <1>5, <1>6, AnsweredIs

(* One act of a sink that has nothing to settle.                           *)
LEMMA HonestTells ==
    /\ \A c : HonestAct(Condition(c)) /\ \A t : \A is : HonestAct(Turn(t, is))
    /\ \A a, b \in Seq(Acts) : HonestActs(a) /\ HonestActs(b) => HonestActs(a \o b)
    /\ \A a : HonestAct(a) => HonestActs(<<a>>)
    /\ \A a, b : HonestAct(a) /\ HonestAct(b) => HonestActs(<<a, b>>)
<1>1. \A c : HonestAct(Condition(c)) /\ \A t : \A is : HonestAct(Turn(t, is))
  BY DEF HonestAct, Condition, Turn
<1>2. ASSUME NEW a \in Seq(Acts), NEW b \in Seq(Acts), HonestActs(a), HonestActs(b)
      PROVE  HonestActs(a \o b)
  <2> DEFINE ab == a \o b
  <2>1. /\ Len(a) \in Nat /\ Len(b) \in Nat /\ Len(ab) = Len(a) + Len(b)
        /\ \A i \in 1 .. Len(a) + Len(b) :
               ab[i] = IF i <= Len(a) THEN a[i] ELSE b[i - Len(a)]
    BY ConcatProperties, LenProperties
  <2> HIDE DEF ab
  <2>2. ASSUME NEW i \in 1 .. Len(ab) PROVE HonestAct(ab[i])
    <3>1. CASE i <= Len(a)
      <4>1. i \in 1 .. Len(a) /\ ab[i] = a[i]
        BY <2>1, <3>1
      <4>2. QED
        BY <1>2, <4>1 DEF HonestActs
    <3>2. CASE ~(i <= Len(a))
      <4> DEFINE k == i - Len(a)
      <4>1. k \in 1 .. Len(b) /\ ab[i] = b[k]
        BY <2>1, <3>2
      <4> HIDE DEF k
      <4>2. QED
        BY <1>2, <4>1 DEF HonestActs
    <3>3. QED
      BY <3>1, <3>2
  <2>3. HonestActs(ab)
    BY <2>2 DEF HonestActs
  <2>4. QED
    BY <2>3 DEF ab
<1>3. \A a : HonestAct(a) => HonestActs(<<a>>)
  BY DEF HonestActs
<1>4. \A a, b : HonestAct(a) /\ HonestAct(b) => HonestActs(<<a, b>>)
  BY DEF HonestActs
<1>5. QED
  BY <1>1, <1>2, <1>3, <1>4

LEMMA HonestHandled ==
    ASSUME NEW p \in Plans, HonestPlan(p), NEW l \in Lines,
           HonestLine(l, p.seat.flight.events)
    PROVE  HonestPlan(Handled(p, l))
<1>1. /\ p.seat \in Seats /\ p.net \in Streams
      /\ p.seat.held \in [Turns -> Seq(Receipts)]
      /\ p.seat.awaiting \in [Turns -> Seq(Receipts)]
      /\ HonestNet(p.net) /\ HonestSeat(p.seat)
  BY DEF Plans, Seats, HonestPlan
<1>2. \A t : ShownIn(t, <<>>)
  <2>1. <<>> \in Seq(Receipts)
    OBVIOUS
  <2>2. ToSet(<<>>) = {}
    BY <2>1, ElementsOf
  <2>3. QED
    BY <2>2 DEF ShownIn
<1>3. CASE l.is = "started"
  <2>1. l.turn \in Turns /\ Handled(p, l) = OnStarted(p, l.turn)
    BY <1>3, HandledIs
  <2> DEFINE t == l.turn
             q == OnStarted(p, t)
             acts == StartedActs(p.seat, t)
  <2>2. /\ q.seat.flight = p.seat.flight
        /\ q.seat.awaiting = [p.seat.awaiting EXCEPT ![t] = <<>>]
        /\ q.seat.held = IF p.seat.awaiting[t] = <<>> THEN p.seat.held
                         ELSE [p.seat.held EXCEPT ![t] = p.seat.awaiting[t]]
        /\ q.net = PerformAll(p.net, acts) /\ acts \in Seq(Acts)
    BY <2>1, OnStartedIs DEF SameBuffering
  <2>3. HonestActs(acts)
    <3> DEFINE a == <<Condition("ready"), Turn(t, "started")>>
               b == AcceptEach(p.seat.awaiting[t])
    <3>1. a \in Seq(Acts) /\ b \in Seq(Acts) /\ HonestActs(a) /\ HonestActs(b)
      BY <1>1, <2>1, ActsTyped, HonestEach, HonestTells
    <3>2. acts = a \o b
      BY DEF StartedActs
    <3> HIDE DEF a, b, acts
    <3>3. QED
      BY <3>1, <3>2, HonestTells
  <2>4. t \in Turns
    BY <2>1
  <2> HIDE DEF q, acts, t
  <2>5. \A u \in Turns :
            /\ q.seat.awaiting[u] = <<>> \/ q.seat.awaiting[u] = p.seat.awaiting[u]
            /\ q.seat.held[u] = p.seat.held[u] \/ q.seat.held[u] = p.seat.awaiting[u]
    BY <1>1, <2>2, <2>4
  <2>6. HonestSeat(q.seat)
    BY <1>1, <1>2, <2>2, <2>5 DEF HonestSeat
  <2>7. HonestNet(q.net)
    BY <1>1, <2>2, <2>3, HonestAll
  <2>8. QED
    BY <2>1, <2>6, <2>7 DEF HonestPlan, q, t
<1>4. CASE l.is = "completed"
  <2>1. l.turn \in Turns /\ Handled(p, l) = OnCompleted(p, l.turn, l.says)
    BY <1>4, HandledIs
  <2> DEFINE t == l.turn
             q == OnCompleted(p, t, l.says)
             acts == CompletedActs(p.seat, t, l.says)
  <2>2. /\ q.seat.flight = p.seat.flight /\ q.seat.awaiting = p.seat.awaiting
        /\ q.seat.held = [p.seat.held EXCEPT ![t] = <<>>]
        /\ q.net = PerformAll(p.net, acts) /\ acts \in Seq(Acts)
    BY <2>1, OnCompletedIs DEF SameBuffering
  <2>3. HonestActs(acts)
    <3> DEFINE phase == IF l.says = "failed" THEN "failed" ELSE "completed"
               d == IF l.says = "failed" THEN "deferred" ELSE "handled"
               a == <<Turn(t, phase)>>
               b == SettleEach(p.seat.held[t], d)
    <3>1. phase \in {"failed", "completed"} /\ d \in Outcomes \cup {"deferred"}
      BY DEF Outcomes
    <3>2. \A r \in ToSet(p.seat.held[t]) : Backed(r[1], d)
      <4>1. CASE l.says = "failed"
        BY <4>1, PlainlyBacked
      <4>2. CASE l.says # "failed"
        <5>1. ends[t] = "well" /\ ShownIn(t, p.seat.held[t])
          BY <1>1, <1>4, <2>1, <4>2 DEF HonestLine, HonestSeat
        <5>2. QED
          BY <4>2, <5>1 DEF Backed, ShownIn
      <4>3. QED
        BY <4>1, <4>2
    <3>3. acts = a \o b
      BY DEF CompletedActs
    <3> HIDE DEF phase, d
    <3>4. a \in Seq(Acts) /\ b \in Seq(Acts) /\ HonestActs(a) /\ HonestActs(b)
      <4>1. p.seat.held[t] \in Seq(Receipts) /\ Turn(t, phase) \in Acts
        BY <1>1, <2>1, <3>1, ActsTyped
      <4>2. b \in Seq(Acts) /\ HonestActs(b)
        BY <3>1, <3>2, <4>1, ActsTyped, HonestEach
      <4>3. a \in Seq(Acts) /\ HonestActs(a)
        BY <4>1, HonestTells
      <4>4. QED
        BY <4>2, <4>3
    <3> HIDE DEF a, b, acts
    <3>5. QED
      BY <3>3, <3>4, HonestTells
  <2>4. t \in Turns
    BY <2>1
  <2> HIDE DEF q, acts, t
  <2>5. \A u \in Turns : q.seat.held[u] = <<>> \/ q.seat.held[u] = p.seat.held[u]
    BY <1>1, <2>2, <2>4
  <2>6. HonestSeat(q.seat)
    BY <1>1, <1>2, <2>2, <2>5 DEF HonestSeat
  <2>7. HonestNet(q.net)
    BY <1>1, <2>2, <2>3, HonestAll
  <2>8. QED
    BY <2>1, <2>6, <2>7 DEF HonestPlan, q, t
<1>5. CASE l.is = "acted"
  <2>1. l.turn \in Turns /\ Handled(p, l) = OnActed(p, l.turn)
    BY <1>5, HandledIs
  <2> DEFINE t == l.turn
             q == OnActed(p, t)
             acts == SettleEach(p.seat.held[t], "acted")
  <2>2. /\ q.seat.flight = p.seat.flight /\ q.seat.awaiting = p.seat.awaiting
        /\ q.seat.held = [p.seat.held EXCEPT ![t] = <<>>]
        /\ q.net = PerformAll(p.net, acts) /\ acts \in Seq(Acts)
    BY <2>1, OnActedIs DEF SameBuffering
  <2>3. HonestActs(acts)
    <3>1. t \in actedIn /\ ShownIn(t, p.seat.held[t])
      BY <1>1, <1>5, <2>1 DEF HonestLine, HonestSeat
    <3>2. \A r \in ToSet(p.seat.held[t]) : Backed(r[1], "acted")
      BY <3>1 DEF Backed, ShownIn
    <3>3. p.seat.held[t] \in Seq(Receipts)
      BY <1>1, <2>1
    <3>4. QED
      BY <3>2, <3>3, HonestEach
  <2>4. t \in Turns
    BY <2>1
  <2> HIDE DEF q, acts, t
  <2>5. \A u \in Turns : q.seat.held[u] = <<>> \/ q.seat.held[u] = p.seat.held[u]
    BY <1>1, <2>2, <2>4
  <2>6. HonestSeat(q.seat)
    BY <1>1, <1>2, <2>2, <2>5 DEF HonestSeat
  <2>7. HonestNet(q.net)
    BY <1>1, <2>2, <2>3, HonestAll
  <2>8. QED
    BY <2>1, <2>6, <2>7 DEF HonestPlan, q, t
<1>6. ASSUME NEW e, HonestSeat(e.seat),
             e.net = p.net \/ e.net = PerformAll(p.net, <<Condition("degraded")>>)
      PROVE  HonestPlan(e)
  <2> DEFINE acts == <<Condition("degraded")>>
  <2>1. acts \in Seq(Acts) /\ HonestActs(acts)
    BY ActsTyped, HonestTells
  <2>2. e.net = p.net \/ e.net = PerformAll(p.net, acts)
    BY <1>6
  <2> HIDE DEF acts
  <2>3. QED
    BY <1>1, <1>6, <2>1, <2>2, HonestAll DEF HonestPlan
<1>7. CASE l.is = "status"
  <2>1. l.says \in Statuses \ {"notLoaded"} /\ Handled(p, l) = OnStatus(p, l.says)
    BY <1>7, HandledIs
  <2>2. PICK e \in Plans :
            /\ OnStatus(p, l.says) = Flushed(e)
            /\ e.seat = [p.seat EXCEPT !.status = l.says]
            /\ e.net = p.net \/ e.net = PerformAll(p.net, <<Condition("degraded")>>)
    BY <2>1, OnStatusIs
  <2>3. SameTurns(p.seat, e.seat) /\ e.seat.flight = p.seat.flight
    BY <1>1, <2>2 DEF SameTurns, Seats
  <2>4. HonestSeat(e.seat)
    BY <1>1, <2>3, HonestTurns
  <2>5. HonestPlan(e)
    BY <1>6, <2>2, <2>4
  <2>6. QED
    BY <2>1, <2>2, <2>5, HonestFlushed
<1>8. CASE l.is = "reply"
  <2>1. Handled(p, l) = OnReply(p, l)
    BY <1>8, HandledIs
  <2> DEFINE q == OnReply(p, l)
  <2>2. /\ SameTurns(p.seat, q.seat) /\ q.net = p.net
        /\ q.seat.flight = [p.seat.flight EXCEPT
                              !.at = "answered", !.says = l.says, !.turn = l.turn]
    BY OnReplyIs
  <2> HIDE DEF q
  <2>3. /\ q.seat.flight.says = l.says /\ q.seat.flight.turn = l.turn
        /\ q.seat.flight.events = p.seat.flight.events
    BY <1>1, <2>2 DEF Seats, Flights
  <2>4. HonestSeat(q.seat)
    BY <1>1, <1>8, <2>2, <2>3 DEF HonestSeat, SameTurns, HonestLine
  <2>5. QED
    BY <1>1, <2>1, <2>2, <2>4 DEF HonestPlan, q
<1>9. CASE l.is = "error"
  BY <1>1, <1>6, <1>9, HandledIs, DegradedIs
<1>10. CASE l.is = "interrupted"
  BY <1>10, HandledIs
<1>11. QED
  BY <1>3, <1>4, <1>5, <1>7, <1>8, <1>9, <1>10, HandledIs

(* The lines left to be read stay true while the runner does its part.     *)
LEMMA HonestRead ==
    ASSUME HonestInv, UNCHANGED historyVars, codex'.used = codex.used,
           codex'.turn = codex.turn \/ (codex'.turn = NoTurn /\ codex.used \in Nat),
           \A i \in 1 .. Len(out') :
               /\ \E j \in 1 .. Len(out) : out'[i] = out[j]
               /\ out'[i].is = "reply" => seat'.flight.events = seat.flight.events,
           HonestNet(stream'), HonestSeat(seat')
    PROVE  HonestInv'
<1>1. shown' = shown /\ ends' = ends /\ actedIn' = actedIn
  BY DEF historyVars
<1>2. EndsOnce'
  <2>1. /\ codex.turn <= codex.used
        /\ \A t \in Turns : t = codex.turn \/ t > codex.used => ends[t] = "none"
    BY DEF HonestInv, EndsOnce
  <2>2. codex'.turn <= codex'.used
    BY <2>1 DEF NoTurn
  <2>3. \A t \in Turns : t = codex'.turn => t = codex.turn
    BY NoTurnIsNone
  <2>4. \A t \in Turns : t = codex'.turn \/ t > codex'.used => ends'[t] = "none"
    BY <1>1, <2>1, <2>3
  <2>5. QED
    BY <2>2, <2>4 DEF EndsOnce
<1>3. HonestNet(stream)' /\ HonestSeat(seat)'
  BY <1>1 DEF HonestNet, HonestAct, Backed, HonestSeat, ShownIn
<1>4. ASSUME NEW i \in 1 .. Len(out')
      PROVE  HonestLine(out[i], seat.flight.events)'
  <2>1. PICK j \in 1 .. Len(out) : out'[i] = out[j]
    OBVIOUS
  <2>2. HonestLine(out[j], seat.flight.events)
    BY DEF HonestInv
  <2>3. QED
    BY <1>1, <2>1, <2>2 DEF HonestLine, ShownIn
<1>5. QED
  BY <1>2, <1>3, <1>4 DEF HonestInv

(* What has come about stays, and the server tells of no more.             *)
LEMMA HonestWritten ==
    ASSUME Typed, Typed', HonestInv, NEW l, Wrote(l), stream' = stream,
           \/ seat' = seat
           \/ seat.flight.at = "sent" /\ seat' = [seat EXCEPT !.flight.at = "served"],
           \A m \in Msgs : shown[m] \subseteq shown'[m],
           \A t \in Turns : ends[t] = "well" => ends'[t] = "well",
           actedIn \subseteq actedIn',
           \A k \in 1 .. Len(l) : HonestLine(l[k], seat.flight.events)',
           EndsOnce'
    PROVE  HonestInv'
<1>1. /\ seat \in Seats /\ seat' \in Seats /\ stream \in Streams
      /\ shown \in [Msgs -> SUBSET Turns]
      /\ out \in Seq(Lines) /\ l \in Seq(Lines) /\ out' = out \o l
  BY DEF Typed, Wrote
<1>2. \A m \in Msgs : \A d : Backed(m, d) => Backed(m, d)'
  BY <1>1 DEF Backed
<1>3. \A s \in Seq(Receipts) : \A t : ShownIn(t, s) => ShownIn(t, s)'
  <2>1. \A s \in Seq(Receipts) : \A r \in ToSet(s) : r[1] \in Msgs
    BY ElementsOf, ReceiptOf
  <2>2. QED
    BY <2>1 DEF ShownIn
<1>4. PICK ev \in Seq(Receipts) : ev = seat.flight.events /\ ev = seat'.flight.events
  BY <1>1 DEF Seats, Flights
<1>5. \A a \in Lines : HonestLine(a, ev) => HonestLine(a, ev)'
  <2>1. \A a \in Lines : a.is \in {"completed", "acted"} => a.turn \in Turns
    BY DEF Lines
  <2>2. \A t : ShownIn(t, ev) => ShownIn(t, ev)'
    BY <1>3
  <2>3. QED
    BY <2>1, <2>2 DEF HonestLine
<1>6. \A a \in Acts : HonestAct(a) => HonestAct(a)'
  BY <1>2, ActOf, ReceiptOf DEF HonestAct
<1>7. HonestNet(stream)'
  <2>1. ASSUME NEW m \in Msgs PROVE Backed(m, stream.row[m])'
    <3>1. PICK d : d = stream.row[m]
      OBVIOUS
    <3>2. Backed(m, d)'
      BY <1>2, <3>1 DEF HonestInv, HonestNet
    <3>3. QED
      BY <3>1, <3>2 DEF Backed
  <2>2. ASSUME NEW i \in 1 .. Len(stream'.pend) PROVE HonestAct(stream.pend[i])'
    <3>1. PICK a : a = stream.pend[i]
      OBVIOUS
    <3>2. a \in Acts /\ HonestAct(a)
      BY <1>1, <3>1, ElementOfSeq DEF Streams, HonestInv, HonestNet
    <3>3. HonestAct(a)'
      BY <1>6, <3>2
    <3>4. QED
      BY <3>1, <3>3 DEF HonestAct, Backed
  <2>3. QED
    BY <2>1, <2>2 DEF HonestNet
<1>8. HonestSeat(seat)'
  <2>1. /\ seat'.awaiting = seat.awaiting /\ seat'.held = seat.held
        /\ seat'.flight = seat.flight \/ seat'.flight.at = "served"
    BY <1>1 DEF Seats, Flights
  <2>2. ASSUME NEW t \in Turns
        PROVE  ShownIn(t, seat.awaiting[t])' /\ ShownIn(t, seat.held[t])'
    <3>1. PICK a \in Seq(Receipts), h \in Seq(Receipts) :
              a = seat.awaiting[t] /\ h = seat.held[t]
      BY <1>1 DEF Seats
    <3>2. ShownIn(t, a) /\ ShownIn(t, h)
      BY <3>1 DEF HonestInv, HonestSeat
    <3>3. ShownIn(t, a)' /\ ShownIn(t, h)'
      BY <1>3, <3>2
    <3>4. seat'.awaiting[t] = a /\ seat'.held[t] = h
      BY <2>1, <3>1
    <3>5. QED
      BY <3>3, <3>4 DEF ShownIn
  <2>3. ASSUME seat'.flight.at = "answered", seat'.flight.says = "ok"
        PROVE  ShownIn(seat.flight.turn, seat.flight.events)'
    <3>1. seat'.flight = seat.flight
      BY <2>1, <2>3
    <3>2. PICK t : t = seat.flight.turn
      OBVIOUS
    <3>3. ShownIn(t, ev)
      BY <1>4, <2>3, <3>1, <3>2 DEF HonestInv, HonestSeat
    <3>4. ShownIn(t, ev)'
      BY <1>3, <3>3
    <3>5. QED
      BY <1>4, <3>1, <3>2, <3>4 DEF ShownIn
  <2>4. QED
    BY <2>2, <2>3 DEF HonestSeat
<1>9. ASSUME NEW i \in 1 .. Len(out') PROVE HonestLine(out[i], seat.flight.events)'
  <2>1. PICK a : a = out'[i]
    OBVIOUS
  <2>2. CASE \E j \in 1 .. Len(out) : a = out[j]
    <3>1. a \in Lines /\ HonestLine(a, ev)
      BY <1>1, <1>4, <2>2, ElementOfSeq DEF HonestInv
    <3>2. HonestLine(a, ev)'
      BY <1>5, <3>1
    <3>3. QED
      BY <1>4, <2>1, <3>2 DEF HonestLine, ShownIn
  <2>3. CASE \E k \in 1 .. Len(l) : a = l[k]
    <3>1. PICK k \in 1 .. Len(l) : a = l[k]
      BY <2>3
    <3>2. HonestLine(l[k], seat.flight.events)'
      OBVIOUS
    <3>3. QED
      BY <2>1, <3>1, <3>2 DEF HonestLine, ShownIn
  <2> DEFINE ol == out \o l
  <2>4. \A j \in 1 .. Len(ol) : \/ \E k \in 1 .. Len(out) : ol[j] = out[k]
                                \/ \E k \in 1 .. Len(l) : ol[j] = l[k]
    BY <1>1, WrittenSplit
  <2>5. out' = ol
    BY <1>1
  <2> HIDE DEF ol
  <2>6. QED
    BY <2>1, <2>2, <2>3, <2>4, <2>5
<1>10. QED
  BY <1>7, <1>8, <1>9 DEF HonestInv

LEMMA HonestInit == Init => HonestInv
<1> SUFFICES ASSUME Init PROVE HonestInv
  OBVIOUS
<1>1. /\ Len(out) = 0 /\ Len(stream.pend) = 0 /\ codex.turn = 0 /\ codex.used = 0
      /\ \A m \in Msgs : stream.row[m] = "none"
      /\ \A t \in Turns : seat.awaiting[t] = <<>> /\ seat.held[t] = <<>>
      /\ seat.flight.at = "none" /\ \A t \in Turns : ends[t] = "none"
  BY DEF Init, StreamInit, NewSeat, NewCodex, NoFlight, NoTurn
<1>2. ToSet(<<>>) = {}
  <2>1. <<>> \in Seq(Receipts)
    OBVIOUS
  <2>2. QED
    BY <2>1, ElementsOf
<1>3. QED
  BY <1>1, <1>2 DEF HonestInv, HonestNet, HonestSeat, EndsOnce, Backed, ShownIn

LEMMA HonestLinks ==
    ASSUME Typed, HonestInv, Push \/ Lose \/ EndStream \/ Connect(Introduction)
                             \/ \E t \in Turns : Backstop(t)
    PROVE  HonestNet(stream')
<1>1. stream \in Streams /\ HonestNet(stream)
  BY DEF Typed, HonestInv
<1>2. CASE Push
  <2>1. /\ stream'.pend = stream.pend
        /\ \A m \in Msgs : stream'.row[m] = stream.row[m] \/ stream'.row[m] = "pending"
    BY <1>1, <1>2 DEF Push, Streams
  <2>2. QED
    BY <1>1, <2>1, HonestKept
<1>3. CASE Lose
  <2> DEFINE n == Released(stream)
  <2>1. n \in Streams /\ HonestNet(n)
    BY <1>1, ReleasedTyped, HonestReleased
  <2>2. PICK k : stream' = [n EXCEPT !.link = "lost", !.cond = "none", !.open = {},
                                     !.down = SubSeq(@, 1, k)]
    BY <1>3 DEF Lose
  <2> HIDE DEF n
  <2>3. stream'.row = n.row /\ stream'.pend = n.pend
    BY <2>1, <2>2 DEF Streams
  <2>4. QED
    BY <2>1, <2>3 DEF HonestNet
<1>4. CASE EndStream
  BY <1>1, <1>4 DEF EndStream, Streams, HonestNet
<1>5. CASE Connect(Introduction)
  <2>1. PICK link \in {"up", "lost"} :
            stream' = Opened([stream EXCEPT !.active = TRUE, !.gen = @ + 1,
                                            !.link = link], Introduction)
    BY <1>5 DEF Connect
  <2> DEFINE n == [stream EXCEPT !.active = TRUE, !.gen = @ + 1, !.link = link]
             e == [n EXCEPT !.pend = <<>>]
             acts == Introduction
  <2>2. n \in Streams /\ n.row = stream.row /\ n.pend = stream.pend
    <3> DEFINE g == stream.gen + 1
    <3>1. g \in 0 .. MaxConns
      BY <1>1, <1>5, StreamConstantsOK DEF Connect, Streams
    <3> HIDE DEF g
    <3>2. n = [stream EXCEPT !.active = TRUE, !.gen = g, !.link = link]
      BY DEF g
    <3>3. QED
      BY <1>1, <3>1, <3>2 DEF Streams
  <2>3. stream' = PerformAll(PerformAll(e, acts), n.pend)
    BY <2>1 DEF Opened
  <2>4. acts \in Seq(Acts) /\ HonestActs(acts)
    <3>1. acts \in Seq(Acts)
      BY IntroductionTyped
    <3>2. HonestActs(acts)
      <4> DEFINE a == <<Condition("ready")>>
                 b == IF seat.turn = NoTurn THEN <<>> ELSE <<Turn(seat.turn, "started")>>
      <4>1. a \in Seq(Acts) /\ HonestActs(a)
        BY ActsTyped, HonestTells
      <4>2. b \in Seq(Acts) /\ HonestActs(b)
        <5>1. CASE seat.turn = NoTurn
          BY <5>1 DEF HonestActs
        <5>2. CASE seat.turn # NoTurn
          <6>1. seat.turn \in Turns
            BY <5>2 DEF Typed, Seats
          <6>2. Turn(seat.turn, "started") \in Acts
            BY <6>1, ActsTyped
          <6>3. QED
            BY <5>2, <6>2, HonestTells
        <5>3. QED
          BY <5>1, <5>2
      <4>3. acts = <<>> \/ acts = a \o b
        BY DEF Introduction
      <4> HIDE DEF a, b, acts
      <4>4. HonestActs(a \o b)
        BY <4>1, <4>2, HonestTells
      <4>5. HonestActs(<<>>)
        BY DEF HonestActs
      <4>6. QED
        BY <4>3, <4>4, <4>5
    <3>3. QED
      BY <3>1, <3>2
  <2> HIDE DEF n, acts
  <2>5. e \in Streams /\ HonestNet(e)
    <3>1. <<>> \in Seq(Acts) /\ Len(<<>>) = 0
      OBVIOUS
    <3>2. e \in Streams /\ e.row = stream.row /\ e.pend = <<>>
      BY <2>2, <3>1 DEF Streams
    <3> HIDE DEF e
    <3>3. QED
      BY <1>1, <3>1, <3>2 DEF HonestNet
  <2> HIDE DEF e
  <2>6. PerformAll(e, acts) \in Streams /\ HonestNet(PerformAll(e, acts))
    BY <2>4, <2>5, AllTyped, HonestAll
  <2>7. n.pend \in Seq(Acts) /\ HonestActs(n.pend)
    BY <1>1, <2>2 DEF Streams, HonestNet, HonestActs
  <2>8. QED
    BY <2>3, <2>6, <2>7, HonestAll
<1>6. CASE \E t \in Turns : Backstop(t)
  <2>1. PICK t \in Turns : Backstop(t)
    BY <1>6
  <2> DEFINE n == [stream EXCEPT !.open = @ \ {t}, !.cond = "degraded"]
  <2>2. n \in Streams /\ n.row = stream.row /\ n.pend = stream.pend
    BY <1>1 DEF Streams
  <2>3. stream' = Released(n)
    BY <2>1 DEF Backstop
  <2> HIDE DEF n
  <2>4. HonestNet(n)
    BY <1>1, <2>2 DEF HonestNet
  <2>5. QED
    BY <2>2, <2>3, <2>4, HonestReleased
<1>7. QED
  BY <1>2, <1>3, <1>4, <1>5, <1>6

LEMMA HonestRunner ==
    ASSUME Typed, Typed', OneReply, HonestInv,
           \/ Stop \/ StopTurn \/ Timer \/ Continue \/ ReadLine
    PROVE  HonestInv'
<1>1. /\ Now \in Plans /\ Now.seat = seat /\ Now.net = stream /\ HonestPlan(Now)
      /\ seat \in Seats /\ out \in Seq(Lines) /\ Len(out) \in Nat
  BY NowTyped, LenProperties DEF Now, HonestPlan, HonestInv, Typed
<1>2. ASSUME UNCHANGED historyVars, codex' = codex,
             HonestNet(stream'), HonestSeat(seat'),
             \A i \in 1 .. Len(out') :
                /\ \E j \in 1 .. Len(out) : out'[i] = out[j]
                /\ out'[i].is = "reply" => seat'.flight.events = seat.flight.events
      PROVE  HonestInv'
  BY <1>2, HonestRead
<1>3. \A i \in 1 .. Len(out) : out[i].is = "reply" => seat.flight.at = "served"
  BY DEF OneReply
<1>4. CASE StopTurn
  BY <1>1, <1>2, <1>4 DEF StopTurn, HonestPlan
<1>5. CASE Stop \/ Timer
  <2>1. /\ seat' = Flushed(Now).seat /\ stream' = Flushed(Now).net
        /\ out' = out /\ codex' = codex /\ UNCHANGED historyVars
    BY <1>5 DEF Stop, Timer, Become
  <2>2. HonestPlan(Flushed(Now))
    BY <1>1, HonestFlushed
  <2>3. seat.flight.at = "served" => seat'.flight = seat.flight
    BY <1>1, <2>1, FlushKeepsFlight
  <2>4. QED
    BY <1>2, <1>3, <2>1, <2>2, <2>3 DEF HonestPlan
<1>6. CASE Continue
  <2>1. /\ seat' = Answered(Now).seat /\ stream' = Answered(Now).net
        /\ out' = out /\ codex' = codex /\ UNCHANGED historyVars
        /\ seat.flight.at = "answered"
    BY <1>6 DEF Continue, Become
  <2>2. HonestPlan(Answered(Now))
    BY <1>1, <2>1, HonestAnswered
  <2>3. \A i \in 1 .. Len(out) : out[i].is # "reply"
    BY <1>3, <2>1
  <2>4. QED
    BY <1>2, <2>1, <2>2, <2>3 DEF HonestPlan
<1>7. CASE ReadLine
  <2> DEFINE l == Head(out)
             q == Handled(Now, l)
  <2>1. /\ out # <<>> /\ out' = Tail(out) /\ codex' = codex /\ UNCHANGED historyVars
        /\ seat' = q.seat /\ stream' = q.net
    BY <1>7 DEF ReadLine, Become
  <2>2. /\ Len(out') = Len(out) - 1 /\ Len(out) >= 1 /\ l = out[1] /\ l \in Lines
        /\ \A i \in 1 .. Len(out) - 1 : out'[i] = out[i + 1]
    BY <1>1, <2>1, TailOf
  <2>3. HonestLine(l, seat.flight.events)
    BY <1>1, <2>2 DEF HonestInv
  <2>4. HonestPlan(q)
    BY <1>1, <2>2, <2>3, HonestHandled
  <2>5. l.is # "reply" /\ seat.flight.at # "none" => q.seat.flight = seat.flight
    BY <1>1, <2>2, LinesKeepFlight
  <2> HIDE DEF l, q
  <2>6. ASSUME NEW i \in 1 .. Len(out')
        PROVE  /\ \E j \in 1 .. Len(out) : out'[i] = out[j]
               /\ out'[i].is = "reply" => seat'.flight.events = seat.flight.events
    <3> DEFINE k == i + 1
    <3>1. k \in 1 .. Len(out) /\ 1 \in 1 .. Len(out) /\ out'[i] = out[k] /\ k # 1
      BY <1>1, <2>2
    <3> HIDE DEF k
    <3>2. ASSUME out[k].is = "reply" PROVE seat'.flight = seat.flight
      <4>1. l.is # "reply" /\ seat.flight.at = "served"
        BY <2>2, <3>1, <3>2 DEF OneReply
      <4>2. QED
        BY <2>1, <2>5, <4>1
    <3>3. QED
      BY <3>1, <3>2
  <2>7. QED
    BY <1>2, <2>1, <2>4, <2>6 DEF HonestPlan
<1>8. QED
  BY <1>4, <1>5, <1>6, <1>7

LEMMA HonestMoves ==
    ASSUME Typed, Typed', OneReply, HonestInv,
           \/ PushMessage \/ LoseLink \/ LoopEnds \/ Subscribe \/ SweepTurn
           \/ Forward \/ Spawn \/ Close
    PROVE  HonestInv'
<1>1. /\ stream \in Streams /\ HonestNet(stream) /\ seat \in Seats /\ HonestSeat(seat)
      /\ codex.used \in Nat /\ out \in Seq(Lines) /\ Len(out) \in Nat
  BY LenProperties, SeatConstantsOK DEF Typed, HonestInv
<1>2. HonestSeat(NewSeat)
  <2>1. <<>> \in Seq(Receipts)
    OBVIOUS
  <2>2. ToSet(<<>>) = {}
    BY <2>1, ElementsOf
  <2>3. QED
    BY <2>2 DEF HonestSeat, NewSeat, NoFlight, ShownIn
<1>3. CASE PushMessage \/ LoseLink \/ LoopEnds \/ Subscribe \/ SweepTurn
  <2>1. HonestNet(stream')
    BY <1>3, HonestLinks DEF PushMessage, LoseLink, LoopEnds, Subscribe, SweepTurn
  <2>2. /\ seat' = seat /\ out' = out /\ codex' = codex /\ UNCHANGED historyVars
    BY <1>3 DEF PushMessage, LoseLink, LoopEnds, Subscribe, SweepTurn, seatVars
  <2>3. QED
    BY <1>1, <2>1, <2>2, HonestRead
<1>4. CASE Forward
  <2>1. /\ SameTurns(seat, seat') /\ seat'.flight = seat.flight
        /\ out' = out /\ codex' = codex /\ UNCHANGED historyVars
    BY <1>4, ReceivedKeepsTurns DEF Forward
  <2>2. HonestSeat(seat')
    BY <1>1, <2>1, HonestTurns
  <2>3. stream' = Taken
    BY <1>4 DEF Forward, Received, Become, Delivered, Now
  <2>4. stream'.row = stream.row /\ stream'.pend = stream.pend
    BY <1>1, <2>3 DEF Taken, Streams
  <2>5. HonestNet(stream')
    BY <1>1, <2>4 DEF HonestNet
  <2>6. QED
    BY <2>1, <2>2, <2>5, HonestRead
<1>5. CASE Spawn
  <2>1. /\ seat'.awaiting = NewSeat.awaiting /\ seat'.held = NewSeat.held
        /\ seat'.flight = NewSeat.flight
    BY <1>5 DEF Spawn, NewSeat
  <2>2. HonestSeat(seat')
    BY <1>2, <2>1 DEF HonestSeat
  <2>3. HonestNet(stream')
    <3>1. Condition("ready") \in Acts /\ HonestAct(Condition("ready"))
      BY ActsTyped, HonestTells
    <3>2. QED
      BY <1>1, <1>5, <3>1, HonestPerformed DEF Spawn
  <2>4. /\ Len(out') = 0 /\ codex'.used = codex.used /\ codex'.turn = NoTurn
        /\ UNCHANGED historyVars
    BY <1>5 DEF Spawn, NewCodex
  <2>5. QED
    BY <1>1, <2>2, <2>3, <2>4, HonestRead
<1>6. CASE Close
  <2> DEFINE failing == Failing(seat)
             acts == SettleEach(failing, "deferred")
  <2>1. stream' = Doing(Now, acts).net
    BY <1>6 DEF Close, Torn, Deferred, Now
  <2>2. failing \in Seq(Receipts)
    BY <1>1, FailingTyped
  <2> HIDE DEF failing
  <2>3. acts \in Seq(Acts) /\ HonestActs(acts)
    BY <2>2, ActsTyped, HonestEach
  <2> HIDE DEF acts
  <2>4. Doing(Now, acts).net = PerformAll(stream, acts)
    BY DEF Doing, Now
  <2>5. HonestNet(stream')
    BY <1>1, <2>1, <2>3, <2>4, HonestAll
  <2>6. /\ Len(out') = 0 /\ codex'.used = codex.used /\ codex'.turn = NoTurn
        /\ UNCHANGED historyVars /\ seat' = NewSeat
    BY <1>6 DEF Close, NewCodex
  <2>7. QED
    BY <1>1, <1>2, <2>5, <2>6, HonestRead
<1>7. QED
  BY <1>3, <1>4, <1>5, <1>6

(* The app-server answers.                                                 *)
LEMMA HonestServed ==
    ASSUME Typed, Typed', HonestInv, StartTurn \/ Steer \/ RefuseSteer \/ RefuseRequest
    PROVE  HonestInv'
<1>1. /\ seat.flight.at = "sent" /\ seat' = [seat EXCEPT !.flight.at = "served"]
      /\ stream' = stream /\ ends' = ends /\ actedIn' = actedIn
  BY DEF StartTurn, Steer, RefuseSteer, RefuseRequest, Asked, Serve, historyVars
<1>2. /\ seat \in Seats /\ shown \in [Msgs -> SUBSET Turns] /\ codex.used \in Nat
      /\ \A t \in Turns : t \in Nat
  BY SeatConstantsOK DEF Typed
<1>3. PICK ev \in Seq(Receipts) : ev = seat.flight.events /\ ev = seat'.flight.events
  BY <1>1, <1>2 DEF Seats, Flights
<1>4. ASSUME NEW t \in Turns, Shows(t)
      PROVE  /\ \A m \in Msgs : shown[m] \subseteq shown'[m]
             /\ ShownIn(t, ev)'
  <2>1. \A r \in ToSet(ev) : r[1] \in Msgs
    BY ElementsOf, ReceiptOf
  <2>2. shown' = [m \in Msgs |-> IF \E r \in ToSet(ev) : r[1] = m
                                 THEN shown[m] \cup {t} ELSE shown[m]]
    BY <1>3, <1>4 DEF Shows
  <2>3. \A r \in ToSet(ev) : t \in shown'[r[1]]
    BY <2>1, <2>2
  <2>4. QED
    BY <2>2, <2>3 DEF ShownIn
<1>5. ASSUME NEW t, NEW a, a = Reply("ok", t), ShownIn(t, ev)'
      PROVE  HonestLine(a, ev)'
  <2>1. a.is = "reply" /\ a.turn = t
    BY <1>5 DEF Reply, Line
  <2>2. QED
    BY <1>5, <2>1 DEF HonestLine
<1>6. ASSUME NEW l, Wrote(l), \A m \in Msgs : shown[m] \subseteq shown'[m], EndsOnce',
             \A k \in 1 .. Len(l) : \E a : a = l[k] /\ HonestLine(a, ev)'
      PROVE  HonestInv'
  <2>1. \A k \in 1 .. Len(l) : HonestLine(l[k], seat.flight.events)'
    <3>1. TAKE k \in 1 .. Len(l)
    <3>2. PICK a : a = l[k] /\ HonestLine(a, ev)'
      BY <1>6
    <3>3. QED
      BY <1>3, <3>2 DEF HonestLine, ShownIn
  <2>2. QED
    BY <1>1, <1>6, <2>1, HonestWritten
<1>7. CASE StartTurn
  <2>1. PICK t : t = codex.used + 1
    OBVIOUS
  <2>2. /\ t \in Turns /\ codex'.turn = t /\ codex'.used = t /\ Shows(t)
        /\ \/ Wrote(<<Reply("ok", t), Started(t), Status("active")>>)
           \/ Wrote(<<Status("active"), Started(t), Reply("ok", t)>>)
    <3>1. /\ t \in Turns /\ codex' = [codex EXCEPT !.turn = t, !.used = t]
          /\ \/ Wrote(<<Reply("ok", t), Started(t), Status("active")>>)
             \/ Wrote(<<Status("active"), Started(t), Reply("ok", t)>>)
      BY <1>7, <2>1, StartTurnWrites
    <3>2. Shows(t)
      BY <1>7, <2>1 DEF StartTurn
    <3>3. QED
      BY <3>1, <3>2 DEF Typed
  <2>3. EndsOnce'
    BY <1>1, <1>2, <2>1, <2>2 DEF HonestInv, EndsOnce
  <2>4. PICK a, b, c : a = Reply("ok", t) /\ b = Started(t) /\ c = Status("active")
    OBVIOUS
  <2>5. b.is = "started" /\ c.is = "status"
    BY <2>4 DEF Started, Status, Line
  <2>6. HonestLine(a, ev)' /\ HonestLine(b, ev)' /\ HonestLine(c, ev)'
    BY <1>4, <1>5, <2>2, <2>4, <2>5 DEF HonestLine
  <2>7. \A l \in {<<a, b, c>>, <<c, b, a>>} : \A k \in 1 .. Len(l) :
            l[k] = a \/ l[k] = b \/ l[k] = c
    OBVIOUS
  <2>8. PICK l \in {<<a, b, c>>, <<c, b, a>>} : Wrote(l)
    BY <2>2, <2>4
  <2>9. QED
    BY <1>4, <1>6, <2>2, <2>3, <2>6, <2>7, <2>8
<1>8. CASE Steer \/ RefuseSteer \/ RefuseRequest
  <2>1. codex' = codex
    BY <1>8 DEF Steer, RefuseSteer, RefuseRequest
  <2>2. EndsOnce'
    BY <1>1, <2>1 DEF HonestInv, EndsOnce
  <2>3. \A m \in Msgs : shown[m] \subseteq shown'[m]
    BY <1>4, <1>8, RequestsWrite DEF Steer, RefuseSteer, RefuseRequest, historyVars
  <2>4. \E a : Wrote(<<a>>) /\ HonestLine(a, ev)'
    <3>1. CASE Steer
      <4>1. PICK t \in Turns : t = codex.turn
        BY <3>1, RequestsWrite
      <4>2. PICK a : a = Reply("ok", t)
        OBVIOUS
      <4>3. Wrote(<<a>>)
        BY <3>1, <4>1, <4>2, RequestsWrite
      <4>4. Shows(t)
        BY <3>1, <4>1 DEF Steer
      <4>5. QED
        BY <1>4, <1>5, <4>2, <4>3, <4>4
    <3>2. CASE RefuseSteer \/ RefuseRequest
      <4>1. PICK a : a.says # "ok" /\ a.is = "reply" /\ Wrote(<<a>>)
        <5>1. /\ Reply("race", NoTurn).says # "ok" /\ Reply("failed", NoTurn).says # "ok"
              /\ Reply("race", NoTurn).is = "reply" /\ Reply("failed", NoTurn).is = "reply"
          BY DEF Reply, Line
        <5>2. QED
          BY <3>2, <5>1, RequestsWrite
      <4>2. HonestLine(a, ev)'
        BY <4>1 DEF HonestLine
      <4>3. QED
        BY <4>1, <4>2
    <3>3. QED
      BY <1>8, <3>1, <3>2
  <2>5. PICK a : Wrote(<<a>>) /\ HonestLine(a, ev)'
    BY <2>4
  <2>6. PICK l : l = <<a>>
    OBVIOUS
  <2>7. \A k \in 1 .. Len(l) : l[k] = a
    BY <2>6
  <2>8. QED
    BY <1>6, <2>2, <2>3, <2>5, <2>6, <2>7
<1>9. QED
  BY <1>7, <1>8

(* The app-server tells of the turn.                                       *)
LEMMA HonestTold ==
    ASSUME Typed, Typed', HonestInv,
           EndTurn \/ FailTurn \/ Interrupt \/ UseTool \/ ReportError \/ Recover
    PROVE  HonestInv'
<1>1. seat' = seat /\ stream' = stream /\ shown' = shown /\ actedIn \subseteq actedIn'
  BY DEF EndTurn, FailTurn, Interrupt, UseTool, ReportError, Recover, historyVars
<1>2. /\ codex.used \in Nat /\ ends \in [Turns -> {"none", "well", "failed"}]
      /\ \A t \in Turns : t \in Nat
  BY SeatConstantsOK DEF Typed
<1>3. PICK ev : ev = seat.flight.events /\ ev = seat'.flight.events
  BY <1>1
<1>4. ASSUME NEW l, Wrote(l), \A t \in Turns : ends[t] = "well" => ends'[t] = "well",
             EndsOnce', \A k \in 1 .. Len(l) : \E a : a = l[k] /\ HonestLine(a, ev)'
      PROVE  HonestInv'
  <2>1. \A k \in 1 .. Len(l) : HonestLine(l[k], seat.flight.events)'
    <3>1. TAKE k \in 1 .. Len(l)
    <3>2. PICK a : a = l[k] /\ HonestLine(a, ev)'
      BY <1>4
    <3>3. QED
      BY <1>3, <3>2 DEF HonestLine, ShownIn
  <2>2. QED
    BY <1>1, <1>4, <2>1, HonestWritten
<1>5. ASSUME codex.turn \in Turns, codex'.turn = NoTurn, codex'.used = codex.used,
             NEW d \in {"well", "failed"}, ends' = [ends EXCEPT ![codex.turn] = d]
      PROVE  EndsOnce' /\ \A t \in Turns : ends[t] = "well" => ends'[t] = "well"
  <2>1. /\ codex.turn <= codex.used /\ ends[codex.turn] = "none"
        /\ \A t \in Turns : t > codex.used => ends[t] = "none" /\ t # codex.turn
    BY <1>2, <1>5 DEF HonestInv, EndsOnce
  <2>2. \A t \in Turns : t # codex.turn => ends'[t] = ends[t]
    BY <1>2, <1>5
  <2>3. 0 <= codex'.used
    BY <1>2, <1>5
  <2>4. QED
    BY <1>5, <2>1, <2>2, <2>3, NoTurnIsNone DEF EndsOnce, NoTurn
<1>6. CASE EndTurn \/ FailTurn
  <2>1. PICK t \in Turns : t = codex.turn
    BY <1>6, EndsWrite
  <2>2. PICK how \in {"completed", "failed"}, s \in {"idle", "systemError"} :
            /\ how = "failed" => ends' = [ends EXCEPT ![t] = "failed"]
            /\ how = "completed" => ends' = [ends EXCEPT ![t] = "well"]
            /\ \/ Wrote(<<Completed(t, how), Status(s)>>)
               \/ Wrote(<<Status(s), Completed(t, how)>>)
    BY <1>6, <2>1, EndsWrite
  <2>3. codex'.turn = NoTurn /\ codex'.used = codex.used
    BY <1>6, EndsWrite
  <2>4. EndsOnce' /\ \A u \in Turns : ends[u] = "well" => ends'[u] = "well"
    BY <1>5, <2>1, <2>2, <2>3
  <2>5. PICK a, b : a = Completed(t, how) /\ b = Status(s)
    OBVIOUS
  <2>6. a.is = "completed" /\ a.turn = t /\ a.says = how /\ b.is = "status"
    BY <2>5 DEF Completed, Status, Line
  <2>7. how = "completed" => ends'[t] = "well"
    BY <1>2, <2>2
  <2>8. HonestLine(a, ev)' /\ HonestLine(b, ev)'
    BY <2>6, <2>7 DEF HonestLine
  <2>9. \A l \in {<<a, b>>, <<b, a>>} : \A k \in 1 .. Len(l) : l[k] = a \/ l[k] = b
    OBVIOUS
  <2>10. PICK l \in {<<a, b>>, <<b, a>>} : Wrote(l)
    BY <2>2, <2>5
  <2>11. QED
    BY <1>4, <2>4, <2>8, <2>9, <2>10
<1>7. CASE Interrupt
  <2>1. codex'.turn = NoTurn /\ codex'.used = codex.used
    BY <1>7, InterruptWrites
  <2>2. PICK b : b = Line("interrupted")
    OBVIOUS
  <2>3. HonestLine(b, ev)'
    BY <2>2 DEF HonestLine, Line
  <2>4. CASE codex.turn = NoTurn
    <3>1. ends' = ends /\ Wrote(<<b>>)
      BY <1>7, <2>2, <2>4, InterruptWrites, NoTurnIsNone
    <3>2. EndsOnce'
      BY <2>1, <2>4, <3>1 DEF HonestInv, EndsOnce
    <3>3. PICK l : l = <<b>>
      OBVIOUS
    <3>4. \A k \in 1 .. Len(l) : l[k] = b
      BY <3>3
    <3>5. QED
      BY <1>4, <2>3, <3>1, <3>2, <3>3, <3>4
  <2>5. CASE codex.turn # NoTurn
    <3>1. PICK t \in Turns : t = codex.turn
      BY <1>7, <2>5, InterruptWrites
    <3>2. PICK a : a = Completed(t, "interrupted")
      OBVIOUS
    <3>3. /\ ends' = [ends EXCEPT ![t] = "well"]
          /\ Wrote(<<a, b>>) \/ Wrote(<<b, a>>)
      BY <1>7, <2>2, <2>5, <3>1, <3>2, InterruptWrites
    <3>4. EndsOnce' /\ \A u \in Turns : ends[u] = "well" => ends'[u] = "well"
      BY <1>5, <2>1, <3>1, <3>3
    <3>5. a.is = "completed" /\ a.turn = t /\ ends'[t] = "well"
      BY <1>2, <3>2, <3>3 DEF Completed, Line
    <3>6. HonestLine(a, ev)'
      BY <3>5 DEF HonestLine
    <3>7. \A l \in {<<a, b>>, <<b, a>>} : \A k \in 1 .. Len(l) : l[k] = a \/ l[k] = b
      OBVIOUS
    <3>8. PICK l \in {<<a, b>>, <<b, a>>} : Wrote(l)
      BY <3>3
    <3>9. QED
      BY <1>4, <2>3, <3>4, <3>6, <3>7, <3>8
  <2>6. QED
    BY <2>4, <2>5
<1>8. CASE UseTool \/ ReportError \/ Recover
  <2>1. ends' = ends /\ codex'.turn = codex.turn /\ codex'.used = codex.used
    BY <1>8 DEF UseTool, ReportError, Recover, historyVars, Typed
  <2>2. EndsOnce'
    BY <2>1 DEF HonestInv, EndsOnce
  <2>3. PICK a : Wrote(<<a>>) /\ (a.is \in {"error", "status"}
                                  \/ (a.is = "acted" /\ a.turn \in actedIn'))
    <3>1. /\ UsedTool(codex.turn).is = "acted" /\ UsedTool(codex.turn).turn = codex.turn
          /\ Line("error").is = "error" /\ Status("idle").is = "status"
      BY DEF UsedTool, Status, Line
    <3>2. UseTool => codex.turn \in actedIn'
      BY DEF UseTool
    <3>3. QED
      BY <1>8, <3>1, <3>2, NoticesWrite
  <2>4. HonestLine(a, ev)'
    BY <2>3 DEF HonestLine
  <2>5. PICK l : l = <<a>>
    OBVIOUS
  <2>6. \A k \in 1 .. Len(l) : l[k] = a
    BY <2>5
  <2>7. QED
    BY <1>4, <2>1, <2>2, <2>3, <2>4, <2>5, <2>6
<1>9. QED
  BY <1>6, <1>7, <1>8

LEMMA HonestStep == Typed /\ Typed' /\ OneReply /\ HonestInv /\ [Next]_vars => HonestInv'
<1> SUFFICES ASSUME Typed, Typed', OneReply, HonestInv, [Next]_vars PROVE HonestInv'
  OBVIOUS
<1>1. CASE UNCHANGED vars
  <2>1. /\ stream' = stream /\ seat' = seat /\ codex' = codex /\ out' = out
        /\ shown' = shown /\ ends' = ends /\ actedIn' = actedIn
    BY <1>1 DEF vars, historyVars
  <2>2. HonestNet(stream') /\ HonestSeat(seat') /\ UNCHANGED historyVars
    BY <2>1 DEF HonestInv, historyVars
  <2>3. QED
    BY <2>1, <2>2, HonestRead
<1>2. CASE Next
  BY <1>2, HonestMoves, HonestRunner, HonestServed, HonestTold DEF Next
<1>3. QED
  BY <1>1, <1>2

(* A message settled as handled was in the input of a turn that did not    *)
(* fail, one settled as acted in that of a turn that used a tool           *)
(* (turnCompleted, acted, receiptFor): also when the settlement waited for *)
(* another connection (pendingActions), when the request was asked again,  *)
(* and when the agent has been replaced.                                   *)
THEOREM HandledWasAlwaysShown == Spec => []HandledWasShown
<1>1. Init => Typed /\ OneReply /\ HonestInv
  BY TypedInit, HonestInit
<1>2. Typed /\ OneReply /\ HonestInv /\ [Next]_vars => (Typed /\ OneReply /\ HonestInv)'
  BY TypedStep, OneReplyStep, HonestStep
<1>3. Spec => [](Typed /\ OneReply /\ HonestInv)
  BY <1>1, <1>2, PTL DEF Spec
<1>4. HonestInv => HandledWasShown
  BY DEF HonestInv, HonestNet, Backed, HandledWasShown
<1>5. QED
  BY <1>3, <1>4, PTL
-----------------------------------------------------------------------------
(* A lease has an exit.                                                    *)

(* The turns for which a lease may be held: those open at the broker, and  *)
(* all of them while it holds no subscription of the runner.               *)
On(n) == IF n.active /\ n.link = "up" THEN n.open ELSE Turns

(* The messages with a receipt counted as gone, or one of such a turn that *)
(* the sink holds or an earlier sink went with.                            *)
Kept(s, c, on, gone) ==
    {m \in Msgs : \/ \E r \in gone : r[1] = m
                  \/ \E t \in on : \E r \in ToSet(s.held[t]) \cup c[t] : r[1] = m}

Settles(a, m) == a.do = "settle" /\ a.of[1] = m

(* Whatever the acts accept is kept, or settled by a later one.            *)
LeasesEnd(acts, kept) ==
    \A i \in 1 .. Len(acts) : acts[i].do = "accept" =>
        \/ acts[i].of[1] \in kept
        \/ \E j \in 1 .. Len(acts) : j > i /\ Settles(acts[j], acts[i].of[1])

(* Leases are held on a live stream only, for messages that are kept, and  *)
(* the acts that wait for a stream leave no other.                         *)
LeasedNet(n, kept) ==
    /\ n.link = "up" => n.active
    /\ n.active => n.pend = <<>>
    /\ \A m \in Msgs : n.row[m] = "accepted" => n.link = "up" /\ m \in kept
    /\ LeasesEnd(n.pend, kept)

(* A turn whose start has not been read has nothing in it, and starts once.*)
NewTurn(t) == t > codex.used \/ StillToRead("started", t)

AsksFor(f, t) ==
    /\ f.at # "none" /\ f.ask = "steer" /\ f.turn = t
    /\ f.at = "answered" => f.says = "ok"

Untouched(s, t) == s.held[t] = <<>> /\ s.turn # t /\ ~AsksFor(s.flight, t)

TurnsStartEmpty == \A t \in Turns : NewTurn(t) => Untouched(seat, t)

StartsOnce ==
    \A i \in 1 .. Len(out) : out[i].is = "started" =>
        /\ out[i].turn <= codex.used
        /\ \A j \in 1 .. Len(out) :
               out[j].is = "started" /\ out[j].turn = out[i].turn => j = i

SteersAnswered ==
    \A i \in 1 .. Len(out) :
        out[i].is = "reply" /\ out[i].says = "ok" /\ seat.flight.ask = "steer"
        => out[i].turn = seat.flight.turn

(* A turn that an earlier sink had receipts of is over.                    *)
CutsAreOver ==
    \A t \in Turns : cut[t] # {} =>
        t <= codex.used /\ codex.turn # t /\ ~StillToRead("completed", t)

LeaseInv ==
    /\ LeasedNet(stream, Kept(seat, cut, On(stream), late \cup lost))
    /\ CutsAreOver
    /\ TurnsStartEmpty /\ StartsOnce /\ SteersAnswered
    /\ stage = "off" => \A t \in Turns : seat.held[t] = <<>>

LEMMA LeasedMore ==
    ASSUME NEW n, NEW kept, NEW more, LeasedNet(n, kept), kept \subseteq more
    PROVE  LeasedNet(n, more)
<1>1. LeasesEnd(n.pend, more)
  BY DEF LeasedNet, LeasesEnd
<1>2. QED
  BY <1>1 DEF LeasedNet

LEMMA LeasedSame ==
    ASSUME NEW n, NEW kept, NEW n2, LeasedNet(n, kept), n2.pend = n.pend,
           n2.active = n.active, n2.link = n.link,
           \A m \in Msgs : n2.row[m] = n.row[m] \/ n2.row[m] # "accepted"
    PROVE  LeasedNet(n2, kept)
BY DEF LeasedNet

(* What an act sent does to the leases.                                    *)
SendsLeases(n, q) ==
    q.pend = n.pend /\ q.active = n.active /\ q.link = n.link

NoNewLease(n, q) ==
    SendsLeases(n, q) /\ \A m \in Msgs : q.row[m] = n.row[m] \/ q.row[m] # "accepted"

LEMMA LeasesHeard ==
    ASSUME NEW n \in Streams
    PROVE  /\ NoNewLease(n, Released(n))
           /\ \A m \in Msgs : /\ SendsLeases(n, HearAccepted(n, m))
                              /\ \A k \in Msgs : HearAccepted(n, m).row[k] = n.row[k] \/ k = m
           /\ \A m \in Msgs, d \in Outcomes \cup {"deferred"} :
                  /\ NoNewLease(n, HearSettled(n, m, d))
                  /\ HearSettled(n, m, d).row[m] # "accepted"
           /\ \A c \in {"ready", "degraded"} : NoNewLease(n, HearCondition(n, c))
           /\ \A t \in Turns : \A phase : NoNewLease(n, HearTurn(n, t, phase))
<1>1. \A x \in Streams : NoNewLease(x, Released(x))
  BY DEF NoNewLease, SendsLeases, Released, Streams
<1>2. \A m \in Msgs : /\ SendsLeases(n, HearAccepted(n, m))
                      /\ \A k \in Msgs : HearAccepted(n, m).row[k] = n.row[k] \/ k = m
  BY DEF HearAccepted, SendsLeases, Streams
<1>3. \A m \in Msgs, d \in Outcomes \cup {"deferred"} :
          /\ NoNewLease(n, HearSettled(n, m, d))
          /\ HearSettled(n, m, d).row[m] # "accepted"
  BY DEF HearSettled, NoNewLease, SendsLeases, Streams, Outcomes
<1>4. ASSUME NEW c \in {"ready", "degraded"} PROVE NoNewLease(n, HearCondition(n, c))
  <2> DEFINE worse == [n EXCEPT !.cond = c]
             ready == [n EXCEPT !.cond = c, !.down = @ \o PendingRows(n)]
  <2>1. /\ worse \in Streams /\ worse.row = n.row /\ SendsLeases(n, worse)
        /\ ready.row = n.row /\ SendsLeases(n, ready)
    BY DEF Streams, SendsLeases
  <2>2. HearCondition(n, c) \in {Released(worse), n, ready}
    BY DEF HearCondition
  <2> HIDE DEF worse, ready
  <2>3. NoNewLease(worse, Released(worse))
    BY <1>1, <2>1
  <2>4. QED
    BY <2>1, <2>2, <2>3 DEF NoNewLease, SendsLeases
<1>5. ASSUME NEW t \in Turns, NEW phase PROVE NoNewLease(n, HearTurn(n, t, phase))
  <2> DEFINE more == [n EXCEPT !.open = @ \cup {t}]
             closed == [n EXCEPT !.open = @ \ {t}]
             worse == [closed EXCEPT !.cond = "degraded"]
  <2>1. /\ more.row = n.row /\ SendsLeases(n, more)
        /\ closed.row = n.row /\ SendsLeases(n, closed)
        /\ worse \in Streams /\ worse.row = n.row /\ SendsLeases(n, worse)
    BY DEF Streams, SendsLeases
  <2>2. HearTurn(n, t, phase) \in {more, n, Released(worse), closed}
    BY DEF HearTurn
  <2> HIDE DEF more, closed, worse
  <2>3. NoNewLease(worse, Released(worse))
    BY <1>1, <2>1
  <2>4. QED
    BY <2>1, <2>2, <2>3 DEF NoNewLease, SendsLeases
<1>6. QED
  BY <1>1, <1>2, <1>3, <1>4, <1>5

LEMMA LeasesAccepted ==
    ASSUME NEW n \in Streams, NEW r \in Receipts
    PROVE  LET q == Accepted(n, r)
           IN  /\ SendsLeases(n, q)
               /\ \A m \in Msgs : \/ q.row[m] = n.row[m]
                                  \/ n.link = "up" /\ m = r[1]
<1> DEFINE heard == IF n.link = "up" THEN HearAccepted(n, r[1]) ELSE n
           q == [heard EXCEPT !.acc[r] = n.gen]
<1>1. /\ heard \in Streams /\ SendsLeases(n, heard)
      /\ \A m \in Msgs : heard.row[m] = n.row[m] \/ (n.link = "up" /\ m = r[1])
  BY HearTyped, LeasesHeard, ReceiptOf DEF SendsLeases
<1>2. Accepted(n, r) \in {n, q}
  BY DEF Accepted
<1> HIDE DEF heard
<1>3. q.row = heard.row /\ SendsLeases(heard, q)
  BY <1>1 DEF Streams, SendsLeases
<1> HIDE DEF q
<1>4. QED
  BY <1>1, <1>2, <1>3 DEF SendsLeases

(* A lease after an act was one before, which the act has not settled on a *)
(* live stream, or the act has taken it on one.                            *)
LEMMA LeasesSent ==
    ASSUME NEW n \in Streams, NEW a \in Acts
    PROVE  LET q == Sent(n, a)
           IN  /\ SendsLeases(n, q)
               /\ \A m \in Msgs : q.row[m] = "accepted" =>
                     \/ n.row[m] = "accepted" /\ (n.link = "up" => ~Settles(a, m))
                     \/ n.link = "up" /\ a.do = "accept" /\ a.of[1] = m
<1>1. CASE a.do = "accept"
  <2>1. a.of \in Receipts /\ Sent(n, a) = Accepted(n, a.of)
    BY <1>1, ActOf DEF Sent
  <2>2. QED
    BY <1>1, <2>1, LeasesAccepted DEF Settles
<1>2. CASE a.do = "settle"
  <2>1. /\ a.of \in Receipts /\ a.as \in Outcomes \cup {"deferred"} /\ a.of[1] \in Msgs
    BY <1>2, ActOf, ReceiptOf
  <2> DEFINE held == Accepted(n, a.of)
             h == HearSettled(held, a.of[1], a.as)
  <2>2. /\ held \in Streams /\ SendsLeases(n, held)
        /\ \A m \in Msgs : held.row[m] = n.row[m] \/ (n.link = "up" /\ m = a.of[1])
    BY <2>1, AcceptedTyped, LeasesAccepted
  <2>3. Sent(n, a) = IF n.link = "up" THEN h ELSE held
    BY <1>2 DEF Sent, Settled
  <2> HIDE DEF held
  <2>4. /\ NoNewLease(held, h) /\ h.row[a.of[1]] # "accepted"
    BY <2>1, <2>2, LeasesHeard
  <2> HIDE DEF h
  <2>5. CASE n.link = "up"
    BY <1>2, <2>1, <2>2, <2>3, <2>4, <2>5 DEF NoNewLease, SendsLeases, Settles
  <2>6. CASE n.link # "up"
    BY <2>2, <2>3, <2>6
  <2>7. QED
    BY <2>5, <2>6
<1>3. CASE a.do \in {"condition", "turn"}
  <2>1. NoNewLease(n, n)
    BY DEF NoNewLease, SendsLeases
  <2>2. NoNewLease(n, Sent(n, a))
    BY <1>3, <2>1, ActOf, LeasesHeard DEF Sent
  <2>3. QED
    BY <1>3, <2>2 DEF NoNewLease, Settles
<1>4. QED
  BY <1>1, <1>2, <1>3, ActOf

(* The acts leave leases on what they, or an earlier lease, keep.          *)
LEMMA LeasedAll ==
    ASSUME NEW n \in Streams, NEW kept, NEW left, LeasedNet(n, kept),
           NEW acts \in Seq(Acts), LeasesEnd(acts, left),
           \A m \in kept : m \in left \/ \E j \in 1 .. Len(acts) : Settles(acts[j], m)
    PROVE  LeasedNet(PerformAll(n, acts), left)
<1>1. /\ Len(acts) \in Nat /\ \A i \in 1 .. Len(acts) : acts[i] \in Acts
      /\ n.pend \in Seq(Acts) /\ Len(n.pend) \in Nat
  BY LenProperties, ElementOfSeq DEF Streams
<1> DEFINE b == Len(n.pend)
           Good(i, x) ==
               /\ x \in Streams /\ x.active = n.active /\ x.link = n.link
               /\ x.active => x.pend = <<>>
               /\ ~x.active =>
                     /\ Len(x.pend) = b + i
                     /\ \A k \in 1 .. b : x.pend[k] = n.pend[k]
                     /\ \A k \in 1 .. i : x.pend[b + k] = acts[k]
               /\ \A m \in Msgs : x.row[m] = "accepted" =>
                     /\ n.link = "up"
                     /\ m \in left \/ \E j \in 1 .. Len(acts) : j > i /\ Settles(acts[j], m)
           good == [i \in 0 .. Len(acts) |-> {x \in Streams : Good(i, x)}]
<1>2. n \in good[0]
  <2>1. Good(0, n)
    BY <1>1 DEF LeasedNet
  <2> HIDE DEF Good
  <2>2. QED
    BY <1>1, <2>1
<1>3. ASSUME NEW i \in 1 .. Len(acts), NEW x, Good(i - 1, x)
      PROVE  Good(i, Performed(x, acts[i]))
  <2> DEFINE a == acts[i]
             q == Performed(x, a)
  <2>1. x \in Streams /\ a \in Acts /\ q \in Streams
    BY <1>1, <1>3, PerformedTyped
  <2>2. CASE x.active
    <3>1. q = Sent(x, a)
      BY <2>2 DEF Performed
    <3> HIDE DEF q
    <3>2. /\ SendsLeases(x, q)
          /\ \A m \in Msgs : q.row[m] = "accepted" =>
                \/ x.row[m] = "accepted" /\ (x.link = "up" => ~Settles(a, m))
                \/ x.link = "up" /\ a.do = "accept" /\ a.of[1] = m
      BY <2>1, <3>1, LeasesSent
    <3>3. ASSUME NEW m \in Msgs, q.row[m] = "accepted"
          PROVE  /\ n.link = "up"
                 /\ m \in left \/ \E j \in 1 .. Len(acts) : j > i /\ Settles(acts[j], m)
      <4>1. CASE x.row[m] = "accepted" /\ (x.link = "up" => ~Settles(a, m))
        <5>1. /\ n.link = "up" /\ x.link = n.link
              /\ m \in left \/ \E j \in 1 .. Len(acts) : j > i - 1 /\ Settles(acts[j], m)
          BY <1>3, <4>1
        <5>2. ~Settles(acts[i], m)
          BY <4>1, <5>1
        <5>3. \A j \in 1 .. Len(acts) : j > i - 1 => j = i \/ j > i
          BY <1>1
        <5>4. QED
          BY <5>1, <5>2, <5>3
      <4>2. CASE x.link = "up" /\ a.do = "accept" /\ a.of[1] = m
        BY <1>3, <4>2 DEF LeasesEnd
      <4>3. QED
        BY <3>2, <3>3, <4>1, <4>2
    <3>4. q.active = n.active /\ q.link = n.link /\ q.active /\ q.pend = <<>>
      BY <1>3, <2>2, <3>2 DEF SendsLeases
    <3>5. Good(i, q)
      BY <2>1, <3>3, <3>4
    <3>6. QED
      BY <3>5 DEF q
  <2>3. CASE ~x.active
    <3>1. q = [x EXCEPT !.pend = Append(@, a)]
      BY <2>3 DEF Performed
    <3> HIDE DEF q
    <3>2. /\ x.pend \in Seq(Acts) /\ q.pend = Append(x.pend, a)
          /\ q.row = x.row /\ q.active = x.active /\ q.link = x.link
      BY <2>1, <3>1 DEF Streams
    <3>3. /\ Len(x.pend) = b + (i - 1)
          /\ \A k \in 1 .. b : x.pend[k] = n.pend[k]
          /\ \A k \in 1 .. i - 1 : x.pend[b + k] = acts[k]
      BY <1>3, <2>3
    <3>4. /\ Len(q.pend) = Len(x.pend) + 1 /\ q.pend[Len(x.pend) + 1] = a
          /\ \A k \in 1 .. Len(x.pend) : q.pend[k] = x.pend[k]
      BY <2>1, <3>2, AppendProperties
    <3>5. Len(q.pend) = b + i /\ q.pend[b + i] = acts[i]
      BY <1>1, <3>3, <3>4
    <3>6. \A k \in 1 .. b : q.pend[k] = n.pend[k]
      BY <1>1, <3>3, <3>4
    <3>7. \A k \in 1 .. i : q.pend[b + k] = acts[k]
      <4>1. TAKE k \in 1 .. i
      <4>2. CASE k = i
        BY <3>5, <4>2
      <4>3. CASE k # i
        <5> DEFINE z == b + k
        <5>1. k \in 1 .. i - 1 /\ z \in 1 .. Len(x.pend)
          BY <1>1, <3>3, <4>3
        <5>2. x.pend[z] = acts[k]
          BY <3>3, <5>1
        <5> HIDE DEF z
        <5>3. q.pend[z] = acts[k]
          BY <3>4, <5>1, <5>2
        <5>4. QED
          BY <5>3 DEF z
      <4>4. QED
        BY <4>2, <4>3
    <3>8. \A m \in Msgs : q.row[m] # "accepted"
      <4>1. \A m \in Msgs : x.row[m] = "accepted" => n.active
        BY <1>3 DEF LeasedNet
      <4>2. QED
        BY <1>3, <2>3, <3>2, <4>1
    <3>9. Good(i, q)
      BY <1>3, <2>1, <2>3, <3>2, <3>5, <3>6, <3>7, <3>8
    <3>10. QED
      BY <3>9 DEF q
  <2>4. QED
    BY <2>2, <2>3
<1>4. \A i \in 1 .. Len(acts) : \A x \in good[i - 1] : Performed(x, acts[i]) \in good[i]
  <2> HIDE DEF Good
  <2>1. TAKE i \in 1 .. Len(acts)
  <2>2. TAKE x \in good[i - 1]
  <2>3. i - 1 \in 0 .. Len(acts) /\ i \in 0 .. Len(acts)
    BY <1>1
  <2>4. x \in Streams /\ Good(i - 1, x)
    BY <2>3
  <2>5. Performed(x, acts[i]) \in Streams
    BY <1>1, <2>4, PerformedTyped
  <2>6. QED
    BY <1>3, <2>3, <2>4, <2>5
<1>5. PICK z : z = PerformAll(n, acts)
  OBVIOUS
<1>6. Good(Len(acts), z)
  <2>1. \A y : y \in good[Len(acts)] => Good(Len(acts), y)
    <3> HIDE DEF Good
    <3>1. Len(acts) \in 0 .. Len(acts)
      BY <1>1
    <3>2. QED
      BY <3>1
  <2> HIDE DEF Good, good
  <2>2. z \in good[Len(acts)]
    BY <1>1, <1>2, <1>4, <1>5, PerformsThrough
  <2>3. QED
    BY <2>1, <2>2
<1>7. LeasesEnd(z.pend, left)
  <2>1. CASE z.active
    <3>1. Len(<<>>) = 0
      OBVIOUS
    <3>2. QED
      BY <1>6, <2>1, <3>1 DEF LeasesEnd
  <2>2. CASE ~z.active
    <3>1. /\ Len(z.pend) = b + Len(acts)
          /\ \A k \in 1 .. b : z.pend[k] = n.pend[k]
          /\ \A k \in 1 .. Len(acts) : z.pend[b + k] = acts[k]
      BY <1>6, <2>2
    <3> HIDE DEF b
    <3>2. b \in Nat
      BY <1>1 DEF b
    <3>3. ASSUME NEW m, \E j \in 1 .. Len(acts) : Settles(acts[j], m), NEW k \in 1 .. b
          PROVE  \E j \in 1 .. Len(z.pend) : j > k /\ Settles(z.pend[j], m)
      <4>1. PICK j \in 1 .. Len(acts) : Settles(acts[j], m)
        BY <3>3
      <4>2. PICK y : y = b + j
        OBVIOUS
      <4>3. y \in 1 .. Len(z.pend) /\ y > k /\ z.pend[y] = acts[j]
        BY <1>1, <3>1, <3>2, <4>2
      <4>4. QED
        BY <4>1, <4>3
    <3>4. ASSUME NEW k \in 1 .. b, z.pend[k].do = "accept"
          PROVE  \/ z.pend[k].of[1] \in left
                 \/ \E j \in 1 .. Len(z.pend) : j > k /\ Settles(z.pend[j], z.pend[k].of[1])
      <4>1. PICK m : m = n.pend[k].of[1] /\ m = z.pend[k].of[1]
        BY <3>1
      <4>2. \/ m \in kept
            \/ \E j \in 1 .. b : j > k /\ Settles(n.pend[j], m)
        BY <3>1, <3>4, <4>1 DEF LeasedNet, LeasesEnd, b
      <4>3. CASE m \in kept
        BY <3>3, <4>1, <4>3
      <4>4. CASE \E j \in 1 .. b : j > k /\ Settles(n.pend[j], m)
        <5>1. PICK j \in 1 .. b : j > k /\ Settles(n.pend[j], m)
          BY <4>4
        <5>2. j \in 1 .. Len(z.pend) /\ z.pend[j] = n.pend[j]
          BY <1>1, <3>1, <3>2
        <5>3. QED
          BY <4>1, <5>1, <5>2
      <4>5. QED
        BY <4>2, <4>3, <4>4
    <3>5. ASSUME NEW i \in 1 .. Len(acts), NEW y, y = b + i, z.pend[y].do = "accept"
          PROVE  \/ z.pend[y].of[1] \in left
                 \/ \E j \in 1 .. Len(z.pend) : j > y /\ Settles(z.pend[j], z.pend[y].of[1])
      <4>1. z.pend[y] = acts[i]
        BY <3>1, <3>5
      <4>2. CASE \E j \in 1 .. Len(acts) : j > i /\ Settles(acts[j], acts[i].of[1])
        <5>1. PICK j \in 1 .. Len(acts) : j > i /\ Settles(acts[j], acts[i].of[1])
          BY <4>2
        <5>2. PICK w : w = b + j
          OBVIOUS
        <5>3. w \in 1 .. Len(z.pend) /\ w > y /\ z.pend[w] = acts[j]
          BY <1>1, <3>1, <3>2, <3>5, <5>1, <5>2
        <5>4. QED
          BY <4>1, <5>1, <5>3
      <4>3. QED
        BY <3>5, <4>1, <4>2 DEF LeasesEnd
    <3>6. \A y \in 1 .. Len(z.pend) : y \in 1 .. b \/ \E i \in 1 .. Len(acts) : y = b + i
      <4>1. TAKE y \in 1 .. Len(z.pend)
      <4>2. CASE y > b
        <5>1. y - b \in 1 .. Len(acts) /\ y = b + (y - b)
          BY <1>1, <3>1, <3>2, <4>2
        <5>2. QED
          BY <5>1
      <4>3. CASE ~(y > b)
        BY <3>1, <3>2, <4>3
      <4>4. QED
        BY <4>2, <4>3
    <3>7. QED
      BY <3>4, <3>5, <3>6 DEF LeasesEnd
  <2>3. QED
    BY <2>1, <2>2
<1>8. LeasedNet(z, left)
  <2>1. \A m \in Msgs : z.row[m] = "accepted" => z.link = "up" /\ m \in left
    BY <1>1, <1>6
  <2>2. z.link = "up" => z.active
    BY <1>6 DEF LeasedNet
  <2>3. z.active => z.pend = <<>>
    BY <1>6
  <2>4. QED
    BY <1>7, <2>1, <2>2, <2>3 DEF LeasedNet
<1>9. QED
  BY <1>5, <1>8

(* Acts of a kind: those that take no lease, and those of one message.     *)
LEMMA LeasesOf ==
    ASSUME NEW kept
    PROVE  /\ \A c : LeasesEnd(<<Condition(c)>>, kept)
           /\ \A t : \A is : LeasesEnd(<<Turn(t, is)>>, kept)
           /\ \A c : \A t : \A is : LeasesEnd(<<Condition(c), Turn(t, is)>>, kept)
           /\ LeasesEnd(<<>>, kept)
           /\ \A s \in Seq(Receipts) :
                 /\ (\A r \in ToSet(s) : r[1] \in kept) => LeasesEnd(AcceptEach(s), kept)
                 /\ \A d : LeasesEnd(SettleEach(s, d), kept)
           /\ \A a, b \in Seq(Acts) :
                 LeasesEnd(a, kept) /\ LeasesEnd(b, kept) => LeasesEnd(a \o b, kept)
<1>1. /\ \A c : Condition(c).do = "condition"
      /\ \A t : \A is : Turn(t, is).do = "turn"
  BY DEF Condition, Turn
<1>2. /\ \A c : LeasesEnd(<<Condition(c)>>, kept)
      /\ \A t : \A is : LeasesEnd(<<Turn(t, is)>>, kept)
      /\ \A c : \A t : \A is : LeasesEnd(<<Condition(c), Turn(t, is)>>, kept)
      /\ LeasesEnd(<<>>, kept)
  <2>1. ASSUME NEW a, NEW b, a.do # "accept", b.do # "accept"
        PROVE  LeasesEnd(<<a>>, kept) /\ LeasesEnd(<<a, b>>, kept)
    <3>1. PICK x, y : x = <<a>> /\ y = <<a, b>>
      OBVIOUS
    <3>2. /\ \A i \in 1 .. Len(x) : x[i].do # "accept"
          /\ \A i \in 1 .. Len(y) : y[i].do # "accept"
      BY <2>1, <3>1
    <3>3. QED
      BY <3>1, <3>2 DEF LeasesEnd
  <2>2. LeasesEnd(<<>>, kept)
    BY DEF LeasesEnd
  <2>3. QED
    BY <1>1, <2>1, <2>2
<1>3. ASSUME NEW s \in Seq(Receipts)
      PROVE  /\ (\A r \in ToSet(s) : r[1] \in kept) => LeasesEnd(AcceptEach(s), kept)
             /\ \A d : LeasesEnd(SettleEach(s, d), kept)
  <2>1. DOMAIN s = 1 .. Len(s) /\ Len(s) \in Nat /\ \A i \in 1 .. Len(s) : s[i] \in ToSet(s)
    BY ElementsOf
  <2>2. ASSUME \A r \in ToSet(s) : r[1] \in kept PROVE LeasesEnd(AcceptEach(s), kept)
    <3>1. PICK x : x = AcceptEach(s)
      OBVIOUS
    <3>2. Len(x) = Len(s) /\ \A i \in 1 .. Len(s) : x[i].of = s[i]
      BY <2>1, <3>1 DEF AcceptEach, AcceptOf
    <3>3. \A i \in 1 .. Len(x) : x[i].of[1] \in kept
      BY <2>1, <2>2, <3>2
    <3>4. QED
      BY <3>1, <3>3 DEF LeasesEnd
  <2>3. ASSUME NEW d PROVE LeasesEnd(SettleEach(s, d), kept)
    <3>1. PICK x : x = SettleEach(s, d)
      OBVIOUS
    <3>2. Len(x) = Len(s) /\ \A i \in 1 .. Len(s) : x[i].do = "settle"
      BY <2>1, <3>1 DEF SettleEach, SettleOf
    <3>3. QED
      BY <3>1, <3>2 DEF LeasesEnd
  <2>4. QED
    BY <2>2, <2>3
<1>4. ASSUME NEW a \in Seq(Acts), NEW b \in Seq(Acts),
             LeasesEnd(a, kept), LeasesEnd(b, kept)
      PROVE  LeasesEnd(a \o b, kept)
  <2>1. PICK ab : ab = a \o b
    OBVIOUS
  <2>2. /\ Len(a) \in Nat /\ Len(b) \in Nat /\ Len(ab) = Len(a) + Len(b)
        /\ \A i \in 1 .. Len(a) + Len(b) :
               ab[i] = IF i <= Len(a) THEN a[i] ELSE b[i - Len(a)]
    BY <2>1, ConcatProperties, LenProperties
  <2>3. /\ \A i \in 1 .. Len(a) : ab[i] = a[i] /\ i \in 1 .. Len(ab)
        /\ \A i \in 1 .. Len(ab) : i \in 1 .. Len(a) \/ i - Len(a) \in 1 .. Len(b)
    BY <2>2
  <2>4. ASSUME NEW k \in 1 .. Len(b), NEW i, i = Len(a) + k
        PROVE  i \in 1 .. Len(ab) /\ ab[i] = b[k]
    <3>1. i \in 1 .. Len(a) + Len(b) /\ ~(i <= Len(a)) /\ i - Len(a) = k
      BY <2>2, <2>4
    <3>2. QED
      BY <2>2, <3>1
  <2>5. ASSUME NEW i \in 1 .. Len(a), ab[i].do = "accept", ab[i].of[1] \notin kept
        PROVE  \E j \in 1 .. Len(ab) : j > i /\ Settles(ab[j], ab[i].of[1])
    <3>1. PICK j \in 1 .. Len(a) : j > i /\ Settles(a[j], a[i].of[1])
      BY <1>4, <2>3, <2>5 DEF LeasesEnd
    <3>2. QED
      BY <2>3, <3>1
  <2>6. ASSUME NEW k \in 1 .. Len(b), NEW i, i = Len(a) + k,
               ab[i].do = "accept", ab[i].of[1] \notin kept
        PROVE  \E j \in 1 .. Len(ab) : j > i /\ Settles(ab[j], ab[i].of[1])
    <3>1. ab[i] = b[k]
      BY <2>4, <2>6
    <3>2. PICK j \in 1 .. Len(b) : j > k /\ Settles(b[j], b[k].of[1])
      BY <1>4, <2>6, <3>1 DEF LeasesEnd
    <3>3. PICK w : w = Len(a) + j
      OBVIOUS
    <3>4. w \in 1 .. Len(ab) /\ ab[w] = b[j] /\ w > i
      BY <2>2, <2>4, <2>6, <3>2, <3>3
    <3>5. QED
      BY <3>1, <3>2, <3>4
  <2>7. ASSUME NEW i \in 1 .. Len(ab), ab[i].do = "accept", ab[i].of[1] \notin kept
        PROVE  \E j \in 1 .. Len(ab) : j > i /\ Settles(ab[j], ab[i].of[1])
    <3>1. CASE i \in 1 .. Len(a)
      BY <2>5, <2>7, <3>1
    <3>2. CASE i - Len(a) \in 1 .. Len(b)
      <4>1. PICK k \in 1 .. Len(b) : i = Len(a) + k
        BY <2>2, <3>2
      <4>2. QED
        BY <2>6, <2>7, <4>1
    <3>3. QED
      BY <2>3, <3>1, <3>2
  <2>8. LeasesEnd(ab, kept)
    BY <2>7 DEF LeasesEnd
  <2>9. QED
    BY <2>1, <2>8
<1>5. QED
  BY <1>2, <1>3, <1>4

(* The settlements at the end of some acts.                                *)
LEMMA SettledBy ==
    ASSUME NEW a \in Seq(Acts), NEW s \in Seq(Receipts), NEW d \in Outcomes \cup {"deferred"}
    PROVE  \A m : (\E r \in ToSet(s) : r[1] = m) =>
               /\ \E j \in 1 .. Len(SettleEach(s, d)) : Settles(SettleEach(s, d)[j], m)
               /\ \E j \in 1 .. Len(a \o SettleEach(s, d)) :
                     Settles((a \o SettleEach(s, d))[j], m)
<1>1. PICK b : b = SettleEach(s, d)
  OBVIOUS
<1>2. DOMAIN s = 1 .. Len(s) /\ Len(s) \in Nat
      /\ \A r \in ToSet(s) : \E i \in 1 .. Len(s) : r = s[i]
  BY ElementsOf
<1>3. Len(b) = Len(s) /\ \A i \in 1 .. Len(s) : b[i].do = "settle" /\ b[i].of = s[i]
  BY <1>1, <1>2 DEF SettleEach, SettleOf
<1>4. b \in Seq(Acts)
  BY <1>1, ActsTyped
<1>5. PICK ab : ab = a \o b
  OBVIOUS
<1>6. /\ Len(a) \in Nat /\ Len(b) \in Nat /\ Len(ab) = Len(a) + Len(b)
      /\ \A i \in 1 .. Len(a) + Len(b) :
             ab[i] = IF i <= Len(a) THEN a[i] ELSE b[i - Len(a)]
  BY <1>4, <1>5, ConcatProperties, LenProperties
<1>7. ASSUME NEW m, NEW r \in ToSet(s), r[1] = m
      PROVE  /\ \E j \in 1 .. Len(b) : Settles(b[j], m)
             /\ \E j \in 1 .. Len(ab) : Settles(ab[j], m)
  <2>1. PICK i \in 1 .. Len(s) : r = s[i]
    BY <1>2
  <2>2. i \in 1 .. Len(b) /\ Settles(b[i], m)
    BY <1>3, <1>7, <2>1 DEF Settles
  <2>3. PICK w : w = Len(a) + i
    OBVIOUS
  <2>4. w \in 1 .. Len(a) + Len(b) /\ ~(w <= Len(a)) /\ w - Len(a) = i
    BY <1>6, <2>2, <2>3
  <2>5. w \in 1 .. Len(ab) /\ ab[w] = b[i]
    BY <1>6, <2>4
  <2>6. QED
    BY <2>2, <2>5
<1>8. QED
  BY <1>1, <1>5, <1>7

(* What the acts leave of the open turns.                                  *)
LEMMA OpenHeard ==
    ASSUME NEW n \in Streams
    PROVE  /\ \A m \in Msgs : HearAccepted(n, m).open = n.open
           /\ \A m \in Msgs : \A d : HearSettled(n, m, d).open = n.open
           /\ \A c : HearCondition(n, c).open = n.open
           /\ \A t \in Turns : HearTurn(n, t, "started").open = n.open \cup {t}
           /\ \A t \in Turns : \A phase : phase # "started" =>
                  HearTurn(n, t, phase).open = n.open \ {t}
<1>1. \A x \in Streams : Released(x).open = x.open
  BY DEF Released, Streams
<1>2. \A m \in Msgs : HearAccepted(n, m).open = n.open
  BY DEF HearAccepted, Streams
<1>3. \A m \in Msgs : \A d : HearSettled(n, m, d).open = n.open
  BY DEF HearSettled, Streams
<1>4. ASSUME NEW c PROVE HearCondition(n, c).open = n.open
  <2> DEFINE worse == [n EXCEPT !.cond = "degraded"]
             ready == [n EXCEPT !.cond = c, !.down = @ \o PendingRows(n)]
  <2>1. worse \in Streams /\ worse.open = n.open /\ ready.open = n.open
    BY DEF Streams
  <2>2. HearCondition(n, c) \in {Released(worse), n, ready}
    BY DEF HearCondition
  <2> HIDE DEF worse, ready
  <2>3. QED
    BY <1>1, <2>1, <2>2
<1>5. ASSUME NEW t \in Turns, NEW phase
      PROVE  HearTurn(n, t, phase).open =
                 IF phase = "started" THEN n.open \cup {t} ELSE n.open \ {t}
  <2> DEFINE closed == [n EXCEPT !.open = @ \ {t}]
             worse == [closed EXCEPT !.cond = "degraded"]
  <2>1. /\ closed \in Streams /\ closed.open = n.open \ {t}
        /\ worse \in Streams /\ worse.open = n.open \ {t}
    BY DEF Streams
  <2>2. CASE phase = "started"
    BY <2>2 DEF HearTurn, Streams
  <2>3. CASE phase # "started" /\ t \notin n.open
    <3>1. HearTurn(n, t, phase) = n
      BY <2>3 DEF HearTurn
    <3>2. QED
      BY <2>3, <3>1
  <2>4. CASE phase # "started" /\ t \in n.open
    <3>1. HearTurn(n, t, phase) \in {Released(worse), closed}
      BY <2>4 DEF HearTurn
    <3> HIDE DEF closed, worse
    <3>2. QED
      BY <1>1, <2>1, <2>4, <3>1
  <2>5. QED
    BY <2>2, <2>3, <2>4
<1>6. QED
  BY <1>2, <1>3, <1>4, <1>5

Starts(a, t) == a.do = "turn" /\ a.id = t /\ a.is = "started"
Ends(a, t) == a.do = "turn" /\ a.id = t /\ a.is # "started"

LEMMA OpenSent ==
    ASSUME NEW n \in Streams, NEW a \in Acts, NEW t \in Turns, ~Ends(a, t),
           t \in n.open \/ (n.link = "up" /\ Starts(a, t))
    PROVE  t \in Sent(n, a).open
<1>1. ASSUME NEW r \in Receipts
      PROVE  Accepted(n, r) \in Streams /\ Accepted(n, r).open = n.open
  <2> DEFINE heard == IF n.link = "up" THEN HearAccepted(n, r[1]) ELSE n
             q == [heard EXCEPT !.acc[r] = n.gen]
  <2>1. heard \in Streams /\ heard.open = n.open
    BY HearTyped, OpenHeard, ReceiptOf
  <2>2. Accepted(n, r) \in {n, q}
    BY DEF Accepted
  <2> HIDE DEF heard
  <2>3. q.open = heard.open
    BY <2>1 DEF Streams
  <2> HIDE DEF q
  <2>4. QED
    BY <2>1, <2>2, <2>3, AcceptedTyped
<1>2. CASE a.do = "accept"
  BY <1>1, <1>2, ActOf DEF Sent, Starts
<1>3. CASE a.do = "settle"
  <2>1. a.of \in Receipts /\ a.of[1] \in Msgs
    BY <1>3, ActOf, ReceiptOf
  <2>2. \A x \in Streams : HearSettled(x, a.of[1], a.as).open = x.open
    BY <2>1, OpenHeard
  <2>3. Sent(n, a).open = n.open
    BY <1>1, <1>3, <2>1, <2>2 DEF Sent, Settled
  <2>4. QED
    BY <1>3, <2>3 DEF Starts
<1>4. CASE a.do = "condition"
  <2>1. Sent(n, a).open = n.open
    BY <1>4, OpenHeard DEF Sent
  <2>2. QED
    BY <1>4, <2>1 DEF Starts
<1>5. CASE a.do = "turn"
  <2>1. a.id \in Turns
    BY <1>5, ActOf
  <2>2. CASE n.link = "up"
    <3>1. Sent(n, a) = HearTurn(n, a.id, a.is)
      BY <1>5, <2>2 DEF Sent
    <3>2. PICK u, phase : u = a.id /\ phase = a.is
      OBVIOUS
    <3>3. u \in Turns /\ Sent(n, a) = HearTurn(n, u, phase)
      BY <2>1, <3>1, <3>2
    <3>4. CASE phase = "started"
      <4>1. Sent(n, a).open = n.open \cup {u}
        BY <3>3, <3>4, OpenHeard
      <4>2. t \in n.open \/ u = t
        BY <1>5, <3>2 DEF Starts
      <4>3. QED
        BY <4>1, <4>2
    <3>5. CASE phase # "started"
      <4>1. Sent(n, a).open = n.open \ {u}
        BY <3>3, <3>5, OpenHeard
      <4>2. t \in n.open /\ u # t
        BY <1>5, <3>2, <3>5 DEF Starts, Ends
      <4>3. QED
        BY <4>1, <4>2
    <3>6. QED
      BY <3>4, <3>5
  <2>3. CASE n.link # "up"
    <3>1. Sent(n, a) = n
      BY <1>5, <2>3 DEF Sent
    <3>2. QED
      BY <2>3, <3>1
  <2>4. QED
    BY <2>2, <2>3
<1>6. QED
  BY <1>2, <1>3, <1>4, <1>5, ActOf

LEMMA OnPerformed ==
    ASSUME NEW n \in Streams, NEW a \in Acts
    PROVE  LET q == Performed(n, a)
           IN  /\ q.active = n.active /\ q.link = n.link
               /\ \A t \in Turns : ~Ends(a, t) /\ (t \in On(n) \/ Starts(a, t)) => t \in On(q)
<1> DEFINE q == Performed(n, a)
<1>1. CASE n.active
  <2>1. q = Sent(n, a)
    BY <1>1 DEF Performed
  <2>2. q.active = n.active /\ q.link = n.link
    BY <2>1, LeasesSent DEF SendsLeases
  <2>3. \A t \in Turns : ~Ends(a, t) /\ (t \in n.open \/ (n.link = "up" /\ Starts(a, t)))
                         => t \in q.open
    BY <2>1, OpenSent
  <2> HIDE DEF q
  <2>4. \A t \in Turns : ~Ends(a, t) /\ (t \in On(n) \/ Starts(a, t)) => t \in On(q)
    BY <1>1, <2>2, <2>3 DEF On
  <2>5. QED
    BY <2>2, <2>4 DEF q
<1>2. CASE ~n.active
  <2>1. q = [n EXCEPT !.pend = Append(@, a)]
    BY <1>2 DEF Performed
  <2> HIDE DEF q
  <2>2. q.active = n.active /\ q.link = n.link
    BY <2>1 DEF Streams
  <2>3. On(q) = Turns
    BY <1>2, <2>2 DEF On
  <2>4. QED
    BY <2>2, <2>3 DEF q
<1>3. QED
  BY <1>1, <1>2

(* A turn that the acts do not end stays on, and one that they start is.   *)
LEMMA StaysOn ==
    ASSUME NEW n \in Streams, NEW acts \in Seq(Acts), NEW t \in Turns,
           t \in On(n) \/ \E i \in 1 .. Len(acts) : Starts(acts[i], t),
           \A i \in 1 .. Len(acts) : ~Ends(acts[i], t)
    PROVE  t \in On(PerformAll(n, acts))
<1>1. Len(acts) \in Nat /\ \A i \in 1 .. Len(acts) : acts[i] \in Acts
  BY LenProperties, ElementOfSeq
<1> DEFINE Good(i, x) == \/ t \in On(x)
                         \/ \E j \in 1 .. Len(acts) : j > i /\ Starts(acts[j], t)
           good == [i \in 0 .. Len(acts) |-> {x \in Streams : Good(i, x)}]
<1>2. \A i \in 0 .. Len(acts) : good[i] = {x \in Streams : Good(i, x)}
  OBVIOUS
<1>3. ASSUME NEW i \in 1 .. Len(acts), NEW x \in Streams, Good(i - 1, x)
      PROVE  Good(i, Performed(x, acts[i]))
  <2> DEFINE a == acts[i]
  <2>1. a \in Acts /\ ~Ends(a, t)
    BY <1>1
  <2>2. \A j \in 1 .. Len(acts) : j > i - 1 => j = i \/ j > i
    BY <1>1
  <2>3. t \in On(x) \/ Starts(a, t) \/ \E j \in 1 .. Len(acts) : j > i /\ Starts(acts[j], t)
    BY <1>3, <2>2
  <2> HIDE DEF a
  <2>4. t \in On(x) \/ Starts(a, t) => t \in On(Performed(x, a))
    BY <2>1, OnPerformed
  <2>5. QED
    BY <2>3, <2>4 DEF a
<1>4. 0 \in 0 .. Len(acts) /\ Len(acts) \in 0 .. Len(acts)
      /\ \A i \in 1 .. Len(acts) : i \in 0 .. Len(acts) /\ i - 1 \in 0 .. Len(acts) /\ i > 0
  BY <1>1
<1>5. Good(0, n)
  BY <1>4
<1>6. PICK z : z = PerformAll(n, acts)
  OBVIOUS
<1>7. \A j \in 1 .. Len(acts) : ~(j > Len(acts))
  BY <1>1
<1> HIDE DEF Good, good
<1>8. n \in good[0]
  BY <1>2, <1>4, <1>5
<1>9. \A i \in 1 .. Len(acts) : \A x \in good[i - 1] : Performed(x, acts[i]) \in good[i]
  <2>1. TAKE i \in 1 .. Len(acts)
  <2>2. TAKE x \in good[i - 1]
  <2>3. x \in Streams /\ Good(i - 1, x)
    BY <1>2, <1>4
  <2>4. Performed(x, acts[i]) \in Streams
    BY <1>1, <2>3, PerformedTyped
  <2>5. QED
    BY <1>2, <1>3, <1>4, <2>3, <2>4
<1>10. z \in good[Len(acts)]
  BY <1>1, <1>6, <1>8, <1>9, PerformsThrough
<1>11. Good(Len(acts), z)
  BY <1>2, <1>4, <1>10
<1>12. QED
  BY <1>6, <1>7, <1>11 DEF Good

LEMMA ReceiptsStayOn ==
    ASSUME NEW n \in Streams, NEW s \in Seq(Receipts)
    PROVE  /\ On(n) \subseteq On(PerformAll(n, AcceptEach(s)))
           /\ \A d \in Outcomes \cup {"deferred"} :
                  On(n) \subseteq On(PerformAll(n, SettleEach(s, d)))
           /\ \A c \in {"ready", "degraded"} :
                  On(n) \subseteq On(PerformAll(n, <<Condition(c)>>))
<1>1. On(n) \subseteq Turns
  BY DEF On, Streams
<1>2. ASSUME NEW acts \in Seq(Acts), \A i \in 1 .. Len(acts) : acts[i].do # "turn"
      PROVE  On(n) \subseteq On(PerformAll(n, acts))
  <2>1. \A i \in 1 .. Len(acts) : \A t : ~Ends(acts[i], t)
    BY <1>2 DEF Ends
  <2>2. QED
    BY <1>1, <2>1, StaysOn
<1>3. DOMAIN s = 1 .. Len(s) /\ Len(s) \in Nat
  BY ElementsOf
<1>4. On(n) \subseteq On(PerformAll(n, AcceptEach(s)))
  <2>1. PICK x : x = AcceptEach(s)
    OBVIOUS
  <2>2. Len(x) = Len(s) /\ \A i \in 1 .. Len(s) : x[i].do # "turn"
    BY <1>3, <2>1 DEF AcceptEach, AcceptOf
  <2>3. x \in Seq(Acts)
    BY <2>1, ActsTyped
  <2>4. QED
    BY <1>2, <2>1, <2>2, <2>3
<1>5. ASSUME NEW d \in Outcomes \cup {"deferred"}
      PROVE  On(n) \subseteq On(PerformAll(n, SettleEach(s, d)))
  <2>1. PICK x : x = SettleEach(s, d)
    OBVIOUS
  <2>2. Len(x) = Len(s) /\ \A i \in 1 .. Len(s) : x[i].do # "turn"
    BY <1>3, <2>1 DEF SettleEach, SettleOf
  <2>3. x \in Seq(Acts)
    BY <2>1, ActsTyped
  <2>4. QED
    BY <1>2, <2>1, <2>2, <2>3
<1>6. ASSUME NEW c \in {"ready", "degraded"}
      PROVE  On(n) \subseteq On(PerformAll(n, <<Condition(c)>>))
  <2>1. PICK x : x = <<Condition(c)>>
    OBVIOUS
  <2>2. \A i \in 1 .. Len(x) : x[i].do # "turn"
    BY <2>1 DEF Condition
  <2>3. x \in Seq(Acts)
    BY <2>1, ActsTyped
  <2>4. QED
    BY <1>2, <2>1, <2>2, <2>3
<1>7. QED
  BY <1>4, <1>5, <1>6

KeptBy(p) == Kept(p.seat, cut, On(p.net), p.late \cup lost)
LeasedPlan(p) == LeasedNet(p.net, KeptBy(p))

LEMMA KeptGrows ==
    ASSUME NEW p, NEW q, p.late \subseteq q.late, On(p.net) \subseteq On(q.net),
           \A t \in On(p.net) : ToSet(p.seat.held[t]) \subseteq ToSet(q.seat.held[t])
    PROVE  KeptBy(p) \subseteq KeptBy(q)
BY DEF KeptBy, Kept

(* Acts that let nothing go.                                               *)
LEMMA LeasedDoes ==
    ASSUME NEW n \in Streams, NEW kept, NEW more, LeasedNet(n, kept), kept \subseteq more,
           NEW acts \in Seq(Acts), LeasesEnd(acts, more)
    PROVE  LeasedNet(PerformAll(n, acts), more)
BY LeasedAll

LEMMA LeasedDrains ==
    ASSUME NEW s \in Seats, NEW n \in Streams, NEW s2, NEW n2, NEW kept,
           LeasedNet(n, kept), Drains(s, n, s2, n2)
    PROVE  LeasedNet(n2, kept) /\ On(n) \subseteq On(n2)
<1> DEFINE acts == SettleEach(s.buffer, "deferred")
<1>1. s.buffer \in Seq(Receipts)
  BY DEF Seats
<1>2. acts \in Seq(Acts) /\ LeasesEnd(acts, kept) /\ On(n) \subseteq On(PerformAll(n, acts))
  BY <1>1, ActsTyped, LeasesOf, ReceiptsStayOn
<1>3. n2 = n \/ n2 = PerformAll(n, acts)
  BY DEF Drains
<1> HIDE DEF acts
<1>4. QED
  BY <1>2, <1>3, LeasedDoes

LEMMA LeasedFlushed ==
    ASSUME NEW p \in Plans, LeasedPlan(p) PROVE LeasedPlan(Flushed(p))
<1> DEFINE q == Flushed(p)
<1>1. p.seat \in Seats /\ p.net \in Streams
  BY DEF Plans
<1>2. /\ SameTurns(p.seat, q.seat) /\ SameLate(p, q)
      /\ q.net = p.net \/ Drains(p.seat, p.net, q.seat, q.net)
  BY FlushedIs
<1> HIDE DEF q
<1>3. LeasedNet(q.net, KeptBy(p)) /\ On(p.net) \subseteq On(q.net)
  BY <1>1, <1>2, LeasedDrains DEF LeasedPlan
<1>4. KeptBy(p) \subseteq KeptBy(q)
  BY <1>2, <1>3, KeptGrows DEF SameTurns, SameLate
<1>5. LeasedPlan(q)
  BY <1>3, <1>4, LeasedMore DEF LeasedPlan
<1>6. QED
  BY <1>5 DEF q

LEMMA LeasedFinished ==
    ASSUME NEW p \in Plans, LeasedPlan(p) PROVE LeasedPlan(Finished(p))
<1> DEFINE q == Finished(p)
           s == [p.seat EXCEPT !.flight = NoFlight]
<1>1. p.seat \in Seats /\ p.net \in Streams
  BY DEF Plans
<1>2. /\ SameTurns(p.seat, q.seat) /\ SameLate(p, q)
      /\ q.net = p.net \/ Drains(s, p.net, q.seat, q.net)
  BY FinishedIs
<1>3. s \in Seats
  BY <1>1, NewTyped DEF Seats
<1> HIDE DEF q, s
<1>4. LeasedNet(q.net, KeptBy(p)) /\ On(p.net) \subseteq On(q.net)
  BY <1>1, <1>2, <1>3, LeasedDrains DEF LeasedPlan
<1>5. KeptBy(p) \subseteq KeptBy(q)
  BY <1>2, <1>4, KeptGrows DEF SameTurns, SameLate
<1>6. LeasedPlan(q)
  BY <1>4, <1>5, LeasedMore DEF LeasedPlan
<1>7. QED
  BY <1>6 DEF q

LEMMA LeasedAnswered ==
    ASSUME NEW p \in Plans, LeasedPlan(p), p.seat.flight.at = "answered"
    PROVE  LeasedPlan(Answered(p))
<1> DEFINE f == p.seat.flight
<1>1. /\ p.seat \in Seats /\ p.net \in Streams /\ f.events \in Seq(Receipts)
      /\ p.seat.held \in [Turns -> Seq(Receipts)] /\ LeasedNet(p.net, KeptBy(p))
  BY DEF Plans, Seats, Flights, LeasedPlan
<1>2. CASE AsksAgain(p, Answered(p))
  <2> DEFINE q == Answered(p)
  <2>1. q.net = p.net /\ SameTurns(p.seat, q.seat) /\ SameLate(p, q)
    BY <1>2 DEF AsksAgain
  <2> HIDE DEF q
  <2>2. KeptBy(p) \subseteq KeptBy(q)
    BY <2>1, KeptGrows DEF SameTurns, SameLate
  <2>3. LeasedPlan(q)
    BY <1>1, <2>1, <2>2, LeasedMore DEF LeasedPlan
  <2>4. QED
    BY <2>3 DEF q
<1>3. ASSUME NEW e \in Plans, Answered(p) = Finished(e), JoinsTurn(p, e)
      PROVE  LeasedPlan(Answered(p))
  <2> DEFINE h == p.seat.held[f.turn] \o f.events
             acts == AcceptEach(f.events)
  <2>1. /\ e.seat.held = [p.seat.held EXCEPT ![f.turn] = h]
        /\ f.turn \in Turns /\ e.net = PerformAll(p.net, acts) /\ p.late \subseteq e.late
        /\ \/ p.net.link = "up" => f.turn \in p.net.open
           \/ ToSet(f.events) \subseteq e.late
    <3>1. e.seat = [p.seat EXCEPT !.held = [p.seat.held EXCEPT ![f.turn] = h]]
          /\ f.turn \in Turns /\ e.net = PerformAll(p.net, acts)
      BY <1>1, <1>3 DEF JoinsTurn
    <3>2. e.seat.held = [p.seat.held EXCEPT ![f.turn] = h]
      BY <1>1, <3>1 DEF Seats
    <3>3. \/ e.late = p.late /\ (p.net.link = "up" => f.turn \in p.net.open)
          \/ e.late = p.late \cup ToSet(f.events)
      BY <1>3 DEF JoinsTurn
    <3>4. p.late \subseteq e.late
      BY <3>3
    <3>5. \/ p.net.link = "up" => f.turn \in p.net.open
          \/ ToSet(f.events) \subseteq e.late
      BY <3>3
    <3>6. QED
      BY <3>1, <3>2, <3>4, <3>5
  <2>2. ToSet(h) = ToSet(p.seat.held[f.turn]) \cup ToSet(f.events)
    BY <1>1, <2>1, ElementsOf
  <2> HIDE DEF h
  <2>3. \A t \in Turns : e.seat.held[t] = IF t = f.turn THEN h ELSE p.seat.held[t]
    BY <1>1, <2>1
  <2>4. On(p.net) \subseteq On(e.net) /\ On(p.net) \subseteq Turns
    <3>1. On(p.net) \subseteq Turns
      BY <1>1 DEF On, Streams
    <3>2. On(p.net) \subseteq On(PerformAll(p.net, acts))
      BY <1>1, ReceiptsStayOn
    <3>3. QED
      BY <2>1, <3>1, <3>2
  <2>5. KeptBy(p) \subseteq KeptBy(e)
    <3>1. \A t \in On(p.net) : ToSet(p.seat.held[t]) \subseteq ToSet(e.seat.held[t])
      BY <2>2, <2>3, <2>4
    <3>2. QED
      BY <2>1, <2>4, <3>1, KeptGrows
  <2>6. ASSUME NEW r \in ToSet(f.events) PROVE r[1] \in KeptBy(e)
    <3>1. r[1] \in Msgs
      BY <1>1, ElementsOf, ReceiptOf
    <3>2. CASE r \in e.late
      BY <3>1, <3>2 DEF KeptBy, Kept
    <3>3. CASE p.net.link = "up" => f.turn \in p.net.open
      <4>1. f.turn \in On(e.net)
        BY <2>1, <2>4, <3>3 DEF On
      <4>2. r \in ToSet(e.seat.held[f.turn]) \cup cut[f.turn]
        BY <2>1, <2>2, <2>3
      <4>3. QED
        BY <3>1, <4>1, <4>2 DEF KeptBy, Kept
    <3>4. QED
      BY <2>1, <3>2, <3>3
  <2>7. acts \in Seq(Acts) /\ LeasesEnd(acts, KeptBy(e))
    BY <1>1, <2>6, ActsTyped, LeasesOf
  <2> HIDE DEF acts
  <2>8. LeasedPlan(e)
    BY <1>1, <2>1, <2>5, <2>7, LeasedDoes DEF LeasedPlan
  <2>9. QED
    BY <1>3, <2>8, LeasedFinished
<1>4. ASSUME NEW e \in Plans, Answered(p) = Finished(e), AwaitsTurn(p, e)
      PROVE  LeasedPlan(Answered(p))
  <2>1. e.seat.held = p.seat.held /\ e.net = p.net /\ p.late \subseteq e.late
    BY <1>1, <1>4 DEF AwaitsTurn, Seats
  <2>2. KeptBy(p) \subseteq KeptBy(e)
    BY <2>1, KeptGrows
  <2>3. LeasedPlan(e)
    BY <1>1, <2>1, <2>2, LeasedMore DEF LeasedPlan
  <2>4. QED
    BY <1>4, <2>3, LeasedFinished
<1>5. ASSUME NEW e \in Plans, Answered(p) = Finished(e), GivesUp(p, e)
      PROVE  LeasedPlan(Answered(p))
  <2> DEFINE acts == SettleEach(f.events, "deferred")
  <2>1. /\ e.seat.held = p.seat.held /\ e.net \in {p.net, PerformAll(p.net, acts)}
        /\ p.late \subseteq e.late
    BY <1>1, <1>5 DEF GivesUp, Seats
  <2>2. On(p.net) \subseteq On(e.net)
    BY <1>1, <2>1, ReceiptsStayOn
  <2>3. KeptBy(p) \subseteq KeptBy(e)
    BY <2>1, <2>2, KeptGrows
  <2>4. acts \in Seq(Acts) /\ LeasesEnd(acts, KeptBy(e))
    BY <1>1, ActsTyped, LeasesOf
  <2> HIDE DEF acts
  <2>5. LeasedPlan(e)
    BY <1>1, <2>1, <2>3, <2>4, LeasedMore, LeasedDoes DEF LeasedPlan
  <2>6. QED
    BY <1>5, <2>5, LeasedFinished
<1>6. QED
  BY <1>2, <1>3, <1>4, <1>5, AnsweredIs

LEMMA LeasedHandled ==
    ASSUME NEW p \in Plans, LeasedPlan(p), NEW l \in Lines,
           l.is = "started" => p.seat.held[l.turn] = <<>>,
           l.is = "completed" => cut[l.turn] = {}
    PROVE  LeasedPlan(Handled(p, l))
<1> DEFINE kept == KeptBy(p)
<1>1. /\ p.seat \in Seats /\ p.net \in Streams /\ LeasedNet(p.net, kept)
      /\ p.seat.held \in [Turns -> Seq(Receipts)]
      /\ p.seat.awaiting \in [Turns -> Seq(Receipts)]
      /\ On(p.net) \subseteq Turns
  BY DEF Plans, Streams, On, Seats, LeasedPlan
<1>2. <<>> \in Seq(Receipts) /\ ToSet(<<>>) = {}
  <2>1. <<>> \in Seq(Receipts)
    OBVIOUS
  <2>2. QED
    BY <2>1, ElementsOf
<1>3. CASE l.is = "started"
  <2>1. l.turn \in Turns /\ Handled(p, l) = OnStarted(p, l.turn)
    BY <1>3, HandledIs
  <2> DEFINE t == l.turn
             q == OnStarted(p, t)
             acts == StartedActs(p.seat, t)
             s == p.seat.awaiting[t]
             more == KeptBy(q)
  <2>2. /\ SameLate(p, q) /\ q.net = PerformAll(p.net, acts) /\ acts \in Seq(Acts)
        /\ q.seat.held = IF s = <<>> THEN p.seat.held ELSE [p.seat.held EXCEPT ![t] = s]
    <3>1. t \in Turns
      BY <2>1
    <3> HIDE DEF t
    <3>2. QED
      BY <3>1, OnStartedIs
  <2>3. t \in Turns /\ s \in Seq(Receipts) /\ p.seat.held[t] = <<>>
    BY <1>1, <1>3, <2>1
  <2> HIDE DEF q, acts, s, t
  <2>4. \A u \in Turns : ToSet(p.seat.held[u]) \subseteq ToSet(q.seat.held[u])
    BY <1>1, <1>2, <2>2, <2>3
  <2>5. ToSet(s) \subseteq ToSet(q.seat.held[t])
    BY <1>1, <1>2, <2>2, <2>3
  <2>11. /\ Len(acts) \in Nat /\ Starts(acts[2], t) /\ 2 \in 1 .. Len(acts)
         /\ \A k \in 1 .. Len(acts) : \A u : ~Ends(acts[k], u)
    <3> DEFINE a == <<Condition("ready"), Turn(t, "started")>>
               b == AcceptEach(s)
    <3>1. a \in Seq(Acts) /\ b \in Seq(Acts)
      BY <2>3, ActsTyped
    <3>2. /\ Len(a) = 2 /\ Starts(a[2], t) /\ a[1].do # "turn" /\ ~(\E u : Ends(a[2], u))
      BY DEF Condition, Turn, Starts, Ends
    <3>3. \A k \in 1 .. Len(b) : b[k].do # "turn"
      <4>1. PICK x : x = AcceptEach(s)
        OBVIOUS
      <4>2. DOMAIN s = 1 .. Len(s) /\ Len(s) \in Nat
        BY <2>3, ElementsOf
      <4>3. Len(x) = Len(s) /\ \A k \in 1 .. Len(s) : x[k].do # "turn"
        BY <4>1, <4>2 DEF AcceptEach, AcceptOf
      <4>4. QED
        BY <4>1, <4>3
    <3>4. acts = a \o b
      BY DEF StartedActs, acts, s, t
    <3> HIDE DEF a, b
    <3>5. /\ Len(a) \in Nat /\ Len(b) \in Nat /\ Len(acts) = Len(a) + Len(b)
          /\ \A k \in 1 .. Len(a) + Len(b) :
                 acts[k] = IF k <= Len(a) THEN a[k] ELSE b[k - Len(a)]
      BY <3>1, <3>4, ConcatProperties, LenProperties
    <3>6. acts[1] = a[1] /\ acts[2] = a[2] /\ 2 \in 1 .. Len(acts)
      BY <3>2, <3>5
    <3>7. \A k \in 1 .. Len(acts) : k = 1 \/ k = 2 \/ acts[k].do # "turn"
      BY <3>2, <3>3, <3>5
    <3>8. QED
      BY <3>2, <3>5, <3>6, <3>7 DEF Ends
  <2>12. t \in On(q.net) /\ On(p.net) \subseteq On(q.net)
    BY <1>1, <2>2, <2>3, <2>11, StaysOn
  <2>6. kept \subseteq more
    BY <1>1, <2>2, <2>4, <2>12, KeptGrows DEF SameLate
  <2>7. ASSUME NEW r \in ToSet(s) PROVE r[1] \in more
    <3>1. r \in Receipts
      BY <2>3, ElementsOf
    <3>2. r[1] \in Msgs /\ r \in ToSet(q.seat.held[t]) \cup cut[t]
      BY <2>5, <3>1, ReceiptOf
    <3>3. QED
      BY <2>12, <3>2 DEF KeptBy, Kept
  <2> HIDE DEF kept, more
  <2>8. LeasesEnd(acts, more)
    <3> DEFINE a == <<Condition("ready"), Turn(t, "started")>>
               b == AcceptEach(s)
    <3>1. a \in Seq(Acts) /\ b \in Seq(Acts)
      BY <2>3, ActsTyped
    <3>2. LeasesEnd(a, more) /\ LeasesEnd(b, more)
      BY <2>3, <2>7, LeasesOf
    <3>3. acts = a \o b
      BY DEF StartedActs, acts, s, t
    <3> HIDE DEF a, b
    <3>4. QED
      BY <3>1, <3>2, <3>3, LeasesOf
  <2>9. LeasedNet(q.net, more)
    BY <1>1, <2>2, <2>6, <2>8, LeasedDoes
  <2>10. QED
    BY <2>1, <2>9 DEF LeasedPlan, more, q, t
<1>4. ASSUME NEW q, NEW t \in Turns, SameLate(p, q),
             q.seat.held = [p.seat.held EXCEPT ![t] = <<>>],
             NEW acts \in Seq(Acts), q.net = PerformAll(p.net, acts),
             \A x : LeasesEnd(acts, x),
             \A m : (\E r \in ToSet(p.seat.held[t]) : r[1] = m)
                    => \E j \in 1 .. Len(acts) : Settles(acts[j], m),
             \A u \in On(p.net) : u \in On(q.net) \/ (u = t /\ cut[t] = {})
      PROVE  LeasedPlan(q)
  <2> DEFINE left == KeptBy(q)
  <2>1. \A u \in Turns : u # t => q.seat.held[u] = p.seat.held[u]
    BY <1>1, <1>4
  <2>2. ASSUME NEW m \in kept
        PROVE  m \in left \/ \E r \in ToSet(p.seat.held[t]) : r[1] = m
    <3>1. CASE \E r \in p.late \cup lost : r[1] = m
      BY <1>4, <2>2, <3>1 DEF KeptBy, Kept, SameLate
    <3>2. ASSUME NEW u \in On(p.net), NEW r \in ToSet(p.seat.held[u]) \cup cut[u], r[1] = m,
                 ~\E x \in ToSet(p.seat.held[t]) : x[1] = m
          PROVE  m \in left
      <4>1. m \in Msgs /\ u \in Turns
        BY <1>1, <2>2 DEF KeptBy, Kept
      <4>2. u \in On(q.net)
        BY <1>4, <3>2
      <4>3. r \in ToSet(q.seat.held[u]) \cup cut[u]
        BY <2>1, <3>2, <4>1
      <4>4. QED
        BY <3>2, <4>1, <4>2, <4>3 DEF KeptBy, Kept
    <3>3. QED
      BY <2>2, <3>1, <3>2 DEF KeptBy, Kept
  <2> HIDE DEF kept, left
  <2>3. \A m \in kept : m \in left \/ \E j \in 1 .. Len(acts) : Settles(acts[j], m)
    BY <1>4, <2>2
  <2>4. LeasedNet(q.net, left)
    <3>1. LeasesEnd(acts, left)
      BY <1>4
    <3>2. LeasedNet(PerformAll(p.net, acts), left)
      BY <1>1, <2>3, <3>1, LeasedAll
    <3>3. QED
      BY <1>4, <3>2
  <2>5. QED
    BY <2>4 DEF LeasedPlan, left
<1>5. CASE l.is = "completed"
  <2>1. l.turn \in Turns /\ Handled(p, l) = OnCompleted(p, l.turn, l.says)
    BY <1>5, HandledIs
  <2> DEFINE t == l.turn
             q == OnCompleted(p, t, l.says)
             phase == IF l.says = "failed" THEN "failed" ELSE "completed"
             d == IF l.says = "failed" THEN "deferred" ELSE "handled"
             a == <<Turn(t, phase)>>
             b == SettleEach(p.seat.held[t], d)
             acts == CompletedActs(p.seat, t, l.says)
  <2>2. /\ SameLate(p, q) /\ q.seat.held = [p.seat.held EXCEPT ![t] = <<>>]
        /\ q.net = PerformAll(p.net, acts) /\ acts \in Seq(Acts)
    BY <2>1, OnCompletedIs
  <2>3. acts = a \o b
    BY DEF CompletedActs
  <2>4. /\ phase \in {"failed", "completed"} /\ d \in Outcomes \cup {"deferred"}
        /\ t \in Turns /\ p.seat.held[t] \in Seq(Receipts)
    BY <1>1, <2>1 DEF Outcomes
  <2> HIDE DEF phase, d, acts
  <2>5. a \in Seq(Acts) /\ b \in Seq(Acts)
    BY <2>4, ActsTyped
  <2>6. \A x : LeasesEnd(a, x) /\ LeasesEnd(b, x)
    BY <2>4, LeasesOf
  <2>7. \A m : (\E r \in ToSet(p.seat.held[t]) : r[1] = m)
               => \E j \in 1 .. Len(acts) : Settles(acts[j], m)
    BY <2>3, <2>4, <2>5, SettledBy
  <2>11. \A u \in On(p.net) : u \in On(q.net) \/ (u = t /\ cut[t] = {})
    <3>1. Len(a) = 1 /\ \A u : u # t => ~Ends(a[1], u)
      BY DEF Ends, Turn
    <3>2. \A k \in 1 .. Len(b) : b[k].do # "turn"
      <4>1. PICK x : x = b
        OBVIOUS
      <4>2. /\ DOMAIN p.seat.held[t] = 1 .. Len(p.seat.held[t])
            /\ Len(p.seat.held[t]) \in Nat
        BY <2>4, ElementsOf
      <4>3. Len(x) = Len(p.seat.held[t])
            /\ \A k \in 1 .. Len(p.seat.held[t]) : x[k].do # "turn"
        BY <4>1, <4>2 DEF SettleEach, SettleOf
      <4>4. QED
        BY <4>1, <4>3
    <3> HIDE DEF a, b, q
    <3>3. /\ Len(a) \in Nat /\ Len(b) \in Nat /\ Len(acts) = Len(a) + Len(b)
          /\ \A k \in 1 .. Len(a) + Len(b) :
                 acts[k] = IF k <= Len(a) THEN a[k] ELSE b[k - Len(a)]
      BY <2>3, <2>5, ConcatProperties, LenProperties
    <3>4. \A k \in 1 .. Len(acts) : acts[k] = a[1] \/ acts[k].do # "turn"
      BY <3>1, <3>2, <3>3
    <3>5. \A u : u # t => \A k \in 1 .. Len(acts) : ~Ends(acts[k], u)
      BY <3>1, <3>4 DEF Ends
    <3>6. \A u \in On(p.net) : u # t => u \in On(q.net)
      BY <1>1, <2>2, <3>5, StaysOn
    <3>7. cut[t] = {}
      BY <1>5
    <3>8. QED
      BY <3>6, <3>7
  <2> HIDE DEF a, b, q
  <2>8. \A x : LeasesEnd(acts, x)
    BY <2>3, <2>5, <2>6, LeasesOf
  <2>9. LeasedPlan(q)
    BY <1>4, <2>2, <2>4, <2>7, <2>8, <2>11
  <2>10. QED
    BY <2>1, <2>9 DEF q
<1>6. CASE l.is = "acted"
  <2>1. l.turn \in Turns /\ Handled(p, l) = OnActed(p, l.turn)
    BY <1>6, HandledIs
  <2> DEFINE t == l.turn
             q == OnActed(p, t)
             acts == SettleEach(p.seat.held[t], "acted")
  <2>2. /\ SameLate(p, q) /\ q.seat.held = [p.seat.held EXCEPT ![t] = <<>>]
        /\ q.net = PerformAll(p.net, acts) /\ acts \in Seq(Acts)
    BY <2>1, OnActedIs
  <2>3. /\ "acted" \in Outcomes \cup {"deferred"} /\ <<>> \in Seq(Acts)
        /\ t \in Turns /\ p.seat.held[t] \in Seq(Receipts)
    BY <1>1, <2>1 DEF Outcomes
  <2>4. \A x : LeasesEnd(acts, x)
    BY <2>3, LeasesOf
  <2>5. \A m : (\E r \in ToSet(p.seat.held[t]) : r[1] = m)
               => \E j \in 1 .. Len(acts) : Settles(acts[j], m)
    BY <2>3, SettledBy
  <2>8. On(p.net) \subseteq On(q.net)
    BY <1>1, <2>2, <2>3, ReceiptsStayOn
  <2> HIDE DEF acts, q
  <2>6. LeasedPlan(q)
    BY <1>4, <2>2, <2>3, <2>4, <2>5, <2>8
  <2>7. QED
    BY <2>1, <2>6 DEF q
<1>7. ASSUME NEW e, e.seat.held = p.seat.held, SameLate(p, e),
             e.net = p.net \/ e.net = PerformAll(p.net, <<Condition("degraded")>>)
      PROVE  LeasedPlan(e)
  <2> DEFINE acts == <<Condition("degraded")>>
  <2>1. acts \in Seq(Acts) /\ \A x : LeasesEnd(acts, x)
    <3>1. acts \in Seq(Acts)
      BY ActsTyped
    <3>2. \A x : LeasesEnd(acts, x)
      BY LeasesOf
    <3>3. QED
      BY <3>1, <3>2
  <2>2. e.net = p.net \/ e.net = PerformAll(p.net, acts)
    BY <1>7
  <2>3. KeptBy(p) \subseteq KeptBy(e)
    <3>1. <<>> \in Seq(Receipts)
      BY <1>2
    <3>2. On(p.net) \subseteq On(e.net)
      BY <1>1, <2>2, <3>1, ReceiptsStayOn
    <3>3. QED
      BY <1>7, <3>2, KeptGrows DEF SameLate
  <2> HIDE DEF acts
  <2>4. LeasedNet(e.net, KeptBy(p))
    BY <1>1, <2>1, <2>2, LeasedDoes
  <2>5. QED
    BY <2>3, <2>4, LeasedMore DEF LeasedPlan
<1>8. CASE l.is = "status"
  <2>1. l.says \in Statuses \ {"notLoaded"} /\ Handled(p, l) = OnStatus(p, l.says)
    BY <1>8, HandledIs
  <2>2. PICK e \in Plans :
            /\ OnStatus(p, l.says) = Flushed(e)
            /\ e.seat = [p.seat EXCEPT !.status = l.says] /\ SameLate(p, e)
            /\ e.net = p.net \/ e.net = PerformAll(p.net, <<Condition("degraded")>>)
    BY <2>1, OnStatusIs
  <2>3. e.seat.held = p.seat.held
    BY <1>1, <2>2 DEF Seats
  <2>4. LeasedPlan(e)
    BY <1>7, <2>2, <2>3
  <2>5. QED
    BY <2>1, <2>2, <2>4, LeasedFlushed
<1>9. CASE l.is = "reply"
  <2>1. Handled(p, l) = OnReply(p, l)
    BY <1>9, HandledIs
  <2> DEFINE q == OnReply(p, l)
  <2>2. SameTurns(p.seat, q.seat) /\ SameLate(p, q) /\ q.net = p.net
    BY OnReplyIs
  <2> HIDE DEF q
  <2>3. LeasedPlan(q)
    BY <1>7, <2>2 DEF SameTurns
  <2>4. QED
    BY <2>1, <2>3 DEF q
<1>10. CASE l.is = "error"
  <2> DEFINE q == Doing(p, <<Condition("degraded")>>)
  <2>1. /\ q.seat = p.seat /\ SameLate(p, q)
        /\ q.net = PerformAll(p.net, <<Condition("degraded")>>)
    BY DegradedIs
  <2>2. Handled(p, l) = q
    BY <1>10, HandledIs
  <2> HIDE DEF q
  <2>3. QED
    BY <1>7, <2>1, <2>2
<1>11. CASE l.is = "interrupted"
  BY <1>11, HandledIs
<1>12. QED
  BY <1>3, <1>5, <1>6, <1>8, <1>9, <1>10, <1>11, HandledIs

(* One act that is no acceptance.                                          *)
LEMMA LeasedTells ==
    ASSUME NEW n \in Streams, NEW kept, LeasedNet(n, kept)
    PROVE  LeasedNet(Performed(n, Condition("ready")), kept)
<1> DEFINE a == Condition("ready")
           q == [n EXCEPT !.pend = Append(@, a)]
<1>1. a \in Acts /\ a.do = "condition"
  BY ActsTyped DEF Condition
<1> HIDE DEF a
<1>2. CASE n.active
  <2>1. LeasedNet(Sent(n, a), kept)
    <3>1. /\ SendsLeases(n, Sent(n, a))
          /\ \A m \in Msgs : Sent(n, a).row[m] = "accepted" => n.row[m] = "accepted"
      BY <1>1, LeasesSent
    <3>2. QED
      BY <3>1 DEF LeasedNet, SendsLeases
  <2>2. QED
    BY <1>2, <2>1 DEF Performed, a
<1>3. CASE ~n.active
  <2> DEFINE s == Append(n.pend, a)
  <2>1. n.pend \in Seq(Acts) /\ Len(n.pend) \in Nat
    BY LenProperties DEF Streams
  <2>2. /\ Len(s) = Len(n.pend) + 1 /\ s[Len(n.pend) + 1] = a
        /\ \A i \in 1 .. Len(n.pend) : s[i] = n.pend[i]
    BY <1>1, <2>1, AppendProperties
  <2>3. /\ q.pend = s /\ q.active = n.active /\ q.link = n.link /\ q.row = n.row
    BY DEF Streams
  <2> HIDE DEF s, q
  <2>4. LeasesEnd(s, kept)
    <3>1. ASSUME NEW i \in 1 .. Len(s), s[i].do = "accept", s[i].of[1] \notin kept
          PROVE  \E j \in 1 .. Len(s) : j > i /\ Settles(s[j], s[i].of[1])
      <4>1. i \in 1 .. Len(n.pend) \/ i = Len(n.pend) + 1
        BY <2>1, <2>2
      <4>2. i \in 1 .. Len(n.pend)
        BY <1>1, <2>2, <3>1, <4>1
      <4>3. PICK j \in 1 .. Len(n.pend) : j > i /\ Settles(n.pend[j], n.pend[i].of[1])
        BY <2>2, <3>1, <4>2 DEF LeasedNet, LeasesEnd
      <4>4. j \in 1 .. Len(s) /\ s[j] = n.pend[j] /\ s[i] = n.pend[i]
        BY <2>1, <2>2, <4>2
      <4>5. QED
        BY <4>3, <4>4
    <3>2. QED
      BY <3>1 DEF LeasesEnd
  <2>5. LeasedNet(q, kept)
    BY <1>3, <2>3, <2>4 DEF LeasedNet
  <2>6. QED
    BY <1>3, <2>5 DEF Performed, q, a
<1>4. QED
  BY <1>2, <1>3

LEMMA LeasedLinks ==
    ASSUME Typed, NEW kept, LeasedNet(stream, kept),
           Push \/ Lose \/ EndStream \/ Connect(Introduction)
             \/ \E t \in Turns : Backstop(t)
    PROVE  LeasedNet(stream', kept)
<1>1. stream \in Streams
  BY DEF Typed
<1>2. CASE Push
  <2>1. /\ stream'.pend = stream.pend /\ stream'.active = stream.active
        /\ stream'.link = stream.link
        /\ \A m \in Msgs : stream'.row[m] = stream.row[m] \/ stream'.row[m] # "accepted"
    BY <1>1, <1>2 DEF Push, Streams
  <2>2. QED
    BY <2>1, LeasedSame
<1>3. CASE Lose
  <2> DEFINE n == Released(stream)
  <2>1. n \in Streams /\ LeasedNet(n, kept)
    BY <1>1, ReleasedTyped, LeasesHeard, LeasedSame DEF NoNewLease, SendsLeases
  <2>2. \A m \in Msgs : n.row[m] # "accepted"
    BY <1>1 DEF Released, Streams
  <2>3. PICK k : stream' = [n EXCEPT !.link = "lost", !.cond = "none", !.open = {},
                                     !.down = SubSeq(@, 1, k)]
    BY <1>3 DEF Lose
  <2> HIDE DEF n
  <2>4. /\ stream'.row = n.row /\ stream'.pend = n.pend /\ stream'.link = "lost"
        /\ stream'.active = n.active
    BY <2>1, <2>3 DEF Streams
  <2>5. QED
    BY <2>1, <2>2, <2>4 DEF LeasedNet
<1>4. CASE EndStream
  <2>1. /\ stream'.row = stream.row /\ stream'.pend = stream.pend
        /\ stream'.link = "none" /\ stream'.active = FALSE /\ stream.link = "lost"
    BY <1>1, <1>4 DEF EndStream, Streams
  <2>2. QED
    BY <2>1 DEF LeasedNet
<1>5. CASE Connect(Introduction)
  <2>1. PICK link \in {"up", "lost"} :
            stream' = Opened([stream EXCEPT !.active = TRUE, !.gen = @ + 1,
                                            !.link = link], Introduction)
    BY <1>5 DEF Connect
  <2> DEFINE g == stream.gen + 1
             n == [stream EXCEPT !.active = TRUE, !.gen = g, !.link = link]
             e == [n EXCEPT !.pend = <<>>]
             acts == Introduction
  <2>2. g \in 0 .. MaxConns
    BY <1>1, <1>5, StreamConstantsOK DEF Connect, Streams
  <2>3. stream' = PerformAll(PerformAll(e, acts), n.pend)
    BY <2>1 DEF Opened
  <2> HIDE DEF g
  <2>4. n \in Streams /\ n.row = stream.row /\ n.pend = stream.pend /\ n.active = TRUE
    BY <1>1, <2>2 DEF Streams
  <2>5. acts \in Seq(Acts) /\ LeasesEnd(acts, kept)
    <3> DEFINE a == <<Condition("ready")>>
               b == IF seat.turn = NoTurn THEN <<>> ELSE <<Turn(seat.turn, "started")>>
    <3>1. acts \in Seq(Acts)
      BY IntroductionTyped
    <3>2. a \in Seq(Acts) /\ LeasesEnd(a, kept) /\ LeasesEnd(<<>>, kept)
      <4>1. a \in Seq(Acts)
        BY ActsTyped
      <4>2. LeasesEnd(a, kept) /\ LeasesEnd(<<>>, kept)
        BY LeasesOf
      <4>3. QED
        BY <4>1, <4>2
    <3>3. b \in Seq(Acts) /\ LeasesEnd(b, kept)
      <4>1. CASE seat.turn = NoTurn
        BY <3>2, <4>1
      <4>2. CASE seat.turn # NoTurn
        <5>1. seat.turn \in Turns
          BY <4>2 DEF Typed, Seats
        <5>2. Turn(seat.turn, "started") \in Acts
          BY <5>1, ActsTyped
        <5>3. LeasesEnd(<<Turn(seat.turn, "started")>>, kept)
          BY LeasesOf
        <5>4. QED
          BY <4>2, <5>2, <5>3
      <4>3. QED
        BY <4>1, <4>2
    <3>4. acts = <<>> \/ acts = a \o b
      BY DEF Introduction
    <3> HIDE DEF a, b, acts
    <3>5. LeasesEnd(a \o b, kept)
      BY <3>2, <3>3, LeasesOf
    <3>6. QED
      BY <3>1, <3>2, <3>4, <3>5
  <2> HIDE DEF n, acts
  <2>6. e \in Streams /\ LeasedNet(e, kept)
    <3>1. <<>> \in Seq(Acts) /\ LeasesEnd(<<>>, kept)
      BY LeasesOf
    <3>2. /\ e \in Streams /\ e.row = stream.row /\ e.pend = <<>> /\ e.active = TRUE
      BY <2>4, <3>1 DEF Streams
    <3>3. \A m \in Msgs : stream.row[m] # "accepted"
      BY <1>5 DEF Connect, LeasedNet
    <3> HIDE DEF e
    <3>4. QED
      BY <3>1, <3>2, <3>3 DEF LeasedNet
  <2> HIDE DEF e
  <2>7. PerformAll(e, acts) \in Streams /\ LeasedNet(PerformAll(e, acts), kept)
    BY <2>5, <2>6, AllTyped, LeasedDoes
  <2>8. n.pend \in Seq(Acts) /\ LeasesEnd(n.pend, kept)
    BY <1>1, <2>4 DEF Streams, LeasedNet
  <2>9. QED
    BY <2>3, <2>7, <2>8, LeasedDoes
<1>6. CASE \E t \in Turns : Backstop(t)
  <2>1. PICK t \in Turns : Backstop(t)
    BY <1>6
  <2> DEFINE n == [stream EXCEPT !.open = @ \ {t}, !.cond = "degraded"]
  <2>2. /\ n \in Streams /\ n.row = stream.row /\ n.pend = stream.pend
        /\ n.active = stream.active /\ n.link = stream.link
    BY <1>1 DEF Streams
  <2>3. stream' = Released(n)
    BY <2>1 DEF Backstop
  <2> HIDE DEF n
  <2>4. LeasedNet(n, kept)
    BY <2>2, LeasedSame
  <2>5. QED
    BY <2>2, <2>3, <2>4, LeasesHeard, LeasedSame DEF NoNewLease, SendsLeases
<1>7. QED
  BY <1>2, <1>3, <1>4, <1>5, <1>6

LEMMA LeasedNow ==
    ASSUME NEW kept, LeasedNet(stream', kept),
           kept \subseteq Kept(seat', cut', On(stream'), late' \cup lost')
    PROVE  LeasedNet(stream, Kept(seat, cut, On(stream), late \cup lost))'
<1> DEFINE more == Kept(seat', cut', On(stream'), late' \cup lost')
<1> HIDE DEF more
<1>1. LeasedNet(stream', more)
  BY LeasedMore DEF more
<1>2. more = Kept(seat', cut', On(stream'), late' \cup lost')
  BY DEF more
<1>3. QED
  BY <1>1, <1>2 DEF LeasedNet, LeasesEnd, Settles, Kept, On

(* A renewed stream: what took a lease on it is kept, for a turn that is   *)
(* open there or as lost.                                                  *)
LEMMA LeasedSubscribed ==
    ASSUME Typed, LeaseInv, Subscribe
    PROVE  LeasedNet(stream, Kept(seat, cut, On(stream), late \cup lost))'
<1> DEFINE kept == Kept(seat, cut, On(stream), late \cup lost)
           more == Kept(seat', cut', On(stream'), late' \cup lost')
<1>1. LeasedNet(stream, kept)
  BY DEF LeaseInv
<1>2. /\ Connect(Introduction) /\ seat' = seat /\ cut' = cut /\ late' = late
      /\ lost' = lost \cup {r \in Receipts :
                              /\ stream'.row[r[1]] = "accepted"
                              /\ \E t \in Turns \ stream'.open :
                                    r \in ToSet(seat.held[t]) \cup cut[t]}
  BY DEF Subscribe
<1> HIDE DEF kept
<1>3. LeasedNet(stream', kept)
  BY <1>1, <1>2, LeasedLinks
<1>4. On(stream) = Turns
  BY <1>2 DEF Connect, On
<1>5. /\ \A t \in Turns : ToSet(seat.held[t]) \subseteq Receipts /\ cut[t] \subseteq Receipts
  <2>1. \A t \in Turns : seat.held[t] \in Seq(Receipts)
    BY DEF Typed, Seats
  <2>2. QED
    BY <2>1, ElementsOf DEF Typed
<1>6. CASE On(stream') = Turns
  <2>1. kept \subseteq more
    BY <1>2, <1>4, <1>6 DEF Kept, kept
  <2>2. QED
    BY <1>3, <2>1, LeasedNow
<1>7. CASE On(stream') # Turns
  <2>1. stream'.active /\ stream'.link = "up" /\ On(stream') = stream'.open
    BY <1>7 DEF On
  <2>2. stream'.pend = <<>>
    BY <1>3, <2>1 DEF LeasedNet
  <2>3. ASSUME NEW m \in Msgs, stream'.row[m] = "accepted" PROVE m \in more
    <3>1. m \in kept
      BY <1>3, <2>3 DEF LeasedNet
    <3>2. CASE \E r \in late \cup lost : r[1] = m
      <4>1. \E r \in late' \cup lost' : r[1] = m
        BY <1>2, <3>2
      <4>2. QED
        BY <4>1 DEF Kept
    <3>3. ASSUME NEW t \in Turns, NEW r \in ToSet(seat.held[t]) \cup cut[t], r[1] = m
          PROVE  m \in more
      <4>1. r \in Receipts
        BY <1>5, <3>3
      <4>2. CASE t \in stream'.open
        <5>1. t \in On(stream') /\ r \in ToSet(seat'.held[t]) \cup cut'[t]
          BY <1>2, <2>1, <3>3, <4>2
        <5>2. QED
          BY <3>3, <5>1 DEF Kept
      <4>3. CASE t \notin stream'.open
        <5>1. r \in lost'
          BY <1>2, <2>3, <3>3, <4>1, <4>3
        <5>2. QED
          BY <3>3, <5>1 DEF Kept
      <4>4. QED
        BY <4>2, <4>3
    <3>4. QED
      BY <1>4, <3>1, <3>2, <3>3 DEF Kept, kept
  <2>4. LeasesEnd(stream'.pend, more)
    BY <2>2, LeasesOf
  <2> HIDE DEF more
  <2>5. LeasedNet(stream', more)
    BY <1>3, <2>3, <2>4 DEF LeasedNet
  <2>6. QED
    BY <2>5, LeasedNow DEF more
<1>8. QED
  BY <1>6, <1>7

LEMMA LeasedSwept ==
    ASSUME Typed, LeaseInv, NEW t \in Turns, Backstop(t),
           UNCHANGED <<seat, late, cut, lost>>
    PROVE  LeasedNet(stream, Kept(seat, cut, On(stream), late \cup lost))'
<1> DEFINE kept == Kept(seat, cut, On(stream), late \cup lost)
           n == [stream EXCEPT !.open = @ \ {t}, !.cond = "degraded"]
<1>1. LeasedNet(stream, kept) /\ stream \in Streams
  BY DEF LeaseInv, Typed
<1> HIDE DEF kept
<1>2. LeasedNet(stream', kept)
  BY <1>1, LeasedLinks
<1>3. stream' = Released(n) /\ n \in Streams /\ n.active = stream.active /\ n.link = stream.link
  BY <1>1 DEF Backstop, Streams
<1> HIDE DEF n
<1>4. /\ stream'.active = stream.active /\ stream'.link = stream.link
      /\ \A m \in Msgs : stream'.row[m] # "accepted"
  BY <1>3 DEF Released, Streams
<1>5. CASE stream.active /\ stream.link = "up"
  <2>1. stream'.pend = <<>>
    BY <1>2, <1>4, <1>5 DEF LeasedNet
  <2>2. LeasesEnd(stream'.pend, {})
    BY <2>1, LeasesOf
  <2>3. LeasedNet(stream', {})
    BY <1>2, <1>4, <2>2 DEF LeasedNet
  <2>4. QED
    BY <2>3, LeasedNow
<1>6. CASE ~(stream.active /\ stream.link = "up")
  <2>1. On(stream') = On(stream)
    BY <1>4, <1>6 DEF On
  <2>2. kept \subseteq Kept(seat', cut', On(stream'), late' \cup lost')
    BY <2>1 DEF kept
  <2>3. QED
    BY <1>2, <2>2, LeasedNow
<1>7. QED
  BY <1>5, <1>6

(* Through every step a lease is on a live stream and for a kept message.  *)
LEMMA LeasesStep ==
    ASSUME Typed, LeaseInv, [Next]_vars
    PROVE  LeasedNet(stream, Kept(seat, cut, On(stream), late \cup lost))'
<1> DEFINE kept == Kept(seat, cut, On(stream), late \cup lost)
<1>1. /\ LeasedNet(stream, kept) /\ LeasedPlan(Now) /\ Now \in Plans
      /\ Now.seat = seat /\ Now.net = stream /\ Now.late = late
  BY NowTyped DEF LeaseInv, LeasedPlan, KeptBy, Now
<1>2. /\ stream \in Streams /\ seat \in Seats /\ out \in Seq(Lines)
      /\ seat.held \in [Turns -> Seq(Receipts)]
      /\ seat.awaiting \in [Turns -> Seq(Receipts)]
      /\ On(stream) \subseteq Turns
  BY DEF Typed, Seats, Streams, On
<1>3. ASSUME LeasedNet(stream', kept), On(stream) \subseteq On(stream'),
             late' = late, lost' = lost,
             \A t \in Turns : ToSet(seat.held[t]) \cup cut[t]
                                \subseteq ToSet(seat'.held[t]) \cup cut'[t]
      PROVE  LeasedNet(stream, Kept(seat, cut, On(stream), late \cup lost))'
  <2>1. kept \subseteq Kept(seat', cut', On(stream'), late' \cup lost')
    BY <1>2, <1>3 DEF Kept
  <2> HIDE DEF kept
  <2>2. QED
    BY <1>3, <2>1, LeasedNow
<1>4. ASSUME NEW q, LeasedPlan(q), Become(q)
      PROVE  LeasedNet(stream, Kept(seat, cut, On(stream), late \cup lost))'
  <2>1. /\ q.seat = seat' /\ q.net = stream' /\ q.late = late' /\ lost' = lost /\ cut' = cut
    BY <1>4 DEF Become
  <2>2. LeasedNet(stream', KeptBy(q))
    BY <1>4, <2>1 DEF LeasedPlan
  <2>3. KeptBy(q) = Kept(seat', cut', On(stream'), late' \cup lost')
    BY <2>1 DEF KeptBy
  <2>4. QED
    BY <2>2, <2>3, LeasedNow
<1>5. ASSUME stream' = stream, seat'.held = seat.held, UNCHANGED leaseVars
      PROVE  LeasedNet(stream, Kept(seat, cut, On(stream), late \cup lost))'
  <2>1. late' = late /\ lost' = lost /\ cut' = cut
    BY <1>5 DEF leaseVars
  <2> HIDE DEF kept
  <2>2. QED
    BY <1>1, <1>3, <1>5, <2>1
<1>6. CASE UNCHANGED vars
  BY <1>5, <1>6 DEF vars
<1>7. CASE PushMessage \/ LoseLink \/ LoopEnds
  <2>1. /\ Push \/ Lose \/ EndStream
        /\ seat' = seat /\ late' = late /\ lost' = lost /\ cut' = cut
    BY <1>7 DEF PushMessage, LoseLink, LoopEnds, seatVars, leaseVars
  <2>2. On(stream) \subseteq On(stream')
    <3>1. CASE Push
      <4>1. /\ stream'.active = stream.active /\ stream'.link = stream.link
            /\ stream'.open = stream.open
        BY <1>2, <3>1 DEF Push, Streams
      <4>2. QED
        BY <4>1 DEF On
    <3>2. CASE Lose
      <4>1. stream'.link = "lost"
        <5> DEFINE n == Released(stream)
        <5>1. n \in Streams
          BY <1>2, ReleasedTyped
        <5>2. PICK k : stream' = [n EXCEPT !.link = "lost", !.cond = "none", !.open = {},
                                           !.down = SubSeq(@, 1, k)]
          BY <3>2 DEF Lose
        <5> HIDE DEF n
        <5>3. QED
          BY <5>1, <5>2 DEF Streams
      <4>2. QED
        BY <1>2, <4>1 DEF On
    <3>3. CASE EndStream
      <4>1. stream'.link = "none"
        BY <1>2, <3>3 DEF EndStream, Streams
      <4>2. QED
        BY <1>2, <4>1 DEF On
    <3>4. QED
      BY <2>1, <3>1, <3>2, <3>3
  <2> HIDE DEF kept
  <2>3. LeasedNet(stream', kept)
    BY <1>1, <2>1, LeasedLinks
  <2>4. QED
    BY <1>3, <2>1, <2>2, <2>3
<1>8. CASE Subscribe
  BY <1>8, LeasedSubscribed
<1>9. CASE SweepTurn
  <2>1. PICK t \in Turns : Backstop(t)
    BY <1>9 DEF SweepTurn
  <2>2. UNCHANGED <<seat, late, cut, lost>>
    BY <1>9 DEF SweepTurn, leaseVars
  <2>3. QED
    BY <2>1, <2>2, LeasedSwept
<1>10. CASE Forward
  <2>1. SameTurns(seat, seat') /\ late' = late /\ lost' = lost /\ cut' = cut
    BY <1>10, ReceivedKeepsTurns DEF leaseVars
  <2>2. stream' = Taken
    BY <1>10 DEF Forward, Received, Become, Delivered, Now
  <2>3. /\ stream'.row = stream.row /\ stream'.pend = stream.pend
        /\ stream'.link = stream.link /\ stream'.active = stream.active
        /\ stream'.open = stream.open
    BY <1>2, <2>2 DEF Taken, Streams
  <2> HIDE DEF kept
  <2>4. LeasedNet(stream', kept)
    BY <1>1, <2>3, LeasedSame
  <2>5. On(stream) \subseteq On(stream')
    BY <2>3 DEF On
  <2>6. QED
    BY <1>3, <2>1, <2>4, <2>5 DEF SameTurns
<1>11. CASE Spawn
  <2>1. /\ \A t \in Turns : seat.held[t] = <<>> /\ seat'.held[t] = <<>>
        /\ late' = late /\ lost' = lost /\ cut' = cut
    BY <1>11 DEF Spawn, NewSeat, LeaseInv, leaseVars
  <2>2. stream' = stream \/ stream' = Performed(stream, Condition("ready"))
    BY <1>11 DEF Spawn
  <2> HIDE DEF kept
  <2>3. LeasedNet(stream', kept)
    BY <1>1, <1>2, <2>2, LeasedTells
  <2>4. On(stream) \subseteq On(stream')
    <3> DEFINE a == Condition("ready")
    <3>1. a \in Acts /\ a.do # "turn"
      BY ActsTyped DEF Condition
    <3> HIDE DEF a
    <3>2. \A t \in Turns : ~Ends(a, t)
      BY <3>1 DEF Ends
    <3>3. On(stream) \subseteq On(Performed(stream, a))
      BY <1>2, <3>1, <3>2, OnPerformed
    <3>4. QED
      BY <2>2, <3>3 DEF a
  <2>5. QED
    BY <1>3, <2>1, <2>3, <2>4
<1>12. CASE Close
  <2> DEFINE failing == Failing(seat)
             acts == SettleEach(failing, "deferred")
  <2>1. /\ stream' = Doing(Now, acts).net /\ late' = late /\ lost' = lost
        /\ cut' = [t \in Turns |-> cut[t] \cup ToSet(seat.held[t])]
    BY <1>12 DEF Close, Torn, Deferred, Now
  <2>2. failing \in Seq(Receipts)
    BY <1>2, FailingTyped
  <2> HIDE DEF failing, kept
  <2>3. acts \in Seq(Acts) /\ LeasesEnd(acts, kept)
        /\ On(stream) \subseteq On(PerformAll(stream, acts))
    BY <1>2, <2>2, ActsTyped, LeasesOf, ReceiptsStayOn
  <2> HIDE DEF acts
  <2>4. stream' = PerformAll(stream, acts)
    BY <2>1 DEF Doing, Now
  <2>5. LeasedNet(stream', kept)
    BY <1>1, <1>2, <2>3, <2>4, LeasedDoes
  <2>6. \A t \in Turns : ToSet(seat.held[t]) \cup cut[t] \subseteq cut'[t]
    BY <2>1
  <2>7. QED
    BY <1>3, <2>1, <2>3, <2>4, <2>5, <2>6
<1>13. CASE Stop \/ Timer
  BY <1>1, <1>4, <1>13, LeasedFlushed DEF Stop, Timer
<1>14. CASE Continue
  BY <1>1, <1>4, <1>14, LeasedAnswered DEF Continue
<1>15. CASE ReadLine
  <2> DEFINE l == Head(out)
  <2>1. out # <<>> /\ Become(Handled(Now, l))
    BY <1>15 DEF ReadLine
  <2>2. l = out[1] /\ l \in Lines /\ Len(out) >= 1 /\ Len(out) \in Nat
    BY <1>2, <2>1, TailOf, LenProperties
  <2> HIDE DEF l
  <2>3. DOMAIN out = 1 .. Len(out) /\ 1 \in 1 .. Len(out)
    BY <1>2, <2>2, LenProperties
  <2>4. l.is = "started" => seat.held[l.turn] = <<>>
    <3>1. ASSUME l.is = "started" PROVE seat.held[l.turn] = <<>>
      <4>1. l.turn \in Turns
        BY <2>2, <3>1, HandledIs
      <4>2. NewTurn(l.turn)
        BY <2>2, <2>3, <3>1 DEF NewTurn, StillToRead
      <4>3. QED
        BY <4>1, <4>2 DEF LeaseInv, TurnsStartEmpty, Untouched
    <3>2. QED
      BY <3>1
  <2>5. l.is = "completed" => cut[l.turn] = {}
    <3>1. ASSUME l.is = "completed" PROVE cut[l.turn] = {}
      <4>1. l.turn \in Turns
        BY <2>2, <3>1, HandledIs
      <4>2. StillToRead("completed", l.turn)
        BY <2>2, <2>3, <3>1 DEF StillToRead
      <4>3. QED
        BY <4>1, <4>2 DEF LeaseInv, CutsAreOver
    <3>2. QED
      BY <3>1
  <2>6. LeasedPlan(Handled(Now, l))
    BY <1>1, <2>2, <2>4, <2>5, LeasedHandled
  <2>7. QED
    BY <1>4, <2>1, <2>6
<1>16. CASE StopTurn
  BY <1>5, <1>16 DEF StopTurn
<1>17. CASE StartTurn \/ Steer \/ RefuseSteer \/ RefuseRequest
  <2>1. /\ seat' = [seat EXCEPT !.flight.at = "served"] /\ stream' = stream
        /\ UNCHANGED leaseVars
    BY <1>17 DEF StartTurn, Steer, RefuseSteer, RefuseRequest, Serve
  <2>2. seat'.held = seat.held
    BY <1>2, <2>1 DEF Seats
  <2>3. QED
    BY <1>5, <2>1, <2>2
<1>18. CASE UseTool \/ EndTurn \/ FailTurn \/ Interrupt \/ ReportError \/ Recover
  BY <1>5, <1>18 DEF UseTool, EndTurn, FailTurn, Interrupt, ReportError, Recover
<1>19. QED
  BY <1>6, <1>7, <1>8, <1>9, <1>10, <1>11, <1>12, <1>13, <1>14, <1>15, <1>16, <1>17,
     <1>18 DEF Next

(* The turns an earlier sink had receipts of stay over.                    *)
LEMMA CutsKept ==
    ASSUME Typed, Typed', CutsAreOver, cut' = cut, codex'.used >= codex.used,
           \A t \in Turns : t <= codex.used /\ codex.turn # t => codex'.turn # t,
           \A t \in Turns : StillToRead("completed", t)' =>
                                StillToRead("completed", t) \/ codex.turn = t
    PROVE  CutsAreOver'
<1>1. /\ codex.used \in Nat /\ codex'.used \in Nat /\ Turns \subseteq Nat
  BY SeatConstantsOK, NoTurnIsNone DEF Typed
<1>2. ASSUME NEW t \in Turns, cut'[t] # {}
      PROVE  t <= codex'.used /\ codex'.turn # t /\ ~StillToRead("completed", t)'
  <2>1. t <= codex.used /\ codex.turn # t /\ ~StillToRead("completed", t)
    BY <1>2 DEF CutsAreOver
  <2>2. t <= codex'.used
    BY <1>1, <2>1
  <2>3. QED
    BY <2>1, <2>2
<1>3. QED
  BY <1>2 DEF CutsAreOver

(* Only the end of the turn of the agent is told.                          *)
LEMMA EndsWritten ==
    ASSUME Typed, Typed', NEW l, Wrote(l),
           \A k \in 1 .. Len(l) : l[k].is = "completed" => l[k].turn = codex.turn
    PROVE  \A t : StillToRead("completed", t)' =>
                      StillToRead("completed", t) \/ codex.turn = t
<1>1. out \in Seq(Lines) /\ l \in Seq(Lines) /\ out' = out \o l
  BY DEF Typed, Wrote
<1>2. \A i \in 1 .. Len(out') :
          \/ i \in 1 .. Len(out) /\ out'[i] = out[i]
          \/ \E k \in 1 .. Len(l) : i = Len(out) + k /\ out'[i] = l[k]
  BY <1>1, WrittenSplit
<1>3. QED
  BY <1>2, StillReadIs, StillReadNext

LEMMA EndsRead ==
    ASSUME Typed, Typed', out' = out \/ out' = <<>> \/ (out # <<>> /\ out' = Tail(out))
    PROVE  \A t : StillToRead("completed", t)' => StillToRead("completed", t)
<1>1. CASE out' = out
  BY <1>1, StillReadIs, StillReadNext
<1>2. CASE Len(out') = 0
  BY <1>2, StillReadNext
<1>3. CASE out # <<>> /\ out' = Tail(out)
  <2>1. /\ Len(out') = Len(out) - 1 /\ Len(out) \in Nat /\ Len(out) >= 1
        /\ \A i \in 1 .. Len(out) - 1 : out'[i] = out[i + 1]
    BY <1>3, TailOf DEF Typed
  <2>2. \A i \in 1 .. Len(out') : i + 1 \in 1 .. Len(out) /\ out'[i] = out[i + 1]
    BY <2>1
  <2>3. \A i \in 1 .. Len(out') : \E j \in 1 .. Len(out) : out'[i] = out[j]
    BY <2>2
  <2>4. QED
    BY <2>3, StillReadIs, StillReadNext
<1>4. QED
  BY <1>1, <1>2, <1>3

LEMMA CutsServed ==
    ASSUME Typed, Typed', CutsAreOver, StartTurn \/ Steer \/ RefuseSteer \/ RefuseRequest
    PROVE  CutsAreOver'
<1>1. cut' = cut
  BY DEF StartTurn, Steer, RefuseSteer, RefuseRequest, leaseVars
<1>2. codex.used \in Nat /\ Turns \subseteq Nat
  BY SeatConstantsOK, NoTurnIsNone DEF Typed
<1>3. /\ \A says : \A t : Reply(says, t).is = "reply"
      /\ \A t : Started(t).is = "started" /\ \A s : Status(s).is = "status"
  BY DEF Reply, Started, Status, Line
<1>4. CASE StartTurn
  <2> DEFINE t == codex.used + 1
             a == <<Reply("ok", t), Started(t), Status("active")>>
             b == <<Status("active"), Started(t), Reply("ok", t)>>
  <2>1. /\ t \in Turns /\ codex' = [codex EXCEPT !.turn = t, !.used = t]
        /\ Wrote(a) \/ Wrote(b)
    BY <1>4, StartTurnWrites
  <2>2. /\ \A k \in 1 .. Len(a) : a[k].is # "completed"
        /\ \A k \in 1 .. Len(b) : b[k].is # "completed"
    <3>1. PICK x, y, z : x = Reply("ok", t) /\ y = Started(t) /\ z = Status("active")
      OBVIOUS
    <3>2. x.is # "completed" /\ y.is # "completed" /\ z.is # "completed"
      BY <1>3, <3>1
    <3>3. PICK v, w : v = <<x, y, z>> /\ w = <<z, y, x>>
      OBVIOUS
    <3>4. /\ \A k \in 1 .. Len(v) : v[k].is # "completed"
          /\ \A k \in 1 .. Len(w) : w[k].is # "completed"
      BY <3>2, <3>3
    <3>5. QED
      BY <3>1, <3>3, <3>4
  <2>3. t > codex.used /\ t >= codex.used /\ \A u \in Turns : u <= codex.used => u # t
    BY <1>2
  <2> HIDE DEF a, b, t
  <2>4. codex'.used = t /\ codex'.turn = t
    BY <2>1 DEF Typed
  <2>5. \A u : StillToRead("completed", u)' => StillToRead("completed", u) \/ codex.turn = u
    BY <2>1, <2>2, EndsWritten
  <2>6. QED
    BY <1>1, <2>3, <2>4, <2>5, CutsKept
<1>5. CASE Steer \/ RefuseSteer \/ RefuseRequest
  <2>1. PICK l : Wrote(l) /\ \A k \in 1 .. Len(l) : l[k].is # "completed"
    <3>1. PICK says, t : Wrote(<<Reply(says, t)>>)
      BY <1>5, RequestsWrite
    <3>2. PICK x : x = Reply(says, t)
      OBVIOUS
    <3>3. PICK y : y = <<x>>
      OBVIOUS
    <3>4. \A k \in 1 .. Len(y) : y[k].is # "completed"
      BY <1>3, <3>2, <3>3
    <3>5. QED
      BY <3>1, <3>2, <3>3, <3>4
  <2>2. codex' = codex /\ codex'.used >= codex.used
    BY <1>2, <1>5 DEF Steer, RefuseSteer, RefuseRequest
  <2>3. \A t : StillToRead("completed", t)' => StillToRead("completed", t) \/ codex.turn = t
    BY <2>1, EndsWritten
  <2>4. QED
    BY <1>1, <2>2, <2>3, CutsKept
<1>6. QED
  BY <1>4, <1>5

LEMMA CutsTold ==
    ASSUME Typed, Typed', CutsAreOver,
           EndTurn \/ FailTurn \/ Interrupt \/ UseTool \/ ReportError \/ Recover
    PROVE  CutsAreOver'
<1>1. cut' = cut
  BY DEF EndTurn, FailTurn, Interrupt, UseTool, ReportError, Recover, leaseVars
<1>2. codex.used \in Nat /\ NoTurn \notin Turns
  BY SeatConstantsOK, NoTurnIsNone DEF Typed
<1>3. /\ codex'.used = codex.used /\ codex'.turn \in {codex.turn, NoTurn}
  <2>1. CASE EndTurn \/ FailTurn
    BY <2>1, EndsWrite
  <2>2. CASE Interrupt
    BY <2>2, InterruptWrites
  <2>3. CASE UseTool \/ ReportError
    BY <2>3 DEF UseTool, ReportError
  <2>4. CASE Recover
    BY <2>4 DEF Recover, Typed
  <2>5. QED
    BY <2>1, <2>2, <2>3, <2>4
<1>4. /\ \A t : \A how : Completed(t, how).turn = t
      /\ \A s : Status(s).is = "status" /\ \A t : UsedTool(t).is = "acted"
      /\ \A is : Line(is).is = is
  BY DEF Completed, Status, UsedTool, Line
<1>5. \E a, b : /\ a.is = "completed" => a.turn = codex.turn
                /\ b.is = "completed" => b.turn = codex.turn
                /\ Wrote(<<a>>) \/ Wrote(<<a, b>>)
  <2>1. CASE EndTurn \/ FailTurn
    <3>1. PICK how \in {"completed", "failed"}, s \in {"idle", "systemError"} :
              \/ Wrote(<<Completed(codex.turn, how), Status(s)>>)
              \/ Wrote(<<Status(s), Completed(codex.turn, how)>>)
      BY <2>1, EndsWrite
    <3>2. Completed(codex.turn, how).turn = codex.turn /\ Status(s).is # "completed"
      BY <1>4
    <3>3. QED
      BY <3>1, <3>2
  <2>2. CASE Interrupt
    <3>1. \/ Wrote(<<Line("interrupted")>>)
          \/ Wrote(<<Completed(codex.turn, "interrupted"), Line("interrupted")>>)
          \/ Wrote(<<Line("interrupted"), Completed(codex.turn, "interrupted")>>)
      BY <2>2, InterruptWrites
    <3>2. /\ Completed(codex.turn, "interrupted").turn = codex.turn
          /\ Line("interrupted").is # "completed"
      BY <1>4
    <3>3. QED
      BY <3>1, <3>2
  <2>3. CASE UseTool \/ ReportError \/ Recover
    <3>1. \/ Wrote(<<UsedTool(codex.turn)>>)
          \/ Wrote(<<Line("error")>>) \/ Wrote(<<Status("idle")>>)
      BY <2>3, NoticesWrite
    <3>2. /\ UsedTool(codex.turn).is # "completed" /\ Line("error").is # "completed"
          /\ Status("idle").is # "completed"
      BY <1>4
    <3>3. QED
      BY <3>1, <3>2
  <2>4. QED
    BY <2>1, <2>2, <2>3
<1>6. PICK a, b : /\ a.is = "completed" => a.turn = codex.turn
                  /\ b.is = "completed" => b.turn = codex.turn
                  /\ Wrote(<<a>>) \/ Wrote(<<a, b>>)
  BY <1>5
<1>7. PICK l : /\ Wrote(l)
               /\ \A k \in 1 .. Len(l) : l[k].is = "completed" => l[k].turn = codex.turn
  <2>1. PICK x, y : x = <<a>> /\ y = <<a, b>>
    OBVIOUS
  <2>2. /\ \A k \in 1 .. Len(x) : x[k].is = "completed" => x[k].turn = codex.turn
        /\ \A k \in 1 .. Len(y) : y[k].is = "completed" => y[k].turn = codex.turn
    BY <1>6, <2>1
  <2>3. QED
    BY <1>6, <2>1, <2>2
<1>8. \A t : StillToRead("completed", t)' => StillToRead("completed", t) \/ codex.turn = t
  BY <1>7, EndsWritten
<1>9. codex'.used >= codex.used
  BY <1>2, <1>3
<1>10. \A t \in Turns : codex.turn # t => codex'.turn # t
  BY <1>2, <1>3
<1>11. QED
  BY <1>1, <1>8, <1>9, <1>10, CutsKept

LEMMA CutsMoved ==
    ASSUME Typed, Typed', LeaseInv,
           \/ PushMessage \/ LoseLink \/ LoopEnds \/ Subscribe \/ SweepTurn
           \/ Forward \/ Spawn \/ Stop \/ StopTurn \/ Close
           \/ ReadLine \/ Continue \/ Timer \/ UNCHANGED vars
    PROVE  CutsAreOver'
<1>1. codex.used \in Nat /\ NoTurn \notin Turns /\ Turns \subseteq Nat /\ CutsAreOver
  BY SeatConstantsOK, NoTurnIsNone DEF Typed, LeaseInv
<1>2. CASE Close
  <2>1. /\ cut' = [t \in Turns |-> cut[t] \cup ToSet(seat.held[t])]
        /\ Len(out') = 0 /\ codex'.turn = NoTurn /\ codex'.used = codex.used
    BY <1>2 DEF Close, NewCodex
  <2>2. ASSUME NEW t \in Turns, cut'[t] # {} PROVE t <= codex.used
    <3>1. CASE cut[t] # {}
      BY <1>1, <3>1 DEF CutsAreOver
    <3>2. CASE ToSet(seat.held[t]) # {}
      <4>1. seat.held[t] # <<>>
        <5>1. ToSet(<<>>) = {}
          BY DEF ToSet
        <5>2. QED
          BY <3>2, <5>1
      <4>2. ~NewTurn(t)
        BY <4>1 DEF LeaseInv, TurnsStartEmpty, Untouched
      <4>3. t \in Nat /\ ~(t > codex.used)
        BY <1>1, <4>2 DEF NewTurn
      <4>4. QED
        BY <1>1, <4>3
    <3>3. QED
      BY <2>1, <2>2, <3>1, <3>2
  <2>3. \A t : ~StillToRead("completed", t)'
    BY <2>1, StillReadNext
  <2>4. QED
    BY <1>1, <2>1, <2>2, <2>3 DEF CutsAreOver
<1>3. CASE \/ PushMessage \/ LoseLink \/ LoopEnds \/ Subscribe \/ SweepTurn
           \/ Forward \/ Spawn \/ Stop \/ StopTurn
           \/ ReadLine \/ Continue \/ Timer \/ UNCHANGED vars
  <2>1. cut' = cut
    <3>1. CASE Forward
      BY <3>1, ReceivedKeepsTurns DEF leaseVars
    <3>2. CASE \/ PushMessage \/ LoseLink \/ LoopEnds \/ Subscribe \/ SweepTurn
               \/ Spawn \/ StopTurn \/ UNCHANGED vars
      BY <3>2 DEF PushMessage, LoseLink, LoopEnds, Subscribe, SweepTurn, Spawn, StopTurn,
         seatVars, leaseVars, vars
    <3>3. CASE Stop \/ ReadLine \/ Continue \/ Timer
      BY <3>3 DEF Stop, ReadLine, Continue, Timer, Become
    <3>4. QED
      BY <1>3, <3>1, <3>2, <3>3
  <2>2. /\ codex'.used = codex.used /\ codex'.turn \in {codex.turn, NoTurn}
        /\ out' = out \/ out' = <<>> \/ (out # <<>> /\ out' = Tail(out))
    <3>1. CASE Forward
      BY <3>1, ReceivedKeepsTurns
    <3>2. CASE Spawn
      BY <3>2 DEF Spawn, NewCodex
    <3>3. CASE \/ PushMessage \/ LoseLink \/ LoopEnds \/ Subscribe \/ SweepTurn
               \/ StopTurn \/ UNCHANGED vars
      BY <3>3 DEF PushMessage, LoseLink, LoopEnds, Subscribe, SweepTurn, StopTurn,
         seatVars, vars
    <3>4. CASE Stop \/ ReadLine \/ Continue \/ Timer
      BY <3>4 DEF Stop, ReadLine, Continue, Timer
    <3>5. QED
      BY <1>3, <3>1, <3>2, <3>3, <3>4
  <2>3. \A t : StillToRead("completed", t)' => StillToRead("completed", t)
    BY <2>2, EndsRead
  <2>4. codex'.used >= codex.used
    BY <1>1, <2>2
  <2>5. \A t \in Turns : codex.turn # t => codex'.turn # t
    BY <1>1, <2>2
  <2>6. QED
    BY <1>1, <2>1, <2>3, <2>4, <2>5, CutsKept
<1>4. QED
  BY <1>2, <1>3

(* What the sink does with a turn that has not begun: nothing.             *)
LEMMA UntouchedAsks ==
    ASSUME NEW s, NEW s2, NEW t \in Turns, Untouched(s, t), SameTurns(s, s2),
           \/ s2.flight = s.flight \/ s2.flight.at = "none"
           \/ s2.flight.ask = "steer" => s2.flight.turn = s.turn
    PROVE  Untouched(s2, t)
BY DEF Untouched, SameTurns, AsksFor

LEMMA UntouchedFlushed ==
    ASSUME NEW p \in Plans, NEW t \in Turns, Untouched(p.seat, t)
    PROVE  Untouched(Flushed(p).seat, t)
BY FlushedIs, UntouchedAsks DEF Drains

LEMMA UntouchedFinished ==
    ASSUME NEW p \in Plans, NEW t \in Turns, Untouched(p.seat, t)
    PROVE  Untouched(Finished(p).seat, t)
<1> DEFINE q == Finished(p)
           s == [p.seat EXCEPT !.flight = NoFlight]
<1>1. /\ SameTurns(p.seat, q.seat)
      /\ q.seat.flight = NoFlight \/ Drains(s, p.net, q.seat, q.net)
  BY FinishedIs
<1>2. s.flight = NoFlight /\ NoFlight.at = "none" /\ s.turn = p.seat.turn
  BY DEF Plans, Seats, NoFlight
<1> HIDE DEF q, s
<1>3. \/ q.seat.flight.at = "none"
      \/ q.seat.flight.ask = "steer" => q.seat.flight.turn = p.seat.turn
  BY <1>1, <1>2 DEF Drains
<1>4. Untouched(q.seat, t)
  BY <1>1, <1>3, UntouchedAsks
<1>5. QED
  BY <1>4 DEF q

LEMMA UntouchedAnswered ==
    ASSUME NEW p \in Plans, NEW t \in Turns, Untouched(p.seat, t),
           p.seat.flight.at = "answered"
    PROVE  Untouched(Answered(p).seat, t)
<1> DEFINE f == p.seat.flight
<1>1. p.seat \in Seats /\ p.seat.held \in [Turns -> Seq(Receipts)]
  BY DEF Plans, Seats
<1>2. CASE AsksAgain(p, Answered(p))
  BY <1>2, UntouchedAsks DEF AsksAgain
<1>3. ASSUME NEW e \in Plans, Answered(p) = Finished(e), JoinsTurn(p, e)
      PROVE  Untouched(Answered(p).seat, t)
  <2>1. f.turn # t
    BY <1>3 DEF JoinsTurn, Untouched, AsksFor
  <2>2. /\ e.seat.turn = p.seat.turn /\ e.seat.flight = p.seat.flight
        /\ e.seat.held[t] = p.seat.held[t]
    BY <1>1, <1>3, <2>1 DEF JoinsTurn, Seats
  <2>3. Untouched(e.seat, t)
    BY <2>2 DEF Untouched
  <2>4. QED
    BY <1>3, <2>3, UntouchedFinished
<1>4. ASSUME NEW e \in Plans, Answered(p) = Finished(e), AwaitsTurn(p, e) \/ GivesUp(p, e)
      PROVE  Untouched(Answered(p).seat, t)
  <2>1. /\ e.seat.turn = p.seat.turn /\ e.seat.flight = p.seat.flight
        /\ e.seat.held = p.seat.held
    BY <1>1, <1>4 DEF AwaitsTurn, GivesUp, Seats
  <2>2. Untouched(e.seat, t)
    BY <2>1 DEF Untouched
  <2>3. QED
    BY <1>4, <2>2, UntouchedFinished
<1>5. QED
  BY <1>2, <1>3, <1>4, AnsweredIs

LEMMA UntouchedHandled ==
    ASSUME NEW p \in Plans, NEW t \in Turns, Untouched(p.seat, t), NEW l \in Lines,
           l.is = "started" => l.turn # t,
           l.is = "reply" => /\ p.seat.flight.at = "served"
                             /\ l.says = "ok" /\ p.seat.flight.ask = "steer"
                                  => l.turn = p.seat.flight.turn
    PROVE  Untouched(Handled(p, l).seat, t)
<1>1. /\ p.seat \in Seats /\ p.seat.held \in [Turns -> Seq(Receipts)]
      /\ NoTurn # t
  BY NoTurnIsNone DEF Plans, Seats
<1>2. ASSUME NEW q, q.seat.flight = p.seat.flight, q.seat.turn \in {p.seat.turn, NoTurn},
             q.seat.held[t] \in {p.seat.held[t], <<>>}
      PROVE  Untouched(q.seat, t)
  BY <1>1, <1>2 DEF Untouched
<1>3. CASE l.is = "started"
  <2>1. l.turn \in Turns /\ Handled(p, l) = OnStarted(p, l.turn)
    BY <1>3, HandledIs
  <2> DEFINE q == OnStarted(p, l.turn)
  <2>2. /\ q.seat.flight = p.seat.flight /\ q.seat.turn = l.turn
        /\ q.seat.held = IF p.seat.awaiting[l.turn] = <<>> THEN p.seat.held
                         ELSE [p.seat.held EXCEPT ![l.turn] = p.seat.awaiting[l.turn]]
    BY <2>1, OnStartedIs DEF SameBuffering
  <2> HIDE DEF q
  <2>3. q.seat.held[t] = p.seat.held[t]
    BY <1>1, <1>3, <2>2
  <2>4. Untouched(q.seat, t)
    BY <1>3, <2>2, <2>3 DEF Untouched
  <2>5. QED
    BY <2>1, <2>4 DEF q
<1>4. CASE l.is = "completed"
  <2>1. l.turn \in Turns /\ Handled(p, l) = OnCompleted(p, l.turn, l.says)
    BY <1>4, HandledIs
  <2> DEFINE q == OnCompleted(p, l.turn, l.says)
  <2>2. /\ q.seat.flight = p.seat.flight /\ q.seat.turn = NoTurn
        /\ q.seat.held = [p.seat.held EXCEPT ![l.turn] = <<>>]
    BY <2>1, OnCompletedIs DEF SameBuffering
  <2> HIDE DEF q
  <2>3. q.seat.held[t] \in {p.seat.held[t], <<>>}
    BY <1>1, <2>2
  <2>4. Untouched(q.seat, t)
    BY <1>2, <2>2, <2>3
  <2>5. QED
    BY <2>1, <2>4 DEF q
<1>5. CASE l.is = "acted"
  <2>1. l.turn \in Turns /\ Handled(p, l) = OnActed(p, l.turn)
    BY <1>5, HandledIs
  <2> DEFINE q == OnActed(p, l.turn)
  <2>2. /\ q.seat.flight = p.seat.flight /\ q.seat.turn = p.seat.turn
        /\ q.seat.held = [p.seat.held EXCEPT ![l.turn] = <<>>]
    BY <2>1, OnActedIs DEF SameBuffering
  <2> HIDE DEF q
  <2>3. q.seat.held[t] \in {p.seat.held[t], <<>>}
    BY <1>1, <2>2
  <2>4. Untouched(q.seat, t)
    BY <1>2, <2>2, <2>3
  <2>5. QED
    BY <2>1, <2>4 DEF q
<1>6. CASE l.is = "status"
  <2>1. l.says \in Statuses \ {"notLoaded"} /\ Handled(p, l) = OnStatus(p, l.says)
    BY <1>6, HandledIs
  <2>2. PICK e \in Plans :
            /\ OnStatus(p, l.says) = Flushed(e)
            /\ e.seat = [p.seat EXCEPT !.status = l.says]
    BY <2>1, OnStatusIs
  <2>3. /\ e.seat.flight = p.seat.flight /\ e.seat.turn = p.seat.turn
        /\ e.seat.held = p.seat.held
    BY <1>1, <2>2 DEF Seats
  <2>4. Untouched(e.seat, t)
    BY <2>3 DEF Untouched
  <2>5. QED
    BY <2>1, <2>2, <2>4, UntouchedFlushed
<1>7. CASE l.is = "reply"
  <2>1. Handled(p, l) = OnReply(p, l)
    BY <1>7, HandledIs
  <2> DEFINE q == OnReply(p, l)
  <2>2. /\ SameTurns(p.seat, q.seat)
        /\ q.seat.flight = [p.seat.flight EXCEPT
                              !.at = "answered", !.says = l.says, !.turn = l.turn]
    BY OnReplyIs
  <2> HIDE DEF q
  <2>3. /\ q.seat.flight.says = l.says /\ q.seat.flight.turn = l.turn
        /\ q.seat.flight.ask = p.seat.flight.ask /\ q.seat.flight.at = "answered"
    BY <1>1, <2>2 DEF Seats, Flights
  <2>4. Untouched(q.seat, t)
    BY <1>7, <2>2, <2>3 DEF Untouched, SameTurns, AsksFor
  <2>5. QED
    BY <2>1, <2>4 DEF q
<1>8. CASE l.is \in {"error", "interrupted"}
  BY <1>8, HandledIs, DegradedIs
<1>9. QED
  BY <1>3, <1>4, <1>5, <1>6, <1>7, <1>8, HandledIs

(* Lines that are read, or dropped with their agent, are told once less.   *)
LEMMA StartsRead ==
    ASSUME Typed, Typed', StartsOnce, codex'.used = codex.used,
           out' = out \/ out' = <<>> \/ (out # <<>> /\ out' = Tail(out))
    PROVE  /\ StartsOnce'
           /\ \A t : NewTurn(t)' =>
                 /\ NewTurn(t)
                 /\ out # <<>> /\ out' = Tail(out) =>
                       ~(Head(out).is = "started" /\ Head(out).turn = t)
<1>1. codex.used \in Nat
  BY SeatConstantsOK DEF Typed
<1>2. CASE out' = out
  <2>1. Len(out) \in Nat /\ out # <<>> => Tail(out) # out
    <3>1. ASSUME out # <<>> PROVE Len(Tail(out)) # Len(out)
      BY <3>1, TailOf DEF Typed
    <3>2. QED
      BY <3>1, LenProperties DEF Typed
  <2>2. StartsOnce'
    BY <1>1, <1>2 DEF StartsOnce
  <2>3. \A t : NewTurn(t)' => NewTurn(t)
    BY <1>2, StillReadIs, StillReadNext DEF NewTurn
  <2>4. QED
    BY <1>2, <2>1, <2>2, <2>3
<1>3. CASE out' = <<>> /\ out' # Tail(out)
  <2>1. Len(out') = 0
    BY <1>3
  <2>2. StartsOnce'
    BY <2>1 DEF StartsOnce
  <2>3. \A t : NewTurn(t)' => NewTurn(t)
    BY <2>1, StillReadNext DEF NewTurn
  <2>4. QED
    BY <1>3, <2>2, <2>3
<1>4. CASE out # <<>> /\ out' = Tail(out)
  <2>1. /\ Len(out') = Len(out) - 1 /\ Len(out) \in Nat /\ Len(out) >= 1
        /\ Head(out) = out[1]
        /\ \A i \in 1 .. Len(out) - 1 : out'[i] = out[i + 1]
    BY <1>4, TailOf DEF Typed
  <2>2. \A i \in 1 .. Len(out') : /\ i + 1 \in 1 .. Len(out) /\ i + 1 # 1
                                  /\ out'[i] = out[i + 1]
    BY <2>1
  <2>3. \A i \in 1 .. Len(out'), j \in 1 .. Len(out') : j + 1 = i + 1 => j = i
    BY <2>1
  <2>4. ASSUME NEW i \in 1 .. Len(out'), out'[i].is = "started"
        PROVE  /\ out'[i].turn <= codex'.used
               /\ \A j \in 1 .. Len(out') :
                     out'[j].is = "started" /\ out'[j].turn = out'[i].turn => j = i
               /\ ~(Head(out).is = "started" /\ Head(out).turn = out'[i].turn)
    <3> DEFINE k == i + 1
    <3>1. k \in 1 .. Len(out) /\ k # 1 /\ out'[i] = out[k]
      BY <2>2
    <3>2. \A j \in 1 .. Len(out') : j + 1 = k => j = i
      BY <2>3
    <3> HIDE DEF k
    <3>3. /\ out[k].turn <= codex.used
          /\ \A j \in 1 .. Len(out) :
                 out[j].is = "started" /\ out[j].turn = out[k].turn => j = k
      BY <2>4, <3>1 DEF StartsOnce
    <3>4. \A j \in 1 .. Len(out') :
              out'[j].is = "started" /\ out'[j].turn = out'[i].turn => j = i
      BY <2>2, <3>1, <3>2, <3>3
    <3>5. 1 \in 1 .. Len(out)
      BY <2>1
    <3>6. ~(Head(out).is = "started" /\ Head(out).turn = out'[i].turn)
      BY <2>1, <3>1, <3>3, <3>5
    <3>7. QED
      BY <3>1, <3>3, <3>4, <3>6
  <2>5. StartsOnce'
    BY <2>4 DEF StartsOnce
  <2>6. ASSUME NEW t, NewTurn(t)'
        PROVE  NewTurn(t) /\ ~(Head(out).is = "started" /\ Head(out).turn = t)
    <3>1. CASE t > codex'.used
      <4>1. 1 \in 1 .. Len(out)
        BY <2>1
      <4>2. out[1].is = "started" => out[1].turn <= codex.used
        BY <4>1 DEF StartsOnce
      <4>3. t > codex.used
        BY <3>1
      <4>4. t \in Turns => ~(t <= codex.used)
        BY <1>1, <4>3, NoTurnIsNone
      <4>5. ~(t <= codex.used) => ~(Head(out).is = "started" /\ Head(out).turn = t)
        BY <2>1, <4>2
      <4>6. Head(out).is = "started" => Head(out).turn \in Turns
        BY <1>4, TailOf, HandledIs DEF Typed
      <4>7. QED
        BY <4>3, <4>4, <4>5, <4>6 DEF NewTurn
    <3>2. CASE StillToRead("started", t)'
      <4>1. PICK i \in 1 .. Len(out') : out'[i].is = "started" /\ out'[i].turn = t
        BY <3>2, StillReadNext
      <4>2. ~(Head(out).is = "started" /\ Head(out).turn = t)
        BY <2>4, <4>1
      <4>3. \E k \in 1 .. Len(out) : out[k] = out'[i]
        BY <2>2
      <4>4. StillToRead("started", t)
        BY <4>1, <4>3, StillReadIs
      <4>5. QED
        BY <4>2, <4>4 DEF NewTurn
    <3>3. QED
      BY <2>6, <3>1, <3>2 DEF NewTurn
  <2>7. QED
    BY <2>5, <2>6
<1>5. QED
  BY <1>2, <1>3, <1>4

(* A turn starts once, as the next one.                                    *)
LEMMA StartsWritten ==
    ASSUME Typed, Typed', StartsOnce, NEW l, Wrote(l),
           codex'.used >= codex.used,
           \A k \in 1 .. Len(l) : l[k].is = "started" =>
               /\ l[k].turn = codex'.used /\ codex'.used > codex.used
               /\ \A j \in 1 .. Len(l) : l[j].is = "started" => j = k
    PROVE  StartsOnce' /\ \A t \in Turns : NewTurn(t)' => NewTurn(t)
<1>1. /\ codex.used \in Nat /\ codex'.used \in Nat /\ Turns \subseteq Nat
      /\ out \in Seq(Lines) /\ l \in Seq(Lines) /\ out' = out \o l
  BY SeatConstantsOK, NoTurnIsNone DEF Typed, Wrote
<1>2. /\ Len(out) \in Nat
      /\ \A i \in 1 .. Len(out') :
             \/ i \in 1 .. Len(out) /\ out'[i] = out[i]
             \/ \E k \in 1 .. Len(l) : i = Len(out) + k /\ out'[i] = l[k]
  BY <1>1, WrittenSplit
<1>3. \A i \in 1 .. Len(out) : out[i].is = "started" => out[i].turn \in Turns
  BY <1>1, ElementOfSeq, HandledIs
<1>4. ASSUME NEW i \in 1 .. Len(out'), out'[i].is = "started"
      PROVE  /\ out'[i].turn <= codex'.used
             /\ \A j \in 1 .. Len(out') :
                   out'[j].is = "started" /\ out'[j].turn = out'[i].turn => j = i
             /\ out'[i].turn \in Turns => NewTurn(out'[i].turn)
  <2>1. CASE i \in 1 .. Len(out) /\ out'[i] = out[i]
    <3>1. /\ out[i].turn <= codex.used /\ out[i].turn \in Turns
          /\ \A j \in 1 .. Len(out) :
                 out[j].is = "started" /\ out[j].turn = out[i].turn => j = i
      BY <1>3, <1>4, <2>1 DEF StartsOnce
    <3>2. out[i].turn <= codex'.used /\ ~(codex'.used > codex.used /\ out[i].turn = codex'.used)
      BY <1>1, <3>1
    <3>3. ASSUME NEW j \in 1 .. Len(out'), out'[j].is = "started", out'[j].turn = out'[i].turn
          PROVE  j = i
      BY <1>2, <2>1, <3>1, <3>2, <3>3
    <3>4. NewTurn(out[i].turn)
      BY <1>4, <2>1, StillReadIs DEF NewTurn
    <3>5. QED
      BY <2>1, <3>2, <3>3, <3>4
  <2>2. ASSUME NEW k \in 1 .. Len(l), i = Len(out) + k, out'[i] = l[k]
        PROVE  /\ out'[i].turn <= codex'.used
               /\ \A j \in 1 .. Len(out') :
                     out'[j].is = "started" /\ out'[j].turn = out'[i].turn => j = i
               /\ out'[i].turn \in Turns => NewTurn(out'[i].turn)
    <3>1. /\ l[k].turn = codex'.used /\ codex'.used > codex.used
          /\ \A j \in 1 .. Len(l) : l[j].is = "started" => j = k
      BY <1>4, <2>2
    <3>2. \A j \in 1 .. Len(out) : out[j].is = "started" => out[j].turn # codex'.used
      <4>1. TAKE j \in 1 .. Len(out)
      <4>2. out[j].is = "started" => out[j].turn <= codex.used /\ out[j].turn \in Turns
        BY <1>3 DEF StartsOnce
      <4>3. QED
        BY <1>1, <3>1, <4>2
    <3>3. ASSUME NEW j \in 1 .. Len(out'), out'[j].is = "started", out'[j].turn = out'[i].turn
          PROVE  j = i
      <4>1. CASE j \in 1 .. Len(out) /\ out'[j] = out[j]
        BY <2>2, <3>1, <3>2, <3>3, <4>1
      <4>2. CASE \E m \in 1 .. Len(l) : j = Len(out) + m /\ out'[j] = l[m]
        BY <2>2, <3>1, <3>3, <4>2
      <4>3. QED
        BY <1>2, <4>1, <4>2
    <3>4. NewTurn(codex'.used)
      BY <3>1 DEF NewTurn
    <3>5. codex'.used <= codex'.used
      BY <1>1
    <3>6. QED
      BY <2>2, <3>1, <3>3, <3>4, <3>5
  <2>3. QED
    BY <1>2, <2>1, <2>2
<1>5. StartsOnce'
  BY <1>4 DEF StartsOnce
<1>6. ASSUME NEW t \in Turns, NewTurn(t)' PROVE NewTurn(t)
  <2>1. CASE t > codex'.used
    <3>1. t > codex.used
      BY <1>1, <2>1
    <3>2. QED
      BY <3>1 DEF NewTurn
  <2>2. CASE StillToRead("started", t)'
    <3>1. PICK i \in 1 .. Len(out') : out'[i].is = "started" /\ out'[i].turn = t
      BY <2>2, StillReadNext
    <3>2. QED
      BY <1>4, <3>1
  <2>3. QED
    BY <1>6, <2>1, <2>2 DEF NewTurn
<1>7. QED
  BY <1>5, <1>6

(* How the turns of a sink begin: all of the invariant but the leases.     *)
Begins ==
    /\ TurnsStartEmpty /\ StartsOnce /\ SteersAnswered
    /\ stage = "off" => \A t \in Turns : seat.held[t] = <<>>

LEMMA BeginsRead ==
    ASSUME Typed, Typed', OneReply', Begins, codex'.used = codex.used,
           out' = out \/ out' = <<>> \/ (out # <<>> /\ out' = Tail(out)),
           \A t \in Turns :
               /\ NewTurn(t) /\ Untouched(seat, t)
               /\ out # <<>> /\ out' = Tail(out) =>
                     ~(Head(out).is = "started" /\ Head(out).turn = t)
               => Untouched(seat', t),
           seat'.flight.at = "served" => seat'.flight = seat.flight,
           stage' = "off" => \A t \in Turns : seat'.held[t] = <<>>
    PROVE  Begins'
<1>1. /\ StartsOnce'
      /\ \A t : NewTurn(t)' =>
            /\ NewTurn(t)
            /\ out # <<>> /\ out' = Tail(out) =>
                  ~(Head(out).is = "started" /\ Head(out).turn = t)
  BY StartsRead DEF Begins
<1>2. \A t \in Turns : NewTurn(t)' => Untouched(seat', t)
  BY <1>1 DEF Begins, TurnsStartEmpty
<1>3. TurnsStartEmpty'
  BY <1>2 DEF TurnsStartEmpty, Untouched, AsksFor
<1>4. \A i \in 1 .. Len(out') : \E j \in 1 .. Len(out) : out'[i] = out[j]
  <2>1. CASE out' = out
    BY <2>1
  <2>2. CASE out' = <<>>
    <3>1. Len(out') = 0
      BY <2>2
    <3>2. QED
      BY <3>1
  <2>3. CASE out # <<>> /\ out' = Tail(out)
    <3>1. /\ Len(out') = Len(out) - 1 /\ Len(out) \in Nat
          /\ \A i \in 1 .. Len(out) - 1 : out'[i] = out[i + 1]
      BY <2>3, TailOf DEF Typed
    <3>2. \A i \in 1 .. Len(out') : i + 1 \in 1 .. Len(out) /\ out'[i] = out[i + 1]
      BY <3>1
    <3>3. QED
      BY <3>2
  <2>4. QED
    BY <2>1, <2>2, <2>3
<1>5. ASSUME NEW i \in 1 .. Len(out'), out'[i].is = "reply", out'[i].says = "ok",
             seat'.flight.ask = "steer"
      PROVE  out'[i].turn = seat'.flight.turn
  <2>1. seat'.flight = seat.flight
    BY <1>5 DEF OneReply
  <2>2. QED
    BY <1>4, <1>5, <2>1 DEF Begins, SteersAnswered
<1>6. QED
  BY <1>1, <1>3, <1>5 DEF Begins, SteersAnswered

LEMMA BeginsWritten ==
    ASSUME Typed, Typed', OneReply, Begins, NEW l, Wrote(l), codex'.used >= codex.used,
           \/ seat' = seat
           \/ seat.flight.at = "sent" /\ seat' = [seat EXCEPT !.flight.at = "served"],
           \A k \in 1 .. Len(l) : l[k].is = "started" =>
               /\ l[k].turn = codex'.used /\ codex'.used > codex.used
               /\ \A j \in 1 .. Len(l) : l[j].is = "started" => j = k,
           \A k \in 1 .. Len(l) :
               l[k].is = "reply" /\ l[k].says = "ok" /\ seat.flight.ask = "steer"
               => l[k].turn = seat.flight.turn,
           stage' = "off" => stage = "off"
    PROVE  Begins'
<1>1. /\ out \in Seq(Lines) /\ l \in Seq(Lines) /\ out' = out \o l /\ seat \in Seats
  BY DEF Typed, Wrote
<1>2. StartsOnce' /\ \A t \in Turns : NewTurn(t)' => NewTurn(t)
  BY StartsWritten DEF Begins
<1>3. /\ seat'.held = seat.held /\ seat'.turn = seat.turn
      /\ seat'.flight.ask = seat.flight.ask /\ seat'.flight.turn = seat.flight.turn
      /\ \/ seat'.flight = seat.flight
         \/ seat.flight.at = "sent" /\ seat'.flight.at = "served"
  BY <1>1 DEF Seats, Flights
<1>4. \A t : Untouched(seat, t) => Untouched(seat', t)
  BY <1>3 DEF Untouched, AsksFor
<1>5. TurnsStartEmpty'
  <2>1. \A t \in Turns : NewTurn(t)' => Untouched(seat', t)
    BY <1>2, <1>4 DEF Begins, TurnsStartEmpty
  <2>2. QED
    BY <2>1 DEF TurnsStartEmpty, Untouched, AsksFor
<1>6. \A i \in 1 .. Len(out') :
          \/ i \in 1 .. Len(out) /\ out'[i] = out[i]
          \/ \E k \in 1 .. Len(l) : i = Len(out) + k /\ out'[i] = l[k]
  BY <1>1, WrittenSplit
<1>7. SteersAnswered'
  BY <1>3, <1>6 DEF Begins, SteersAnswered
<1>8. QED
  BY <1>2, <1>3, <1>5, <1>7 DEF Begins

LEMMA BeginsMoves ==
    ASSUME Typed, Typed', OneReply, OneReply', DueInv, Begins,
           \/ PushMessage \/ LoseLink \/ LoopEnds \/ Subscribe \/ SweepTurn
           \/ Forward \/ Spawn \/ Stop \/ StopTurn \/ Close
           \/ ReadLine \/ Continue \/ Timer \/ UNCHANGED vars
    PROVE  Begins'
<1>1. Now \in Plans /\ Now.seat = seat
  BY NowTyped DEF Now
<1>2. CASE PushMessage \/ LoseLink \/ LoopEnds \/ Subscribe \/ SweepTurn \/ UNCHANGED vars
  <2>1. seat' = seat /\ out' = out /\ codex' = codex /\ stage' = stage
    BY <1>2 DEF PushMessage, LoseLink, LoopEnds, Subscribe, SweepTurn, seatVars, vars
  <2>2. QED
    BY <2>1, BeginsRead DEF Begins
<1>3. CASE Forward
  <2>1. /\ SameTurns(seat, seat') /\ seat'.flight = seat.flight
        /\ out' = out /\ codex' = codex /\ stage' = stage
    BY <1>3, ReceivedKeepsTurns
  <2>2. seat'.held = seat.held /\ seat'.turn = seat.turn
    BY <2>1 DEF SameTurns
  <2>3. \A t \in Turns : Untouched(seat, t) => Untouched(seat', t)
    BY <2>1, <2>2 DEF Untouched
  <2>4. QED
    BY <2>1, <2>2, <2>3, BeginsRead DEF Begins
<1>4. CASE Spawn \/ Close
  <2>1. /\ out' = <<>> /\ codex'.used = codex.used /\ seat'.turn = NoTurn
        /\ seat'.flight.at = "none" /\ \A t \in Turns : seat'.held[t] = <<>>
    <3>1. CASE Spawn
      BY <3>1 DEF Spawn, NewSeat, NoFlight, NewCodex
    <3>2. CASE Close
      BY <3>2 DEF Close, NewSeat, NoFlight, NewCodex
    <3>3. QED
      BY <1>4, <3>1, <3>2
  <2>2. \A t \in Turns : Untouched(seat', t)
    BY <2>1, NoTurnIsNone DEF Untouched, AsksFor
  <2>3. QED
    BY <2>1, <2>2, BeginsRead
<1>5. CASE StopTurn
  <2>1. seat' = seat /\ out' = out /\ codex' = codex /\ stage' = "interrupting"
    BY <1>5 DEF StopTurn
  <2>2. QED
    BY <2>1, BeginsRead
<1>6. CASE Stop \/ Timer
  <2>1. /\ seat' = Flushed(Now).seat /\ out' = out /\ codex' = codex
        /\ stage' = "off" => stage = "off"
    BY <1>6 DEF Stop, Timer, Become
  <2>2. \A t \in Turns : Untouched(seat, t) => Untouched(seat', t)
    BY <1>1, <2>1, UntouchedFlushed
  <2>3. /\ seat'.flight.at = "served" => seat'.flight = seat.flight
        /\ seat'.held = seat.held
    BY <1>1, <2>1, FlushedIs DEF Drains, SameTurns
  <2>4. QED
    BY <2>1, <2>2, <2>3, BeginsRead DEF Begins
<1>7. CASE Continue
  <2>1. /\ seat' = Answered(Now).seat /\ out' = out /\ codex' = codex
        /\ stage' = stage /\ seat.flight.at = "answered"
    BY <1>7 DEF Continue, Become
  <2>2. \A t \in Turns : Untouched(seat, t) => Untouched(seat', t)
    BY <1>1, <2>1, UntouchedAnswered
  <2>3. seat'.flight.at # "served"
    <3>1. CASE AsksAgain(Now, Answered(Now))
      BY <2>1, <3>1 DEF AsksAgain
    <3>2. ASSUME NEW e \in Plans, Answered(Now) = Finished(e)
          PROVE  seat'.flight.at # "served"
      <4> DEFINE q == Finished(e)
                 s == [e.seat EXCEPT !.flight = NoFlight]
      <4>1. q.seat.flight = NoFlight \/ Drains(s, e.net, q.seat, q.net)
        BY FinishedIs
      <4>2. s.flight = NoFlight /\ NoFlight.at = "none"
        BY DEF Plans, Seats, NoFlight
      <4> HIDE DEF q, s
      <4>3. q.seat.flight.at # "served"
        BY <4>1, <4>2 DEF Drains
      <4>4. QED
        BY <2>1, <3>2, <4>3 DEF q
    <3>3. QED
      BY <1>1, <2>1, <3>1, <3>2, AnsweredIs
  <2>4. stage' # "off"
    BY <2>1 DEF DueInv, SettledIn
  <2>5. QED
    BY <2>1, <2>2, <2>3, <2>4, BeginsRead
<1>8. CASE ReadLine
  <2> DEFINE l == Head(out)
             q == Handled(Now, l)
  <2>1. /\ out # <<>> /\ out' = Tail(out) /\ codex' = codex /\ seat' = q.seat
        /\ stage' \in {"closing", stage}
    BY <1>8 DEF ReadLine, Become
  <2>2. stage' # "off"
    BY <2>1 DEF DueInv, StagesInv
  <2>3. /\ l = out[1] /\ l \in Lines /\ Len(out) \in Nat /\ Len(out) >= 1
    BY <2>1, TailOf DEF Typed
  <2>4. l.is = "reply" => seat.flight.at = "served"
    BY <2>3 DEF OneReply
  <2>5. /\ l.is = "reply" /\ l.says = "ok" /\ seat.flight.ask = "steer"
             => l.turn = seat.flight.turn
    BY <2>3 DEF Begins, SteersAnswered
  <2>6. seat'.flight.at = "served" => seat'.flight = seat.flight
    <3>1. CASE l.is = "reply"
      <4>1. Handled(Now, l) = OnReply(Now, l)
        BY <2>3, <3>1, HandledIs
      <4> DEFINE w == OnReply(Now, l)
      <4>2. w.seat.flight = [seat.flight EXCEPT
                               !.at = "answered", !.says = l.says, !.turn = l.turn]
        BY <1>1, OnReplyIs
      <4> HIDE DEF w, l
      <4>3. w.seat.flight.at = "answered"
        BY <4>2 DEF Typed, Seats, Flights
      <4>4. QED
        BY <2>1, <4>1, <4>3 DEF w
    <3>2. CASE l.is # "reply" /\ l.is # "status"
      <4>1. SameBuffering(seat, q.seat)
        BY <1>1, <2>3, <3>2, QuietLines
      <4>2. QED
        BY <2>1, <4>1 DEF SameBuffering
    <3>3. CASE l.is = "status"
      <4>1. l.says \in Statuses \ {"notLoaded"} /\ q = OnStatus(Now, l.says)
        BY <2>3, <3>3, HandledIs
      <4>2. PICK e \in Plans : /\ OnStatus(Now, l.says) = Flushed(e)
                               /\ e.seat = [seat EXCEPT !.status = l.says]
        BY <1>1, <4>1, OnStatusIs
      <4>3. e.seat.flight = seat.flight
        BY <4>2 DEF Typed, Seats
      <4>4. Flushed(e).seat.flight.at = "served" => Flushed(e).seat.flight = e.seat.flight
        BY FlushedIs DEF Drains
      <4>5. QED
        BY <2>1, <4>1, <4>2, <4>3, <4>4
    <3>4. QED
      BY <3>1, <3>2, <3>3
  <2> HIDE DEF l
  <2>7. ASSUME NEW t \in Turns, Untouched(seat, t), ~(l.is = "started" /\ l.turn = t)
        PROVE  Untouched(seat', t)
    BY <1>1, <2>1, <2>3, <2>4, <2>5, <2>7, UntouchedHandled
  <2> HIDE DEF q
  <2>8. QED
    BY <2>1, <2>2, <2>6, <2>7, BeginsRead DEF l
<1>9. QED
  BY <1>2, <1>3, <1>4, <1>5, <1>6, <1>7, <1>8

LEMMA BeginsServed ==
    ASSUME Typed, Typed', OneReply, Begins,
           StartTurn \/ Steer \/ RefuseSteer \/ RefuseRequest
    PROVE  Begins'
<1>1. /\ seat.flight.at = "sent" /\ seat' = [seat EXCEPT !.flight.at = "served"]
      /\ stage' = stage /\ codex.used \in Nat
  BY SeatConstantsOK
  DEF StartTurn, Steer, RefuseSteer, RefuseRequest, Asked, Serve, Typed
<1>2. CASE StartTurn
  <2> DEFINE t == codex.used + 1
             a == <<Reply("ok", t), Started(t), Status("active")>>
             b == <<Status("active"), Started(t), Reply("ok", t)>>
  <2>1. /\ t \in Turns /\ codex' = [codex EXCEPT !.turn = t, !.used = t]
        /\ Wrote(a) \/ Wrote(b)
    BY <1>2, StartTurnWrites
  <2>2. seat.flight.ask = "start"
    BY <1>2 DEF StartTurn, Asked
  <2>3. /\ Started(t).is = "started" /\ Started(t).turn = t
        /\ Status("active").is = "status" /\ Reply("ok", t).is = "reply"
    BY DEF Started, Status, Reply, Line
  <2>4. /\ Len(a) = 3 /\ a[1].is # "started" /\ a[3].is # "started"
        /\ a[2].turn = t
        /\ Len(b) = 3 /\ b[1].is # "started" /\ b[3].is # "started"
        /\ b[2].turn = t
    BY <2>3, ShortLines
  <2>5. t > codex.used /\ t >= codex.used
    BY <1>1
  <2> HIDE DEF a, b, t
  <2>6. codex'.used = t
    BY <2>1 DEF Typed
  <2>7. ASSUME NEW l, Wrote(l), Len(l) = 3, l[1].is # "started", l[3].is # "started",
               l[2].turn = t
        PROVE  Begins'
    <3>1. \A k \in 1 .. Len(l) : l[k].is = "started" => k = 2
      BY <2>7
    <3>2. \A k \in 1 .. Len(l) : l[k].is = "started" =>
              /\ l[k].turn = codex'.used /\ codex'.used > codex.used
              /\ \A j \in 1 .. Len(l) : l[j].is = "started" => j = k
      BY <2>5, <2>6, <2>7, <3>1
    <3>3. QED
      BY <1>1, <2>2, <2>5, <2>6, <2>7, <3>2, BeginsWritten
  <2>8. QED
    BY <2>1, <2>4, <2>7
<1>3. CASE Steer \/ RefuseSteer \/ RefuseRequest
  <2>1. PICK says \in {"ok", "race", "failed"}, t \in Turns \cup {NoTurn} :
            /\ Wrote(<<Reply(says, t)>>)
            /\ says = "ok" => t = seat.flight.turn
    <3>1. Steer => codex.turn = seat.flight.turn
      BY DEF Steer
    <3>2. QED
      BY <1>3, <3>1, RequestsWrite
  <2> DEFINE l == <<Reply(says, t)>>
  <2>2. /\ Len(l) = 1 /\ l[1] = Reply(says, t) /\ Wrote(l)
    BY <2>1
  <2>3. /\ Reply(says, t).is = "reply" /\ Reply(says, t).says = says
        /\ Reply(says, t).turn = t
    BY DEF Reply, Line
  <2> HIDE DEF l
  <2>4. /\ \A k \in 1 .. Len(l) : l[k].is # "started"
        /\ \A k \in 1 .. Len(l) : l[k].says = "ok" => l[k].turn = seat.flight.turn
    BY <2>1, <2>2, <2>3
  <2>5. codex' = codex /\ codex'.used >= codex.used
    BY <1>1, <1>3 DEF Steer, RefuseSteer, RefuseRequest
  <2>6. QED
    BY <1>1, <2>2, <2>4, <2>5, BeginsWritten
<1>4. QED
  BY <1>2, <1>3

LEMMA BeginsTold ==
    ASSUME Typed, Typed', OneReply, Begins,
           EndTurn \/ FailTurn \/ Interrupt \/ UseTool \/ ReportError \/ Recover
    PROVE  Begins'
<1>1. seat' = seat /\ (stage' = "off" => stage = "off")
  BY DEF EndTurn, FailTurn, Interrupt, UseTool, ReportError, Recover
<1>2. codex'.used = codex.used /\ codex'.used >= codex.used
  <2>1. codex'.used = codex.used
    BY DEF EndTurn, FailTurn, Interrupt, UseTool, ReportError, Recover, Typed
  <2>2. codex.used \in Nat
    BY SeatConstantsOK DEF Typed
  <2>3. QED
    BY <2>1, <2>2
<1>3. /\ \A t : \A how : Completed(t, how).is = "completed"
      /\ \A s : Status(s).is = "status" /\ \A t : UsedTool(t).is = "acted"
      /\ \A is : Line(is).is = is
  BY DEF Completed, Status, UsedTool, Line
<1>4. \E a, b : /\ a.is \notin {"reply", "started"} /\ b.is \notin {"reply", "started"}
                /\ Wrote(<<a>>) \/ Wrote(<<a, b>>)
  <2>1. CASE EndTurn \/ FailTurn
    <3>1. PICK how \in {"completed", "failed"}, s \in {"idle", "systemError"} :
              \/ Wrote(<<Completed(codex.turn, how), Status(s)>>)
              \/ Wrote(<<Status(s), Completed(codex.turn, how)>>)
      BY <2>1, EndsWrite
    <3>2. /\ Completed(codex.turn, how).is \notin {"reply", "started"}
          /\ Status(s).is \notin {"reply", "started"}
      BY <1>3
    <3>3. QED
      BY <3>1, <3>2
  <2>2. CASE Interrupt
    <3>1. \/ Wrote(<<Line("interrupted")>>)
          \/ Wrote(<<Completed(codex.turn, "interrupted"), Line("interrupted")>>)
          \/ Wrote(<<Line("interrupted"), Completed(codex.turn, "interrupted")>>)
      BY <2>2, InterruptWrites
    <3>2. /\ Completed(codex.turn, "interrupted").is \notin {"reply", "started"}
          /\ Line("interrupted").is \notin {"reply", "started"}
      BY <1>3
    <3>3. QED
      BY <3>1, <3>2
  <2>3. CASE UseTool \/ ReportError \/ Recover
    <3>1. \/ Wrote(<<UsedTool(codex.turn)>>)
          \/ Wrote(<<Line("error")>>) \/ Wrote(<<Status("idle")>>)
      BY <2>3, NoticesWrite
    <3>2. /\ UsedTool(codex.turn).is \notin {"reply", "started"}
          /\ Line("error").is \notin {"reply", "started"}
          /\ Status("idle").is \notin {"reply", "started"}
      BY <1>3
    <3>3. QED
      BY <3>1, <3>2
  <2>4. QED
    BY <2>1, <2>2, <2>3
<1>5. PICK a, b : /\ a.is \notin {"reply", "started"} /\ b.is \notin {"reply", "started"}
                  /\ Wrote(<<a>>) \/ Wrote(<<a, b>>)
  BY <1>4
<1>6. PICK l : /\ Wrote(l)
               /\ \A k \in 1 .. Len(l) : l[k].is \notin {"reply", "started"}
  <2>1. PICK x, y : x = <<a>> /\ y = <<a, b>>
    OBVIOUS
  <2>2. /\ \A k \in 1 .. Len(x) : x[k].is \notin {"reply", "started"}
        /\ \A k \in 1 .. Len(y) : y[k].is \notin {"reply", "started"}
    BY <1>5, <2>1
  <2>3. QED
    BY <1>5, <2>1, <2>2
<1>7. QED
  BY <1>1, <1>2, <1>6, BeginsWritten

LEMMA LeaseInit == Init => LeaseInv
<1> SUFFICES ASSUME Init PROVE LeaseInv
  OBVIOUS
<1>1. Len(out) = 0 /\ out = <<>> /\ \A t : ~StillToRead("started", t)
  BY DEF Init, StillToRead
<1>2. /\ seat.turn = NoTurn /\ seat.flight.at = "none" /\ codex.used = 0
      /\ \A t \in Turns : seat.held[t] = <<>>
  BY DEF Init, NewSeat, NoFlight, NewCodex
<1>3. TurnsStartEmpty
  BY <1>2, NoTurnIsNone DEF TurnsStartEmpty, Untouched, AsksFor
<1>4. StartsOnce /\ SteersAnswered
  BY <1>1 DEF StartsOnce, SteersAnswered
<1>5. LeasedNet(stream, Kept(seat, cut, On(stream), late \cup lost))
  <2>1. /\ stream.link = "none" /\ stream.pend = <<>> /\ stream.active = FALSE
        /\ \A m \in Msgs : stream.row[m] = "none"
    BY DEF Init, StreamInit
  <2>2. \A kept : LeasesEnd(<<>>, kept)
    BY LeasesOf
  <2>3. QED
    BY <2>1, <2>2 DEF LeasedNet
<1>6. CutsAreOver
  BY DEF Init, CutsAreOver
<1>7. QED
  BY <1>2, <1>3, <1>4, <1>5, <1>6 DEF LeaseInv

LEMMA LeaseStep ==
    Typed /\ Typed' /\ OneReply /\ OneReply' /\ DueInv /\ LeaseInv /\ [Next]_vars
    => LeaseInv'
<1> SUFFICES ASSUME Typed, Typed', OneReply, OneReply', DueInv, LeaseInv, [Next]_vars
             PROVE  LeaseInv'
  OBVIOUS
<1>1. LeasedNet(stream, Kept(seat, cut, On(stream), late \cup lost))'
  BY LeasesStep
<1>2. Begins
  BY DEF LeaseInv, Begins
<1>3. Begins'
  BY <1>2, BeginsMoves, BeginsServed, BeginsTold DEF Next
<1>4. CutsAreOver'
  <2>1. CutsAreOver
    BY DEF LeaseInv
  <2>2. QED
    BY <2>1, CutsMoved, CutsServed, CutsTold DEF Next
<1>5. QED
  BY <1>1, <1>3, <1>4 DEF LeaseInv, Begins

(* A lease the broker still holds has an exit: the receipt is held for a   *)
(* turn that is still to end, or its agent was replaced and the turn is    *)
(* one that the broker has open and sweeps. The exceptions are a receipt   *)
(* that joined a turn already over or swept (late), and one that took its  *)
(* lease on a stream its turn was never reported on (lost). So a           *)
(* reconnect, a swept turn, a steer and the teardown of a stream that      *)
(* stays leave no message with a lease that nobody would give back.        *)
THEOREM LeasesAlwaysHaveAnExit == Spec => []LeasesHaveAnExit
<1> DEFINE Inv == Typed /\ OneReply /\ DueInv /\ ReachInv /\ LeaseInv
<1>1. Init => Inv
  BY TypedInit, DueInit, ReachInit, LeaseInit
<1>2. Inv /\ [Next]_vars => Inv'
  BY TypedStep, OneReplyStep, DueStep, ReachStep, LeaseStep
<1>3. Spec => []Inv
  BY <1>1, <1>2, PTL DEF Spec
<1>4. Inv => LeasesHaveAnExit
  <2> HIDE DEF Inv
  <2> SUFFICES ASSUME Inv, NEW m \in Msgs, stream.row[m] = "accepted",
                      ~\E r \in late \cup lost : r[1] = m
               PROVE  \/ \E t \in Turns : /\ \E r \in ToSet(seat.held[t]) : r[1] = m
                                        /\ (codex.turn = t \/ StillToRead("completed", t))
                      \/ \E t \in stream.open : \E r \in cut[t] : r[1] = m
    BY DEF LeasesHaveAnExit
  <2> USE DEF Inv
  <2>1. /\ m \in Kept(seat, cut, On(stream), late \cup lost)
        /\ stream.link = "up" /\ stream.active
    BY DEF LeaseInv, LeasedNet
  <2>2. On(stream) = stream.open /\ stream.open \subseteq Turns
    BY <2>1 DEF On, Typed, Streams
  <2>3. PICK t \in stream.open : \E r \in ToSet(seat.held[t]) \cup cut[t] : r[1] = m
    BY <2>1, <2>2 DEF Kept
  <2>4. CASE \E r \in cut[t] : r[1] = m
    BY <2>4
  <2>5. CASE \E r \in ToSet(seat.held[t]) : r[1] = m
    <3>1. t \in Turns /\ ~(ToSet(seat.held[t]) \subseteq late)
      BY <2>2, <2>5
    <3>2. codex.turn = t \/ StillToRead("completed", t)
      BY <3>1 DEF ReachInv, ReceiptsReachTheirTurn
    <3>3. QED
      BY <2>5, <3>1, <3>2
  <2>6. QED
    BY <2>3, <2>4, <2>5
<1>5. QED
  BY <1>3, <1>4, PTL
=============================================================================
