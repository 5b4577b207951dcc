------------------------ MODULE NotificationsProofs ------------------------
(***************************************************************************)
(* Proofs about Notifications, for any members, channels, receipts and     *)
(* options, any number of requests and of ends of the process: the module's *)
(* state is well typed, nothing waits in the queue for what has already    *)
(* happened, a delivery goes to each target once for each mention of it,   *)
(* and what says `pending` is held.                                        *)
(***************************************************************************)
EXTENDS Notifications, SequenceTheorems, FiniteSetTheorems, TLAPS

-----------------------------------------------------------------------------
(* What a handler may have planned: what it does to receipts, it does to   *)
(* those that are there; only "take" is about rows of the queue; a dispatch *)
(* has a target.                                                           *)

There(r) == r.st \notin {"none", "gone"}

GoodStatement(s, rows) ==
    /\ s \in StatementRecords
    /\ \A d \in s.ids : There(rows[d])
    /\ s.op # "take" => s.rows = {}
    /\ s.op \in {"target", "force"} => s.to \in Members \cup Channels

GoodPlan(p, rows) ==
    /\ p \in Seq(StatementRecords)
    /\ \A k \in 1 .. Len(p) : GoodStatement(p[k], rows)

(* What a row of the queue waits for has happened.                         *)
Stale(q) ==
    /\ conn[q.to] \in {"legacy", "runner"}
    /\ q.why = "offline" \/ act[q.to] = "resting"

QueueHolds == \A q \in queue : q.ids # {} /\ \A d \in q.ids : Kept(d)

(* The inductive invariant: a row whose wait is over is about to be taken  *)
(* by the handler that runs.                                               *)
StaleIsTaken ==
    \A q \in queue : Stale(q) => up /\ todo # <<>> /\ q \in Head(todo).rows

DownIsEmpty == ~up => todo = <<>> /\ \A m \in Members : conn[m] = "away"

IInv ==
    /\ TypeOK
    /\ QueueHolds
    /\ GoodPlan(todo, row)
    /\ StaleIsTaken
    /\ DownIsEmpty

-----------------------------------------------------------------------------
(* Plans.                                                                  *)

LEMMA GoodEmpty == \A rows : GoodPlan(<<>>, rows)
  BY DEF GoodPlan

LEMMA GoodConcat ==
    ASSUME NEW rows, NEW a, NEW b, GoodPlan(a, rows), GoodPlan(b, rows)
    PROVE  GoodPlan(a \o b, rows)
<1>1. a \in Seq(StatementRecords) /\ b \in Seq(StatementRecords)
  BY DEF GoodPlan
<1>2. /\ a \o b \in Seq(StatementRecords)
      /\ Len(a \o b) = Len(a) + Len(b)
      /\ \A k \in 1 .. Len(a) + Len(b) :
           (a \o b)[k] = IF k <= Len(a) THEN a[k] ELSE b[k - Len(a)]
  BY <1>1, ConcatProperties
<1>3. Len(a) \in Nat /\ Len(b) \in Nat
  BY <1>1, LenProperties
<1>4. ASSUME NEW k \in 1 .. Len(a \o b)
      PROVE  GoodStatement((a \o b)[k], rows)
  <2>1. CASE k <= Len(a)
    <3>1. k \in 1 .. Len(a) /\ (a \o b)[k] = a[k]
      BY <1>2, <1>3, <2>1
    <3>2. QED
      BY <3>1 DEF GoodPlan
  <2>2. CASE ~(k <= Len(a))
    <3>1. k - Len(a) \in 1 .. Len(b) /\ (a \o b)[k] = b[k - Len(a)]
      BY <1>2, <1>3, <2>2
    <3>2. QED
      BY <3>1 DEF GoodPlan
  <2>3. QED
    BY <2>1, <2>2
<1>5. QED
  BY <1>2, <1>4 DEF GoodPlan

LEMMA GoodOne ==
    ASSUME NEW rows, NEW s, GoodStatement(s, rows)
    PROVE  GoodPlan(<<s>>, rows)
  BY DEF GoodPlan, GoodStatement

LEMMA GoodUpdate ==
    ASSUME NEW rows, NEW ids \in SUBSET Receipts, \A d \in ids : There(rows[d]),
           NEW op \in Operations \ {"target", "force"}
    PROVE  GoodPlan(Update(op, ids), rows)
<1>1. GoodStatement(Statement(op, ids, {}, NoTarget), rows)
  BY DEF GoodStatement, Statement, StatementRecords
<1>2. QED
  BY <1>1, GoodOne, GoodEmpty DEF Update

LEMMA GoodTake ==
    ASSUME NEW rows, NEW taken \in SUBSET QueueRows
    PROVE  GoodPlan(Take(taken), rows)
<1>1. GoodStatement(Statement("take", {}, taken, NoTarget), rows)
  BY DEF GoodStatement, Statement, StatementRecords, Operations
<1>2. QED
  BY <1>1, GoodOne, GoodEmpty DEF Take

LEMMA GoodDispatch ==
    ASSUME NEW rows, NEW ids \in SUBSET Receipts, \A d \in ids : There(rows[d]),
           NEW targets \in Seq(Members \cup Channels), NEW op \in {"target", "force"}
    PROVE  GoodPlan(Dispatch(ids, targets, op), rows)
<1> DEFINE p == [k \in 1 .. Len(targets) |-> Statement(op, ids, {}, targets[k])]
<1>1. Len(targets) \in Nat /\ \A k \in 1 .. Len(targets) : targets[k] \in Members \cup Channels
  BY LenProperties, ElementOfSeq
<1>2. \A k \in 1 .. Len(targets) : GoodStatement(p[k], rows)
  BY <1>1 DEF GoodStatement, Statement, StatementRecords, Operations
<1>3. p \in Seq(StatementRecords) /\ Len(p) = Len(targets)
  <2>1. \A k \in 1 .. Len(targets) : p[k] \in StatementRecords
    BY <1>2 DEF GoodStatement
  <2>2. QED
    BY <1>1, <2>1, IsASeq, LenProperties
<1>4. GoodPlan(p, rows)
  BY <1>2, <1>3 DEF GoodPlan
<1>5. GoodPlan(Update("first", ids), rows)
  BY GoodUpdate DEF Operations
<1>6. GoodPlan(p \o Update("first", ids), rows)
  BY <1>4, <1>5, GoodConcat
<1>7. QED
  BY <1>6, GoodEmpty DEF Dispatch

LEMMA GoodSplit ==
    ASSUME NEW rows, NEW p, GoodPlan(p, rows), p # <<>>
    PROVE  GoodStatement(Head(p), rows) /\ GoodPlan(Tail(p), rows)
<1>1. p \in Seq(StatementRecords)
  BY DEF GoodPlan
<1>2. /\ Len(p) \in Nat \ {0} /\ Head(p) = p[1]
      /\ Tail(p) \in Seq(StatementRecords) /\ Len(Tail(p)) = Len(p) - 1
      /\ \A k \in 1 .. Len(p) - 1 : Tail(p)[k] = p[k + 1]
  BY <1>1, HeadTailProperties, EmptySeq, LenProperties
<1>3. \A k \in 1 .. Len(p) - 1 : GoodStatement(Tail(p)[k], rows)
  BY <1>2 DEF GoodPlan
<1>4. QED
  BY <1>2, <1>3 DEF GoodPlan

(* A plan stays good when no receipt it is about goes.                     *)
LEMMA GoodStays ==
    ASSUME NEW p, NEW rows, NEW after, GoodPlan(p, rows),
           \A d \in Receipts : There(rows[d]) => There(after[d])
    PROVE  GoodPlan(p, after)
<1>1. ASSUME NEW k \in 1 .. Len(p) PROVE GoodStatement(p[k], after)
  BY DEF GoodPlan, GoodStatement, StatementRecords
<1>2. QED
  BY <1>1 DEF GoodPlan

-----------------------------------------------------------------------------
(* What handlers plan.                                                     *)

RowTable == [Receipts -> DeliveryRows(Len(sent))]
Reasons == [Receipts -> SUBSET {"halt", "endpoint", "retired"}]

LEMMA StillKeptIsThere ==
    ASSUME NEW rows, NEW ids
    PROVE  StillKept(rows, ids) \subseteq ids /\ \A d \in StillKept(rows, ids) : There(rows[d])
  BY DEF StillKept, There

LEMMA TargetsOK ==
    ASSUME TypeOK
    PROVE  setup.targets \in Seq(Members \cup Channels) /\ setup.receipts \subseteq Receipts
           /\ setup.clients \subseteq {"observer", "legacy", "runner"}
  BY NotificationConstantsOK DEF TypeOK

LEMMA GoodToTargets ==
    ASSUME TypeOK, NEW rows, NEW ids \in SUBSET Receipts
    PROVE  GoodPlan(ToTargets(rows, ids), rows)
<1> DEFINE kept == StillKept(rows, ids)
<1>1. kept \in SUBSET Receipts /\ \A d \in kept : There(rows[d])
  BY StillKeptIsThere
<1> HIDE DEF kept
<1>2. GoodPlan(Dispatch(kept, setup.targets, "target"), rows)
  BY <1>1, TargetsOK, GoodDispatch
<1>3. QED
  BY <1>2, GoodEmpty DEF ToTargets, kept

LEMMA NamedType ==
    ASSUME NEW rows \in SUBSET QueueRows
    PROVE  Named(rows) \in SUBSET Receipts
  BY DEF Named, QueueRows

LEMMA GoodFlush ==
    ASSUME NEW taken \in SUBSET QueueRows, NEW m \in Members
    PROVE  GoodPlan(FlushPending(taken, m), row)
<1> DEFINE kept == StillKept(row, Named(taken))
<1>1. kept \in SUBSET Receipts /\ \A d \in kept : There(row[d])
  BY StillKeptIsThere, NamedType
<1>2. <<m>> \in Seq(Members \cup Channels)
  OBVIOUS
<1> HIDE DEF kept
<1>3. GoodPlan(Dispatch(kept, <<m>>, "force"), row)
  BY <1>1, <1>2, GoodDispatch
<1> DEFINE b == IF endpoint = "live" THEN Dispatch(kept, <<m>>, "force") ELSE <<>>
<1>4. GoodPlan(b, row)
  BY <1>3, GoodEmpty
<1>5. GoodPlan(Take(taken), row)
  BY GoodTake
<1> HIDE DEF b
<1>6. GoodPlan(Take(taken) \o b, row)
  BY <1>4, <1>5, GoodConcat
<1>7. QED
  BY <1>6 DEF FlushPending, b, kept

(* A flush begins with taking the rows it is about.                        *)
LEMMA TakesFirst ==
    ASSUME NEW taken \in SUBSET QueueRows, taken # {}, NEW rest \in Seq(StatementRecords)
    PROVE  Take(taken) \o rest # <<>> /\ Head(Take(taken) \o rest).rows = taken
<1> DEFINE s == Statement("take", {}, taken, NoTarget)
<1>1. s \in StatementRecords /\ s.rows = taken
  BY DEF Statement, StatementRecords, Operations
<1>2. Take(taken) = <<s>>
  BY DEF Take
<1> HIDE DEF s
<1>3. /\ <<s>> \o rest \in Seq(StatementRecords)
      /\ Len(<<s>> \o rest) = 1 + Len(rest)
      /\ (<<s>> \o rest)[1] = s
  <2>1. <<s>> \in Seq(StatementRecords) /\ Len(<<s>>) = 1 /\ <<s>>[1] = s
    BY <1>1
  <2>2. Len(rest) \in Nat
    BY LenProperties
  <2>3. QED
    BY <2>1, <2>2, ConcatProperties
<1>4. <<s>> \o rest # <<>> /\ Head(<<s>> \o rest) = s
  BY <1>3, LenProperties, EmptySeq, HeadTailProperties
<1>5. QED
  BY <1>1, <1>2, <1>4

LEMMA FlushTakes ==
    ASSUME NEW taken \in SUBSET QueueRows, taken # {}, NEW m \in Members
    PROVE  FlushPending(taken, m) # <<>> /\ Head(FlushPending(taken, m)).rows = taken
<1> DEFINE kept == StillKept(row, Named(taken))
           b == IF endpoint = "live" THEN Dispatch(kept, <<m>>, "force") ELSE <<>>
<1>1. kept \in SUBSET Receipts /\ \A d \in kept : There(row[d])
  BY StillKeptIsThere, NamedType
<1>2. <<m>> \in Seq(Members \cup Channels)
  OBVIOUS
<1> HIDE DEF kept
<1>3. GoodPlan(Dispatch(kept, <<m>>, "force"), row)
  BY <1>1, <1>2, GoodDispatch
<1>4. b \in Seq(StatementRecords)
  BY <1>3, GoodEmpty DEF GoodPlan
<1> HIDE DEF b
<1>5. FlushPending(taken, m) = Take(taken) \o b
  BY DEF FlushPending, b, kept
<1>6. QED
  BY <1>4, <1>5, TakesFirst

LEMMA ExcusedType ==
    ASSUME TypeOK
    PROVE  /\ \A why \in {"halt", "endpoint", "retired"} : \A ids : Excused(why, ids) \in Reasons
           /\ \A ids : ExcusedIfDeleted(ids) \in Reasons
           /\ \A d : ExcusedIfRetired(d) \in Reasons
<1>1. \A why \in {"halt", "endpoint", "retired"} : \A ids : Excused(why, ids) \in Reasons
  BY DEF TypeOK, Excused, Reasons
<1>2. excuse \in Reasons
  BY DEF TypeOK, Reasons
<1>3. QED
  BY <1>1, <1>2 DEF ExcusedIfDeleted, ExcusedIfRetired

LEMMA LocalType == NothingDone \in [msgs : SUBSET (1..Len(sent)), acked : BOOLEAN, queued : BOOLEAN]
  BY DEF NothingDone

-----------------------------------------------------------------------------
(* The table.                                                              *)

LEMMA TrimmedType ==
    ASSUME TypeOK, NEW old
    PROVE  Trimmed(old) \in RowTable
           /\ \A d \in Receipts : d \notin old => Trimmed(old)[d] = row[d]
<1>1. NoRow \in DeliveryRows(Len(sent))
  BY NotificationConstantsOK DEF NoRow, DeliveryRows, Statuses
<1>2. \A d \in Receipts : [NoRow EXCEPT !.st = "gone", !.copy = row[d].copy]
                            \in DeliveryRows(Len(sent))
  BY <1>1 DEF TypeOK, DeliveryRows, Statuses
<1>3. QED
  BY <1>2 DEF TypeOK, Trimmed, RowTable

LEMMA TrimQueueKeeps ==
    ASSUME TypeOK, QueueHolds, NEW old, TrimQueue(old),
           \A d \in Receipts : d \notin old /\ Kept(d) => There(row'[d])
    PROVE  /\ queue' \subseteq QueueRows
           /\ \A q \in queue' : q.ids # {} /\ \A d \in q.ids : There(row'[d])
           /\ \A q \in queue' : \E r \in queue : q.to = r.to /\ q.why = r.why
<1>1. ASSUME NEW q \in queue'
      PROVE  /\ q \in QueueRows /\ q.ids # {} /\ (\A d \in q.ids : There(row'[d]))
             /\ \E r \in queue : q.to = r.to /\ q.why = r.why
  <2>1. PICK r \in queue : q = [r EXCEPT !.ids = @ \ old] /\ q.ids # {}
    BY DEF TrimQueue
  <2>2. r \in QueueRows
    BY DEF TypeOK
  <2>3. q \in QueueRows /\ q.ids = r.ids \ old /\ q.to = r.to /\ q.why = r.why
    BY <2>1, <2>2 DEF QueueRows
  <2>4. \A d \in q.ids : d \in Receipts /\ d \notin old /\ Kept(d)
    BY <2>2, <2>3 DEF QueueRows, QueueHolds
  <2>5. QED
    BY <2>1, <2>3, <2>4
<1>2. QED
  BY <1>1

LEMMA InsertKeeps ==
    ASSUME TypeOK, QueueHolds, NEW d \in Receipts, NEW o \in Options, NEW copy \in BOOLEAN,
           Insert(d, o, copy)
    PROVE  /\ row' \in RowTable /\ There(row'[d])
           /\ clock' \in Nat
           /\ queue' \subseteq QueueRows
           /\ \A q \in queue' : q.ids # {} /\ \A x \in q.ids : There(row'[x])
           /\ \A q \in queue' : \E r \in queue : q.to = r.to /\ q.why = r.why
<1>1. PICK old : row' = Inserted(old, d, o, copy) /\ TrimQueue(old)
  BY DEF Insert
<1> DEFINE new == [st |-> "pending", debouncing |-> FALSE, opt |-> o, msgs |-> {},
                   copy |-> copy, at |-> clock + 1]
<1>2. clock \in Nat /\ clock + 1 \in Nat /\ clock' \in Nat
  BY DEF TypeOK, Insert
<1>3. new \in DeliveryRows(Len(sent)) /\ There(new)
  BY <1>2 DEF DeliveryRows, Statuses, There
<1>4. row' = [Trimmed(old) EXCEPT ![d] = new]
  BY <1>1 DEF Inserted
<1> HIDE DEF new
<1>5. row' \in RowTable /\ row'[d] = new
      /\ \A x \in Receipts : x # d => row'[x] = Trimmed(old)[x]
  BY <1>3, <1>4, TrimmedType DEF RowTable
<1>6. \A x \in Receipts : x \notin old /\ Kept(x) => There(row'[x])
  BY <1>3, <1>5, TrimmedType DEF Kept, There
<1>7. QED
  BY <1>1, <1>2, <1>3, <1>5, <1>6, TrimQueueKeeps

LEMMA PipelineKeeps ==
    ASSUME TypeOK, NEW rows, NEW d \in Receipts, There(rows[d]), Pipeline(rows, d)
    PROVE  /\ buffer' \subseteq Receipts
           /\ GoodPlan(todo', rows)
           /\ local' = NothingDone
           /\ excuse' \in Reasons
<1> DEFINE group == buffer \cup {d}
<1>1. group \in SUBSET Receipts
  BY DEF TypeOK
<1>2. GoodPlan(Dispatch({d}, setup.targets, "target"), rows)
  BY TargetsOK, GoodDispatch
<1>3. GoodPlan(Update("debouncing", {d}), rows)
  BY GoodUpdate DEF Operations
<1>4. GoodPlan(ToTargets(rows, group), rows)
  BY <1>1, GoodToTargets
<1>5. GoodPlan(Update("debouncing", {d}) \o ToTargets(rows, group), rows)
  BY <1>3, <1>4, GoodConcat
<1>6. GoodPlan(todo', rows) /\ local' = NothingDone
  BY <1>2, <1>3, <1>5, Zenon DEF Pipeline, Plan
<1>7. buffer' \subseteq Receipts
  BY <1>1 DEF Pipeline, TypeOK
<1>8. excuse' \in Reasons
  <2>1. ExcusedIfRetired(d) \in Reasons
    BY ExcusedType
  <2>2. ExcusedIfDeleted(group) \in Reasons
    BY ExcusedType
  <2>3. [x \in Receipts |-> ExcusedIfRetired(d)[x] \cup ExcusedIfDeleted(group)[x]] \in Reasons
    BY <2>1, <2>2 DEF Reasons
  <2>4. QED
    BY <2>1, <2>3, Zenon DEF Pipeline
<1>9. QED
  BY <1>6, <1>7, <1>8

-----------------------------------------------------------------------------
(* The steps: the state's invariant is kept by each.                       *)

LEMMA NoneStale ==
    ASSUME IInv, Quiet
    PROVE  \A q \in queue : ~Stale(q)
  BY DEF IInv, StaleIsTaken, Quiet

LEMMA StillNoneStale ==
    ASSUME IInv, Quiet, UNCHANGED peerVars,
           \A q \in queue' : \E r \in queue : q.to = r.to /\ q.why = r.why
    PROVE  StaleIsTaken'
<1>1. \A q \in queue' : ~Stale(q)'
  BY NoneStale DEF Stale, peerVars
<1>2. QED
  BY <1>1 DEF StaleIsTaken

LEMMA AskKeeps ==
    ASSUME IInv, NEW d \in Receipts, Ask(d) \/ Duplicate(d)
    PROVE  IInv'
<1>1. hook' \in [Receipts -> Nat] /\ asks' \in 0..MaxAsks
  <2>1. hook \in [Receipts -> Nat] /\ asks \in 0..MaxAsks /\ MaxAsks \in Nat
    BY NotificationConstantsOK DEF IInv, TypeOK
  <2>2. CASE Ask(d)
    BY <2>1, <2>2 DEF Ask
  <2>3. CASE Duplicate(d)
    BY <2>1, <2>3 DEF Duplicate, processVars
  <2>4. QED
    BY <2>2, <2>3
<1>2. UNCHANGED <<setup, up, halts, endpoint, clock, row, queue, buffer, sent, conn, act,
                  todo, local, excuse>>
  BY DEF Ask, Duplicate, processVars, peerVars
<1>3. TypeOK'
  BY <1>1, <1>2 DEF IInv, TypeOK
<1>4. QueueHolds' /\ GoodPlan(todo, row)' /\ StaleIsTaken' /\ DownIsEmpty'
  BY <1>2 DEF IInv, QueueHolds, Kept, StaleIsTaken, Stale, DownIsEmpty
<1>5. QED
  BY <1>3, <1>4 DEF IInv

LEMMA InsertStep ==
    ASSUME IInv, Quiet, NEW d \in Receipts, NEW o \in Options, NEW copy \in BOOLEAN,
           Insert(d, o, copy),
           hook' \in [Receipts -> Nat], asks' \in 0..MaxAsks,
           buffer' \in SUBSET Receipts, GoodPlan(todo', row'), local' = NothingDone,
           excuse' \in Reasons,
           UNCHANGED <<setup, up, halts, endpoint, sent, peerVars>>
    PROVE  IInv'
<1>1. /\ row' \in RowTable /\ clock' \in Nat /\ queue' \subseteq QueueRows
      /\ \A q \in queue' : q.ids # {} /\ \A x \in q.ids : There(row'[x])
      /\ \A q \in queue' : \E r \in queue : q.to = r.to /\ q.why = r.why
  BY InsertKeeps DEF IInv
<1>2. TypeOK'
  BY <1>1, LocalType DEF IInv, TypeOK, RowTable, Reasons, GoodPlan, peerVars
<1>3. QueueHolds'
  BY <1>1 DEF QueueHolds, Kept, There
<1>4. StaleIsTaken'
  BY <1>1, StillNoneStale
<1>5. DownIsEmpty'
  BY DEF DownIsEmpty, Quiet
<1>6. QED
  BY <1>2, <1>3, <1>4, <1>5 DEF IInv

LEMMA AcceptKeeps ==
    ASSUME IInv, NEW d \in Receipts, NEW o \in Options, Accept(d, o)
    PROVE  IInv'
<1>1. Quiet /\ Insert(d, o, FALSE) /\ Pipeline(row', d)
      /\ UNCHANGED <<setup, up, halts, endpoint, sent, peerVars>>
  BY DEF Accept
<1>2. hook' \in [Receipts -> Nat] /\ asks' \in 0..MaxAsks
  BY DEF Accept, IInv, TypeOK
<1>3. There(row'[d])
  BY <1>1, InsertKeeps DEF IInv
<1>4. buffer' \subseteq Receipts /\ GoodPlan(todo', row') /\ local' = NothingDone
      /\ excuse' \in Reasons
  BY <1>1, <1>3, PipelineKeeps DEF IInv
<1>5. QED
  BY <1>1, <1>2, <1>4, InsertStep

LEMMA FilterKeeps ==
    ASSUME IInv, NEW d \in Receipts, Filter(d)
    PROVE  IInv'
<1>1. Quiet /\ Insert(d, Own, FALSE) /\ Own \in Options
      /\ UNCHANGED <<setup, up, halts, endpoint, sent, peerVars>>
  BY NotificationConstantsOK DEF Filter
<1>2. hook' \in [Receipts -> Nat] /\ asks' \in 0..MaxAsks /\ buffer' \in SUBSET Receipts
  BY DEF Filter, IInv, TypeOK
<1>3. There(row'[d])
  BY <1>1, InsertKeeps DEF IInv
<1>4. GoodPlan(Update("filtered", {d}), row')
  BY <1>3, GoodUpdate DEF Operations
<1>5. GoodPlan(todo', row') /\ local' = NothingDone
  BY <1>4 DEF Filter, Plan
<1>6. excuse' \in Reasons
  BY ExcusedType DEF Filter, IInv
<1>7. QED
  BY <1>1, <1>2, <1>5, <1>6, InsertStep

LEMMA ReplayKeeps ==
    ASSUME IInv, NEW d \in Receipts, NEW copy \in Receipts, Replay(d, copy)
    PROVE  IInv'
<1>1. Quiet /\ Insert(copy, Own, TRUE) /\ Pipeline(row', copy) /\ Own \in Options
      /\ UNCHANGED <<setup, up, halts, endpoint, sent, peerVars>>
  BY NotificationConstantsOK DEF Replay
<1>2. hook' \in [Receipts -> Nat] /\ asks' \in 0..MaxAsks
  BY NotificationConstantsOK DEF Replay, IInv, TypeOK
<1>3. There(row'[copy])
  BY <1>1, InsertKeeps DEF IInv
<1>4. buffer' \subseteq Receipts /\ GoodPlan(todo', row') /\ local' = NothingDone
      /\ excuse' \in Reasons
  BY <1>1, <1>3, PipelineKeeps DEF IInv
<1>5. QED
  BY <1>1, <1>2, <1>4, InsertStep

LEMMA RejectKeeps ==
    ASSUME IInv, NEW d \in Receipts, Reject(d)
    PROVE  IInv'
<1>1. hook' \in [Receipts -> Nat] /\ todo = <<>> /\ todo' = <<>> /\ Quiet
      /\ row' = Trimmed(Oldest) /\ TrimQueue(Oldest)
      /\ UNCHANGED <<setup, up, halts, endpoint, asks, clock, buffer, sent, conn, act, local,
                     excuse>>
  BY DEF Reject, IInv, TypeOK, Quiet, processVars, peerVars
<1>2. row' \in RowTable /\ \A x \in Receipts : x \notin Oldest /\ Kept(x) => There(row'[x])
  BY <1>1, TrimmedType DEF IInv, Kept, There
<1>3. /\ queue' \subseteq QueueRows
      /\ \A q \in queue' : q.ids # {} /\ \A x \in q.ids : There(row'[x])
      /\ \A q \in queue' : \E r \in queue : q.to = r.to /\ q.why = r.why
  BY <1>1, <1>2, TrimQueueKeeps DEF IInv
<1>4. TypeOK'
  BY <1>1, <1>2, <1>3 DEF IInv, TypeOK, RowTable
<1>5. QueueHolds'
  BY <1>3 DEF QueueHolds, Kept, There
<1>6. GoodPlan(todo, row)'
  BY <1>1, GoodEmpty
<1>7. StaleIsTaken'
  BY <1>1, <1>3, StillNoneStale DEF peerVars
<1>8. DownIsEmpty'
  BY <1>1 DEF DownIsEmpty, Quiet
<1>9. QED
  BY <1>4, <1>5, <1>6, <1>7, <1>8 DEF IInv

(* A handler that plans, and changes neither receipts nor the queue.       *)
LEMMA PlanStep ==
    ASSUME IInv, up, GoodPlan(todo', row), local' = NothingDone,
           buffer' \in SUBSET Receipts, excuse' \in Reasons, sent' \in Seq(Messages),
           Len(sent') = Len(sent),
           conn' \in [Members -> Connections], act' \in [Members -> {"resting", "working", "lapsed"}],
           StaleIsTaken',
           UNCHANGED <<processVars, hook, row, queue>>
    PROVE  IInv'
<1>1. TypeOK'
  BY LocalType DEF IInv, TypeOK, Reasons, GoodPlan, processVars
<1>2. QueueHolds'
  BY DEF IInv, QueueHolds, Kept
<1>3. GoodPlan(todo, row)' /\ DownIsEmpty'
  BY DEF DownIsEmpty, processVars
<1>4. QED
  BY <1>1, <1>2, <1>3 DEF IInv

LEMMA FlushDebounceKeeps ==
    ASSUME IInv, FlushDebounce
    PROVE  IInv'
<1>1. GoodPlan(ToTargets(row, buffer), row)
  BY GoodToTargets DEF IInv, TypeOK
<1>2. GoodPlan(todo', row) /\ local' = NothingDone /\ up /\ buffer' \in SUBSET Receipts
  BY <1>1 DEF FlushDebounce, Plan, Quiet
<1>3. excuse' \in Reasons
  BY ExcusedType DEF FlushDebounce, IInv
<1>4. StaleIsTaken'
  BY StillNoneStale DEF FlushDebounce
<1>5. UNCHANGED <<processVars, hook, row, queue, sent, conn, act>>
  BY DEF FlushDebounce, peerVars
<1>6. QED
  BY <1>2, <1>3, <1>4, <1>5, PlanStep DEF IInv, TypeOK

(* A handler that begins with taking rows: those of one member or those due. *)
LEMMA FlushKeeps ==
    ASSUME IInv, Quiet, NEW taken \in SUBSET queue, NEW m \in Members, Flush(taken, m),
           buffer' = buffer, sent' \in Seq(Messages), Len(sent') = Len(sent),
           conn' \in [Members -> Connections], act' \in [Members -> {"resting", "working", "lapsed"}],
           UNCHANGED <<processVars, hook, row, queue>>,
           \A q \in queue : Stale(q)' => q \in taken
    PROVE  IInv'
<1>1. taken \in SUBSET QueueRows /\ buffer' \in SUBSET Receipts /\ up
  BY DEF IInv, TypeOK, Quiet
<1>2. todo' = FlushPending(taken, m) /\ local' = NothingDone
  BY DEF Flush, Plan
<1>3. GoodPlan(todo', row)
  BY <1>1, <1>2, GoodFlush
<1>4. excuse' \in Reasons
  BY ExcusedType DEF Flush, IInv
<1>5. StaleIsTaken'
  <2>1. SUFFICES ASSUME NEW q \in queue, Stale(q)'
                 PROVE  up' /\ todo' # <<>> /\ q \in Head(todo').rows
    BY DEF StaleIsTaken
  <2>2. q \in taken /\ taken # {}
    BY <2>1
  <2>3. QED
    BY <1>1, <1>2, <2>2, FlushTakes DEF processVars
<1>6. QED
  BY <1>1, <1>2, <1>3, <1>4, <1>5, PlanStep

LEMMA BetterType ==
    ASSUME NEW a \in Connections, NEW b \in Connections
    PROVE  Better(a, b) \in Connections
  BY DEF Better

LEMMA RedeliveredType ==
    ASSUME IInv, NEW m \in Members, NEW kind
    PROVE  Redelivered(m, kind) \in Seq(Messages) /\ Len(Redelivered(m, kind)) = Len(sent)
<1> DEFINE again == [k \in DOMAIN sent |->
                       IF sent[k].out[m] = "open" THEN [sent[k] EXCEPT !.out[m] = "unreported"]
                       ELSE sent[k]]
<1>1. sent \in Seq(Messages) /\ Len(sent) \in Nat /\ DOMAIN sent = 1..Len(sent)
      /\ \A k \in 1..Len(sent) : sent[k] \in Messages
  BY LenProperties, ElementOfSeq DEF IInv, TypeOK
<1>2. \A k \in 1..Len(sent) : again[k] \in Messages
  BY <1>1 DEF Messages, Outcomes
<1>3. again \in Seq(Messages) /\ Len(again) = Len(sent)
  BY <1>1, <1>2, IsASeq, LenProperties
<1>4. QED
  BY <1>1, <1>3 DEF Redelivered

LEMMA WakeKeeps ==
    ASSUME IInv, NEW m \in Members, NEW kind \in {"observer", "legacy", "runner"}, Wake(m, kind)
    PROVE  IInv'
<1> DEFINE taken == {q \in queue : q.to = m}
<1>1. conn \in [Members -> Connections] /\ act \in [Members -> {"resting", "working", "lapsed"}]
  BY DEF IInv, TypeOK
<1>2. Quiet /\ Flush(taken, m) /\ buffer' = buffer /\ act' = act
      /\ sent' = Redelivered(m, kind) /\ conn' = [conn EXCEPT ![m] = Better(@, kind)]
      /\ UNCHANGED <<processVars, hook, row, queue>>
  BY DEF Wake
<1>3. Better(conn[m], kind) \in Connections
  BY <1>1, BetterType DEF Connections
<1>4. conn' \in [Members -> Connections]
  BY <1>1, <1>2, <1>3
<1>5. sent' \in Seq(Messages) /\ Len(sent') = Len(sent)
  BY <1>2, RedeliveredType
<1>6. ASSUME NEW q \in queue, Stale(q)' PROVE q \in taken
  <2>1. q.to \in Members
    BY DEF IInv, TypeOK, QueueRows
  <2>2. q.to # m => Stale(q)
    BY <1>1, <1>2, <1>6, <2>1 DEF Stale
  <2>3. QED
    BY <1>2, <2>2, NoneStale
<1>7. taken \in SUBSET queue
  OBVIOUS
<1> HIDE DEF taken
<1>8. QED
  BY <1>1, <1>2, <1>4, <1>5, <1>6, <1>7, FlushKeeps

LEMMA ReportWorkingKeeps ==
    ASSUME IInv, NEW m \in Members, ReportWorking(m) \/ Lapse(m)
    PROVE  IInv'
<1>1. act' \in [Members -> {"resting", "working", "lapsed"}]
      /\ (act'[m] # "resting") /\ \A x \in Members : x # m => act'[x] = act[x]
  BY DEF IInv, TypeOK, ReportWorking, Lapse
<1>2. Quiet /\ UNCHANGED <<setup, up, halts, endpoint, asks, clock, hook, row, queue, buffer,
                           sent, conn, todo, local, excuse>>
  BY DEF ReportWorking, Lapse, processVars
<1>3. TypeOK'
  BY <1>1, <1>2 DEF IInv, TypeOK
<1>4. ASSUME NEW q \in queue, Stale(q)' PROVE FALSE
  <2>1. q.to \in Members
    BY DEF IInv, TypeOK, QueueRows
  <2>2. Stale(q)
    BY <1>1, <1>2, <1>4, <2>1 DEF Stale
  <2>3. QED
    BY <1>2, <2>2, NoneStale
<1>5. StaleIsTaken'
  BY <1>2, <1>4 DEF StaleIsTaken
<1>6. QueueHolds' /\ GoodPlan(todo, row)' /\ DownIsEmpty'
  BY <1>2 DEF IInv, QueueHolds, Kept, DownIsEmpty
<1>7. QED
  BY <1>3, <1>5, <1>6 DEF IInv

LEMMA ReportRestingKeeps ==
    ASSUME IInv, NEW m \in Members, ReportResting(m)
    PROVE  IInv'
<1> DEFINE taken == {q \in queue : q.to = m /\ q.why = "busy"}
<1>1. /\ conn \in [Members -> Connections] /\ act \in [Members -> {"resting", "working", "lapsed"}]
      /\ sent \in Seq(Messages)
  BY DEF IInv, TypeOK
<1>2. Quiet /\ Flush(taken, m) /\ buffer' = buffer /\ act' = [act EXCEPT ![m] = "resting"]
      /\ sent' = sent /\ conn' = conn
      /\ UNCHANGED <<processVars, hook, row, queue>>
  BY DEF ReportResting
<1>3. act' \in [Members -> {"resting", "working", "lapsed"}]
  BY <1>1, <1>2
<1>4. ASSUME NEW q \in queue, Stale(q)' PROVE q \in taken
  <2>1. q.to \in Members /\ q.why \in {"offline", "busy"}
    BY DEF IInv, TypeOK, QueueRows
  <2>2. q \notin taken => Stale(q)
    BY <1>1, <1>2, <1>4, <2>1 DEF Stale
  <2>3. QED
    BY <1>2, <2>2, NoneStale
<1>5. taken \in SUBSET queue
  OBVIOUS
<1> HIDE DEF taken
<1>6. QED
  BY <1>1, <1>2, <1>3, <1>4, <1>5, FlushKeeps

LEMMA SweepExpiredKeeps ==
    ASSUME IInv, NEW due \in SUBSET queue, SweepExpired(due)
    PROVE  IInv'
<1> DEFINE kept == StillKept(row, Named(due))
<1>1. due \in SUBSET QueueRows /\ buffer \in SUBSET Receipts /\ excuse \in Reasons
  BY DEF IInv, TypeOK, Reasons
<1>2. kept \in SUBSET Receipts /\ \A d \in kept : There(row[d])
  BY <1>1, StillKeptIsThere, NamedType
<1> HIDE DEF kept
<1>3. GoodPlan(Take(due) \o Update("expired", kept), row)
  BY <1>1, <1>2, GoodTake, GoodUpdate, GoodConcat DEF Operations
<1>4. Quiet /\ GoodPlan(todo', row) /\ local' = NothingDone
      /\ UNCHANGED <<processVars, hook, row, queue, buffer, sent, conn, act, excuse>>
  BY <1>3 DEF SweepExpired, Plan, kept, peerVars
<1>5. StaleIsTaken'
  BY <1>4, StillNoneStale DEF peerVars
<1>6. QED
  BY <1>1, <1>4, <1>5, PlanStep DEF IInv, TypeOK, Quiet

LEMMA SweepStarvedKeeps ==
    ASSUME IInv, NEW due \in SUBSET queue, NEW m \in Members, SweepStarved(due, m)
    PROVE  IInv'
<1>1. Quiet /\ Flush(due, m)
      /\ UNCHANGED <<processVars, hook, row, queue, buffer, sent, conn, act>>
  BY DEF SweepStarved, peerVars
<1>2. \A q \in queue : ~Stale(q)'
  BY <1>1, NoneStale DEF Stale
<1>3. /\ conn' \in [Members -> Connections] /\ act' \in [Members -> {"resting", "working", "lapsed"}]
      /\ sent' \in Seq(Messages) /\ Len(sent') = Len(sent)
  BY <1>1 DEF IInv, TypeOK
<1>4. QED
  BY <1>1, <1>2, <1>3, FlushKeeps

(* While a statement other than a take is next, no row is stale.           *)
LEMMA HeadFacts ==
    ASSUME IInv, todo # <<>>
    PROVE  /\ GoodStatement(Head(todo), row)
           /\ GoodPlan(Tail(todo), row)
           /\ up
           /\ Head(todo).op # "take" => \A q \in queue : ~Stale(q)
<1>1. GoodStatement(Head(todo), row) /\ GoodPlan(Tail(todo), row)
  BY GoodSplit DEF IInv
<1>2. up
  BY DEF IInv, DownIsEmpty, TypeOK
<1>3. Head(todo).op # "take" => \A q \in queue : ~Stale(q)
  BY <1>1 DEF IInv, StaleIsTaken, GoodStatement
<1>4. QED
  BY <1>1, <1>2, <1>3

LEMMA DeletePendingKeeps ==
    ASSUME IInv, DeletePending
    PROVE  IInv'
<1>1. PICK q \in Head(todo).rows : queue' = queue \ {q} /\ todo' = DoneRow(q)
  BY DEF DeletePending
<1>2. todo # <<>> /\ local' = NothingDone
      /\ UNCHANGED <<setup, up, halts, endpoint, asks, clock, hook, row, buffer, sent, conn, act,
                     excuse>>
  BY DEF DeletePending, Running, processVars, peerVars
<1>3. GoodStatement(Head(todo), row) /\ GoodPlan(Tail(todo), row) /\ up
  BY <1>2, HeadFacts
<1> DEFINE rest == Head(todo).rows \ {q}
<1>4. rest \in SUBSET QueueRows
  BY <1>3 DEF GoodStatement, StatementRecords
<1>5. todo' = Take(rest) \o Tail(todo)
  BY <1>1 DEF DoneRow
<1>6. Tail(todo) \in Seq(StatementRecords)
  BY <1>3 DEF GoodPlan
<1> HIDE DEF rest
<1>7. GoodPlan(todo', row)
  BY <1>3, <1>4, <1>5, GoodTake, GoodConcat
<1>8. TypeOK'
  BY <1>1, <1>2, <1>7, LocalType DEF IInv, TypeOK, GoodPlan
<1>9. StaleIsTaken'
  <2>1. SUFFICES ASSUME NEW r \in queue', Stale(r)'
                 PROVE  up' /\ todo' # <<>> /\ r \in Head(todo').rows
    BY DEF StaleIsTaken
  <2>2. r \in queue /\ r # q /\ Stale(r)
    BY <1>1, <1>2, <2>1 DEF Stale
  <2>3. r \in rest
    BY <2>2 DEF IInv, StaleIsTaken, rest
  <2>4. QED
    BY <1>2, <1>3, <1>4, <1>5, <1>6, <2>3, TakesFirst
<1>10. QueueHolds' /\ GoodPlan(todo, row)' /\ DownIsEmpty'
  BY <1>1, <1>2, <1>3, <1>7 DEF IInv, QueueHolds, Kept, DownIsEmpty
<1>11. QED
  BY <1>8, <1>9, <1>10 DEF IInv

LEMMA DispatchTargetKeeps ==
    ASSUME IInv, DispatchTarget
    PROVE  IInv'
<1> DEFINE s == Head(todo)
<1>1. /\ todo # <<>> /\ s.op \in {"target", "force"} /\ todo' = Tail(todo)
      /\ UNCHANGED <<setup, up, halts, endpoint, asks, clock, hook, row, buffer, conn, act, excuse>>
  BY DEF DispatchTarget, Running, processVars, peerVars
<1>2. GoodStatement(s, row) /\ GoodPlan(todo', row) /\ up /\ \A q \in queue : ~Stale(q)
  BY <1>1, HeadFacts
<1>3. s.ids \in SUBSET Receipts /\ s.to \in Members \cup Channels /\ \A d \in s.ids : Kept(d)
  BY <1>1, <1>2 DEF GoodStatement, StatementRecords, There, Kept
<1>4. /\ sent \in Seq(Messages) /\ Len(sent) \in Nat /\ row \in RowTable
      /\ local \in [msgs : SUBSET (1..Len(sent)), acked : BOOLEAN, queued : BOOLEAN]
      /\ queue \subseteq QueueRows
      /\ conn \in [Members -> Connections] /\ act \in [Members -> {"resting", "working", "lapsed"}]
  BY LenProperties DEF IInv, TypeOK, RowTable
<1> DEFINE held(why) == [to |-> s.to, why |-> why, ids |-> s.ids, turn |-> Len(todo)]
<1>5. \/ Push(s)
      \/ \E why \in {"offline", "busy"} :
           /\ Hold(s, why) /\ s.to \in Members /\ s.ids # {}
           /\ why = "offline" => conn[s.to] = "away"
           /\ why = "busy" => act[s.to] = "working"
      \/ UNCHANGED <<queue, local, sent>>
  BY <1>3, Zenon DEF DispatchTarget
<1> HIDE DEF s
<1>6. CASE Push(s)
  <2> DEFINE msg == [ids |-> s.ids, to |-> s.to, out |-> Outcome(s.to)]
  <2>1. msg \in Messages
    BY <1>3 DEF Messages, Outcome, Outcomes
  <2>2. sent' = Append(sent, msg) /\ queue' = queue
        /\ local' = [local EXCEPT !.msgs = @ \cup {Len(sent) + 1},
                                  !.acked = @ \/ Recipients(s.to) = {}]
    BY <1>6 DEF Push
  <2> HIDE DEF msg
  <2>3. sent' \in Seq(Messages) /\ Len(sent') = Len(sent) + 1
    BY <1>4, <2>1, <2>2, AppendProperties
  <2>4. local' \in [msgs : SUBSET (1..Len(sent')), acked : BOOLEAN, queued : BOOLEAN]
    <3>1. local.msgs \cup {Len(sent) + 1} \in SUBSET (1..Len(sent'))
      BY <1>4, <2>3
    <3>2. (local.acked \/ Recipients(s.to) = {}) \in BOOLEAN
      BY <1>4
    <3>3. QED
      BY <1>4, <2>2, <3>1, <3>2
  <2>5. row' \in [Receipts -> DeliveryRows(Len(sent'))]
    <3>1. DeliveryRows(Len(sent)) \subseteq DeliveryRows(Len(sent'))
      BY <1>4, <2>3 DEF DeliveryRows
    <3>2. QED
      BY <1>1, <1>4, <3>1 DEF RowTable
  <2>6. TypeOK'
    BY <1>1, <1>2, <2>2, <2>3, <2>4, <2>5 DEF IInv, TypeOK, GoodPlan
  <2>7. StaleIsTaken'
    BY <1>1, <1>2, <2>2 DEF StaleIsTaken, Stale
  <2>8. QueueHolds' /\ GoodPlan(todo, row)' /\ DownIsEmpty'
    BY <1>1, <1>2, <2>2 DEF IInv, QueueHolds, Kept, DownIsEmpty
  <2>9. QED
    BY <2>6, <2>7, <2>8 DEF IInv
<1>7. ASSUME NEW why \in {"offline", "busy"}, Hold(s, why), s.to \in Members, s.ids # {},
             why = "offline" => conn[s.to] = "away",
             why = "busy" => act[s.to] = "working"
      PROVE  IInv'
  <2>1. queue' = queue \cup {held(why)} /\ sent' = sent
        /\ local' = [local EXCEPT !.queued = TRUE]
    BY <1>7 DEF Hold
  <2>2. held(why) \in QueueRows /\ held(why).ids = s.ids /\ held(why).to = s.to
        /\ held(why).why = why
    <3>1. Len(todo) \in Nat
      BY LenProperties DEF IInv, TypeOK
    <3>2. QED
      BY <1>3, <1>7, <3>1 DEF QueueRows
  <2> HIDE DEF held
  <2>3. TypeOK'
    BY <1>1, <1>2, <1>4, <2>1, <2>2 DEF IInv, TypeOK, GoodPlan
  <2>4. ~Stale(held(why))
    BY <1>7, <2>2 DEF Stale
  <2>5. StaleIsTaken'
    BY <1>1, <1>2, <2>1, <2>4 DEF StaleIsTaken, Stale
  <2>6. QueueHolds'
    BY <1>1, <1>3, <1>7, <2>1, <2>2 DEF IInv, QueueHolds, Kept
  <2>7. GoodPlan(todo, row)' /\ DownIsEmpty'
    BY <1>1, <1>2 DEF DownIsEmpty
  <2>8. QED
    BY <2>3, <2>5, <2>6, <2>7 DEF IInv
<1>8. CASE UNCHANGED <<queue, local, sent>>
  <2>1. TypeOK'
    BY <1>1, <1>2, <1>8 DEF IInv, TypeOK, GoodPlan
  <2>2. QueueHolds' /\ GoodPlan(todo, row)' /\ DownIsEmpty' /\ StaleIsTaken'
    BY <1>1, <1>2, <1>8 DEF IInv, QueueHolds, Kept, DownIsEmpty, StaleIsTaken, Stale
  <2>3. QED
    BY <2>1, <2>2 DEF IInv
<1>9. QED
  BY <1>5, <1>6, <1>7, <1>8

LEMMA UpdateDeliveryKeeps ==
    ASSUME IInv, UpdateDelivery
    PROVE  IInv'
<1> DEFINE s == Head(todo)
<1>1. /\ todo # <<>>
      /\ s.op \in {"debouncing", "filtered", "first", "rest", "expired", "delivered", "dropped"}
      /\ UNCHANGED <<setup, up, halts, endpoint, asks, clock, hook, queue, buffer, sent, conn, act,
                     excuse>>
  BY DEF UpdateDelivery, Running, processVars, peerVars
<1>2. PICK d \in s.ids :
        /\ todo' = DoneId(d)
        /\ row' = [row EXCEPT ![d] =
                     CASE s.op = "debouncing" -> [@ EXCEPT !.debouncing = TRUE]
                       [] s.op \in {"first", "rest"} -> Recorded(s.op, @)
                       [] s.op = "expired" /\ @.st # "pending" -> @
                       [] OTHER -> [@ EXCEPT !.st = s.op, !.debouncing = FALSE]]
  BY DEF UpdateDelivery
<1>3. GoodStatement(s, row) /\ GoodPlan(Tail(todo), row) /\ up /\ \A q \in queue : ~Stale(q)
  BY <1>1, HeadFacts
<1>4. s.ids \in SUBSET Receipts /\ d \in Receipts /\ There(row[d])
  BY <1>3 DEF GoodStatement, StatementRecords
<1>5. /\ row \in RowTable /\ row[d] \in DeliveryRows(Len(sent))
      /\ local \in [msgs : SUBSET (1..Len(sent)), acked : BOOLEAN, queued : BOOLEAN]
  BY <1>4 DEF IInv, TypeOK, RowTable
<1>6. \A op : /\ Recorded(op, row[d]) \in DeliveryRows(Len(sent))
              /\ There(Recorded(op, row[d]))
  <2>1. TAKE op
  <2>2. StatusAfter(op, row[d].st) \in Statuses \ {"none", "gone"}
    BY <1>5 DEF StatusAfter, DeliveryRows, Statuses
  <2>3. QED
    BY <1>5, <2>2 DEF Recorded, DeliveryRows, There
<1>7. [row[d] EXCEPT !.debouncing = TRUE] \in DeliveryRows(Len(sent))
      /\ There([row[d] EXCEPT !.debouncing = TRUE])
  BY <1>4, <1>5 DEF DeliveryRows, There
<1>8. \A st \in Statuses \ {"none", "gone"} :
        /\ [row[d] EXCEPT !.st = st, !.debouncing = FALSE] \in DeliveryRows(Len(sent))
        /\ There([row[d] EXCEPT !.st = st, !.debouncing = FALSE])
  BY <1>4, <1>5 DEF DeliveryRows, There
<1> DEFINE new == CASE s.op = "debouncing" -> [row[d] EXCEPT !.debouncing = TRUE]
                    [] s.op \in {"first", "rest"} -> Recorded(s.op, row[d])
                    [] s.op = "expired" /\ row[d].st # "pending" -> row[d]
                    [] OTHER -> [row[d] EXCEPT !.st = s.op, !.debouncing = FALSE]
<1>9. new \in DeliveryRows(Len(sent)) /\ There(new)
  <2>1. CASE s.op \in {"debouncing", "first", "rest"}
    BY <1>6, <1>7, <2>1
  <2>2. CASE s.op \in {"filtered", "expired", "delivered", "dropped"}
    <3>1. s.op \in Statuses \ {"none", "gone"}
      BY <2>2 DEF Statuses
    <3>2. new \in {row[d], [row[d] EXCEPT !.st = s.op, !.debouncing = FALSE]}
      BY <2>2
    <3>3. QED
      BY <1>4, <1>5, <1>8, <3>1, <3>2
  <2>3. QED
    BY <1>1, <2>1, <2>2
<1>10. row' = [row EXCEPT ![d] = new]
  BY <1>2
<1> HIDE DEF new
<1>11. row' \in RowTable /\ \A x \in Receipts : There(row[x]) => There(row'[x])
  BY <1>4, <1>5, <1>9, <1>10 DEF RowTable
<1>12. GoodPlan(todo', row)
  <2> DEFINE op == IF s.op = "first" THEN "rest" ELSE s.op
  <2>1. op \in Operations \ {"target", "force"}
    BY <1>1 DEF Operations
  <2>2. s.ids \ {d} \in SUBSET Receipts /\ \A x \in s.ids \ {d} : There(row[x])
    BY <1>3, <1>4 DEF GoodStatement
  <2>3. todo' = Update(op, s.ids \ {d}) \o Tail(todo)
    BY <1>2 DEF DoneId
  <2> HIDE DEF op, s
  <2>4. QED
    BY <1>3, <2>1, <2>2, <2>3, GoodUpdate, GoodConcat
<1>13. GoodPlan(todo', row')
  BY <1>11, <1>12, GoodStays
<1>14. local' \in [msgs : SUBSET (1..Len(sent)), acked : BOOLEAN, queued : BOOLEAN]
  BY <1>5, LocalType DEF UpdateDelivery
<1>15. TypeOK'
  BY <1>1, <1>11, <1>13, <1>14 DEF IInv, TypeOK, GoodPlan, RowTable
<1>16. QueueHolds'
  BY <1>1, <1>11 DEF IInv, QueueHolds, Kept, There, TypeOK, QueueRows
<1>17. StaleIsTaken' /\ DownIsEmpty'
  BY <1>1, <1>3 DEF StaleIsTaken, Stale, DownIsEmpty
<1>18. QED
  BY <1>13, <1>15, <1>16, <1>17 DEF IInv

LEMMA AttachKeeps ==
    ASSUME IInv, NEW m \in Members, Attach(m) \/ Detach(m)
    PROVE  IInv'
<1>1. conn \in [Members -> Connections] /\ setup.clients \subseteq Connections
  BY TargetsOK DEF IInv, TypeOK, Connections
<1>2. Quiet /\ UNCHANGED <<setup, up, halts, endpoint, asks, clock, hook, row, queue, buffer,
                           sent, act, todo, local, excuse>>
  BY DEF Attach, Detach, processVars
<1>3. conn' \in [Members -> Connections] /\ \A x \in Members : x # m => conn'[x] = conn[x]
  BY <1>1 DEF Attach, Detach, Connections
<1>4. conn'[m] \in {"legacy", "runner"} => conn[m] \in {"legacy", "runner"}
  <2>1. CASE Attach(m)
    BY <1>1, <2>1 DEF Attach
  <2>2. CASE Detach(m)
    <3>1. PICK c \in {"away"} \cup setup.clients :
            Rank[c] < Rank[conn[m]] /\ conn' = [conn EXCEPT ![m] = c]
      BY <2>2 DEF Detach
    <3>2. conn'[m] = c /\ c \in Connections /\ conn[m] \in Connections
      BY <1>1, <3>1 DEF Connections
    <3>3. Rank["away"] = 0 /\ Rank["observer"] = 1 /\ Rank["legacy"] = 2 /\ Rank["runner"] = 3
      BY DEF Rank, Connections
    <3>4. QED
      BY <3>1, <3>2, <3>3 DEF Connections
  <2>3. QED
    BY <2>1, <2>2
<1>5. TypeOK'
  BY <1>2, <1>3 DEF IInv, TypeOK
<1>6. ASSUME NEW q \in queue, Stale(q)' PROVE FALSE
  <2>1. q.to \in Members
    BY DEF IInv, TypeOK, QueueRows
  <2>2. Stale(q)
    BY <1>2, <1>3, <1>4, <1>6, <2>1 DEF Stale
  <2>3. QED
    BY <1>2, <2>2, NoneStale
<1>7. StaleIsTaken'
  BY <1>2, <1>6 DEF StaleIsTaken
<1>8. QueueHolds' /\ GoodPlan(todo, row)' /\ DownIsEmpty'
  BY <1>2 DEF IInv, QueueHolds, Kept, DownIsEmpty, Quiet
<1>9. QED
  BY <1>5, <1>7, <1>8 DEF IInv

LEMMA DispositionKeeps ==
    ASSUME IInv, NEW k \in DOMAIN sent, NEW m \in Members, NEW outcome \in {"acted", "refused"},
           Disposition(k, m, outcome)
    PROVE  IInv'
<1> DEFINE ids == {d \in Receipts : Kept(d) /\ k \in row[d].msgs}
           op == IF outcome = "acted" THEN "delivered" ELSE "dropped"
<1>1. /\ Quiet /\ sent' = [sent EXCEPT ![k].out[m] = "settled"]
      /\ todo' = Update(op, ids) /\ local' = NothingDone
      /\ UNCHANGED <<processVars, hook, row, queue, buffer, conn, act, excuse>>
  BY DEF Disposition, Plan, peerVars
<1>2. sent' \in Seq(Messages) /\ Len(sent') = Len(sent)
  <2>1. sent \in Seq(Messages) /\ k \in 1..Len(sent) /\ sent[k] \in Messages
    BY ElementOfSeq, LenProperties DEF IInv, TypeOK
  <2>2. [sent[k] EXCEPT !.out[m] = "settled"] \in Messages
    BY <2>1 DEF Messages, Outcomes
  <2> DEFINE new == [sent[k] EXCEPT !.out[m] = "settled"]
  <2>3. sent' = [sent EXCEPT ![k] = new]
    BY <1>1
  <2> HIDE DEF new
  <2>4. QED
    BY <2>1, <2>2, <2>3, ExceptSeq DEF new
<1>3. ids \in SUBSET Receipts /\ (\A d \in ids : There(row[d]))
      /\ op \in Operations \ {"target", "force"}
  BY DEF Kept, There, Operations
<1> HIDE DEF ids, op
<1>4. GoodPlan(todo', row)
  BY <1>1, <1>3, GoodUpdate
<1>5. StaleIsTaken'
  BY <1>1, StillNoneStale DEF peerVars
<1>6. QED
  BY <1>1, <1>2, <1>4, <1>5, PlanStep DEF IInv, TypeOK, Quiet, Reasons

LEMMA DeleteEndpointKeeps ==
    ASSUME IInv, DeleteEndpoint
    PROVE  IInv'
<1>1. /\ Quiet /\ endpoint' = "deleted" /\ queue' = {} /\ todo = <<>> /\ todo' = <<>>
      /\ \E old : row' = Trimmed(old)
      /\ UNCHANGED <<setup, up, halts, asks, clock, hook, buffer, sent, conn, act, local, excuse>>
  BY DEF DeleteEndpoint, Quiet, peerVars
<1>2. row' \in RowTable
  BY <1>1, TrimmedType DEF IInv
<1>3. TypeOK'
  BY <1>1, <1>2 DEF IInv, TypeOK, RowTable
<1>4. QueueHolds' /\ GoodPlan(todo, row)' /\ StaleIsTaken' /\ DownIsEmpty'
  BY <1>1, GoodEmpty DEF QueueHolds, StaleIsTaken, DownIsEmpty, Quiet
<1>5. QED
  BY <1>3, <1>4 DEF IInv

LEMMA HaltKeeps ==
    ASSUME IInv, Halt
    PROVE  IInv'
<1>1. /\ up' = FALSE /\ halts' = halts + 1 /\ halts < MaxHalts
      /\ hook' = [d \in Receipts |-> 0] /\ buffer' = {}
      /\ conn' = [m \in Members |-> "away"] /\ act' = [m \in Members |-> "resting"]
      /\ todo' = <<>> /\ local' = NothingDone
      /\ UNCHANGED <<setup, endpoint, asks, clock, row, queue, sent>>
  BY DEF Halt, Plan
<1>2. excuse' \in Reasons
  BY ExcusedType DEF Halt, IInv
<1>3. halts' \in 0..MaxHalts
  BY <1>1, NotificationConstantsOK DEF IInv, TypeOK
<1>4. TypeOK'
  <2>1. /\ hook' \in [Receipts -> Nat] /\ buffer' \subseteq Receipts
        /\ conn' \in [Members -> Connections]
        /\ act' \in [Members -> {"resting", "working", "lapsed"}]
        /\ todo' \in Seq(StatementRecords)
    BY <1>1 DEF Connections
  <2>2. local' \in [msgs : SUBSET (1..Len(sent)), acked : BOOLEAN, queued : BOOLEAN]
    BY <1>1, LocalType
  <2>3. QED
    BY <1>1, <1>2, <1>3, <2>1, <2>2 DEF IInv, TypeOK, Reasons
<1>5. StaleIsTaken'
  <2>1. \A q \in queue : q.to \in Members
    BY DEF IInv, TypeOK, QueueRows
  <2>2. QED
    BY <1>1, <2>1 DEF StaleIsTaken, Stale
<1>6. QueueHolds' /\ GoodPlan(todo, row)' /\ DownIsEmpty'
  BY <1>1, GoodEmpty DEF IInv, QueueHolds, Kept, DownIsEmpty
<1>7. QED
  BY <1>4, <1>5, <1>6 DEF IInv

LEMMA RestartKeeps ==
    ASSUME IInv, Restart
    PROVE  IInv'
<1>1. /\ ~up /\ up' = TRUE /\ todo' = ToTargets(row, Stranded) /\ local' = NothingDone
      /\ excuse' = ExcusedIfDeleted(Stranded)
      /\ UNCHANGED <<setup, halts, endpoint, asks, clock, hook, row, queue, buffer, sent, conn, act>>
  BY DEF Restart, Plan, peerVars
<1>2. Stranded \in SUBSET Receipts
  BY DEF Stranded
<1>3. GoodPlan(todo', row)
  BY <1>1, <1>2, GoodToTargets DEF IInv
<1>4. TypeOK'
  BY <1>1, <1>3, LocalType, ExcusedType DEF IInv, TypeOK, Reasons, GoodPlan
<1>5. StaleIsTaken'
  BY <1>1 DEF IInv, TypeOK, QueueRows, StaleIsTaken, Stale, DownIsEmpty
<1>6. QueueHolds' /\ GoodPlan(todo, row)' /\ DownIsEmpty'
  BY <1>1, <1>3 DEF IInv, QueueHolds, Kept, DownIsEmpty
<1>7. QED
  BY <1>4, <1>5, <1>6 DEF IInv

-----------------------------------------------------------------------------
(* The theorems.                                                           *)

LEMMA InitIInv == Init => IInv
<1> SUFFICES ASSUME Init PROVE IInv
  OBVIOUS
<1>1. NoRow \in DeliveryRows(0)
  BY NotificationConstantsOK DEF NoRow, DeliveryRows, Statuses
<1>2. sent = <<>> /\ Len(sent) = 0 /\ todo = <<>> /\ queue = {} /\ up = TRUE
  BY DEF Init
<1>3. TypeOK
  BY <1>1, <1>2, LocalType, NotificationConstantsOK DEF Init, TypeOK, Connections
<1>4. QED
  BY <1>2, <1>3, GoodEmpty DEF IInv, QueueHolds, StaleIsTaken, DownIsEmpty

LEMMA StepIInv == IInv /\ [Next]_vars => IInv'
<1> SUFFICES ASSUME IInv, [Next]_vars PROVE IInv'
  OBVIOUS
<1>1. CASE UNCHANGED vars
  <2>1. UNCHANGED <<setup, up, halts, endpoint, asks, clock, hook, row, queue, buffer, sent, conn,
                    act, todo, local, excuse>>
    BY <1>1 DEF vars
  <2>2. QED
    BY <2>1 DEF IInv, TypeOK, QueueHolds, Kept, StaleIsTaken, Stale, DownIsEmpty
<1>2. ASSUME NEW d \in Receipts, Ask(d) \/ Duplicate(d) \/ Filter(d) \/ Reject(d) PROVE IInv'
  BY <1>2, AskKeeps, FilterKeeps, RejectKeeps
<1>3. ASSUME NEW d \in Receipts, NEW o \in Options, Accept(d, o) PROVE IInv'
  BY <1>3, AcceptKeeps
<1>4. ASSUME NEW d \in Receipts, NEW copy \in Receipts, Replay(d, copy) PROVE IInv'
  BY <1>4, ReplayKeeps
<1>5. CASE FlushDebounce
  BY <1>5, FlushDebounceKeeps
<1>6. ASSUME NEW m \in Members, NEW kind \in {"observer", "legacy", "runner"}, Wake(m, kind) PROVE IInv'
  BY <1>6, WakeKeeps
<1>7. ASSUME NEW m \in Members,
             ReportWorking(m) \/ ReportResting(m) \/ Attach(m) \/ Detach(m) \/ Lapse(m)
      PROVE  IInv'
  BY <1>7, ReportWorkingKeeps, ReportRestingKeeps, AttachKeeps
<1>8. ASSUME NEW due \in SUBSET queue,
             SweepExpired(due) \/ \E m \in Members : SweepStarved(due, m)
      PROVE  IInv'
  BY <1>8, SweepExpiredKeeps, SweepStarvedKeeps
<1>9. CASE Statements
  BY <1>9, DeletePendingKeeps, DispatchTargetKeeps, UpdateDeliveryKeeps DEF Statements
<1>10. ASSUME NEW k \in DOMAIN sent, NEW m \in Members, NEW outcome \in {"acted", "refused"},
              Disposition(k, m, outcome)
       PROVE  IInv'
  BY <1>10, DispositionKeeps
<1>11. CASE DeleteEndpoint \/ Halt \/ Restart
  BY <1>11, DeleteEndpointKeeps, HaltKeeps, RestartKeeps
<1>12. QED
  BY <1>1, <1>2, <1>3, <1>4, <1>5, <1>6, <1>7, <1>8, <1>9, <1>10, <1>11 DEF Next

LEMMA InductiveInvariant == Spec => []IInv
<1>1. QED
  BY InitIInv, StepIInv, PTL DEF Spec

(* The dispatcher's table, its queue, its buffer and what its handlers have *)
(* still to do are well typed, for every value of the constants.           *)
THEOREM NotificationsTypeCorrect == Spec => []TypeOK
<1>1. IInv => TypeOK
  BY DEF IInv
<1>2. QED
  BY <1>1, InductiveInvariant, PTL

(* Whatever runners attach, members report and rows the sweep finds due,   *)
(* in whatever order, and wherever the process ends: when no handler runs, *)
(* the queue holds nothing whose wait is over, and nothing whose receipt   *)
(* was retired.                                                            *)
THEOREM QueueStaysTrue == Spec => []QueueIsTrue
<1>1. IInv => QueueIsTrue
  <2>1. SUFFICES ASSUME IInv, Quiet, NEW q \in queue
                 PROVE  /\ q.why = "offline" => conn[q.to] \notin {"legacy", "runner"}
                        /\ q.why = "busy" =>
                             conn[q.to] \notin {"legacy", "runner"} \/ act[q.to] # "resting"
                        /\ q.ids # {} /\ \A d \in q.ids : Kept(d)
    BY DEF QueueIsTrue
  <2>2. ~Stale(q)
    BY <2>1, NoneStale
  <2>3. QED
    BY <2>1, <2>2 DEF IInv, QueueHolds, Stale
<1>2. QED
  BY <1>1, InductiveInvariant, PTL
-----------------------------------------------------------------------------
(* What a plan does: whom it sends a delivery to, what it then records,    *)
(* which receipts it settles one way or another, which it marks.           *)

SendOp(s) == s.op \in {"target", "force"}
EndOp(s) == s.op \in {"first", "rest"}
SettleOp(s) == s.op \in {"first", "rest", "filtered", "expired", "delivered", "dropped"}

(* What a plan has still to send of d to t, by its place, counted from the *)
(* end: places stay when the plan's head is done.                          *)
Left(p, d, t) ==
    {i \in 0 .. Len(p) - 1 :
        LET s == p[Len(p) - i] IN SendOp(s) /\ d \in s.ids /\ s.to = t}

EndsIn(p, d) == \E j \in 1 .. Len(p) : EndOp(p[j]) /\ d \in p[j].ids
SettlesIn(p, d) == \E j \in 1 .. Len(p) : SettleOp(p[j]) /\ d \in p[j].ids
MarksIn(p, d) == \E j \in 1 .. Len(p) : p[j].op = "debouncing" /\ d \in p[j].ids

(* A plan records last what it sent; it marks receipts, or takes rows,     *)
(* before anything else.                                                   *)
Shaped(p) ==
    /\ \A j \in 1 .. Len(p) :
         SendOp(p[j]) => p[Len(p)].op = "first" /\ p[Len(p)].ids = p[j].ids
    /\ \A j \in 1 .. Len(p) : EndOp(p[j]) => j = Len(p)
    /\ \A j \in 1 .. Len(p) : p[j].op = "debouncing" \/ p[j].rows # {} => j = 1

Taken(q) == todo # <<>> /\ q \in Head(todo).rows

-----------------------------------------------------------------------------
(* Once for each mention of a target. What was sent of a delivery to a     *)
(* target, what waits in the queue for it and what the running handler has *)
(* still to send to it are together no more than the endpoint's mentions   *)
(* of the target. What is buffered or stranded is neither.                 *)

Plain(d) == excuse[d] \cap {"halt", "retired"} = {}

Fresh(d) ==
    /\ \A k \in DOMAIN sent : d \notin sent[k].ids
    /\ \A q \in queue : d \notin q.ids

Waiting(d, t) == {q \in queue : d \in q.ids /\ q.to = t /\ ~Taken(q)}

Room(d, t) ==
    Cardinality(SentTo(d, t)) + Cardinality(Waiting(d, t)) + Cardinality(Left(todo, d, t))
        <= Cardinality(Mentions(t))

OnceFor(d) ==
    /\ d \in buffer => Fresh(d) /\ \A t : Left(todo, d, t) = {}
    /\ row[d].debouncing => Fresh(d) \/ EndsIn(todo, d)
    /\ MarksIn(todo, d) => Fresh(d)
    /\ \A t : Room(d, t)

Untouched == \A d \in Receipts : row[d].st = "none" => Fresh(d) /\ d \notin buffer

Once ==
    /\ Untouched
    /\ ~up => buffer = {}
    /\ IsFiniteSet(queue)
    /\ \A d \in Receipts : Plain(d) => OnceFor(d)

-----------------------------------------------------------------------------
(* What says `pending` is held, while a handler runs: by a statement that  *)
(* is still to come, too.                                                  *)

MayBeLost(d) == excuse[d] \cap {"halt", "endpoint"} # {}
Owed(k) == \E m \in Members : sent[k].out[m] \in {"open", "unreported"}

Covered(d) ==
    \/ d \in buffer /\ (row[d].debouncing \/ MarksIn(todo, d))
    \/ ~up /\ row[d].debouncing
    \/ SettlesIn(todo, d)
    \/ \E q \in queue : d \in q.ids
    \/ \E k \in row[d].msgs : Owed(k)
    \/ MayBeLost(d)

(* What the running dispatch has done is there to be recorded.             *)
LocalIsTrue ==
    todo # <<>> =>
        /\ ~local.acked => \A k \in local.msgs : Owed(k)
        /\ local.queued => \E q \in queue : todo[Len(todo)].ids \subseteq q.ids

Holding ==
    /\ \A d \in Receipts : row[d].st = "pending" => Covered(d)
    /\ \A q : Taken(q) =>
         \A d \in q.ids : row[d].st = "pending" => SettlesIn(todo, d) \/ MayBeLost(d)
    /\ LocalIsTrue

(* What has no effect on receipts and takes no rows before the first send. *)
Frontless(p) == \A j \in 1 .. Len(p) : p[j].op # "debouncing" /\ p[j].rows = {}

(* Counting.                                                               *)

AtMost(S, T) == IsFiniteSet(S) /\ IsFiniteSet(T) /\ Cardinality(S) <= Cardinality(T)

LEMMA InjectionCounts ==
    ASSUME NEW S, NEW T, IsFiniteSet(T), NEW f \in [S -> T],
           \A x, y \in S : f[x] = f[y] => x = y
    PROVE  AtMost(S, T)
<1>1. f \in Injection(S, T)
  BY DEF Injection, IsInjective
<1>2. QED
  BY <1>1, FS_Injection DEF AtMost

LEMMA SubsetCounts ==
    ASSUME NEW T, IsFiniteSet(T), NEW S \in SUBSET T
    PROVE  AtMost(S, T)
  BY FS_Subset DEF AtMost

GrowsByOne(S, T) == IsFiniteSet(S) /\ Cardinality(S) <= Cardinality(T) + 1

LEMMA OneMore ==
    ASSUME NEW T, IsFiniteSet(T), NEW x, NEW S \in SUBSET (T \cup {x})
    PROVE  GrowsByOne(S, T)
<1>1. PICK U : U = T \cup {x}
  OBVIOUS
<1>2. IsFiniteSet(U) /\ Cardinality(U) = IF x \in T THEN Cardinality(T) ELSE Cardinality(T) + 1
  BY <1>1, FS_AddElement, Zenon
<1>3. IsFiniteSet(S) /\ Cardinality(S) <= Cardinality(U)
  BY <1>1, <1>2, FS_Subset
<1>4. Cardinality(S) \in Nat /\ Cardinality(U) \in Nat /\ Cardinality(T) \in Nat
  BY <1>2, <1>3, FS_CardinalityType
<1>5. QED
  BY <1>2, <1>3, <1>4 DEF GrowsByOne

LEMMA EmptyAtMost ==
    ASSUME NEW T, IsFiniteSet(T)
    PROVE  AtMost({}, T)
  BY SubsetCounts

LEMMA MentionsOfFinite ==
    ASSUME NEW targets \in Seq(Members \cup Channels), NEW t
    PROVE  IsFiniteSet({k \in DOMAIN targets : targets[k] = t})
<1>1. DOMAIN targets = 1 .. Len(targets) /\ Len(targets) \in Nat
  BY LenProperties
<1>2. IsFiniteSet(1 .. Len(targets))
  BY <1>1, FS_Interval
<1>3. QED
  BY <1>1, <1>2, FS_Subset

LEMMA PlanEmpty ==
    /\ Shaped(<<>>) /\ Frontless(<<>>)
    /\ \A d, t : Left(<<>>, d, t) = {}
    /\ \A d : ~EndsIn(<<>>, d) /\ ~SettlesIn(<<>>, d) /\ ~MarksIn(<<>>, d)
  BY DEF Shaped, Frontless, Left, EndsIn, SettlesIn, MarksIn

(* A plan of one statement that sends nothing.                             *)
LEMMA PlanOne ==
    ASSUME NEW s \in StatementRecords, ~SendOp(s)
    PROVE  /\ Shaped(<<s>>)
           /\ s.op # "debouncing" /\ s.rows = {} => Frontless(<<s>>)
           /\ \A d, t : Left(<<s>>, d, t) = {}
           /\ \A d : /\ EndsIn(<<s>>, d) <=> EndOp(s) /\ d \in s.ids
                     /\ SettlesIn(<<s>>, d) <=> SettleOp(s) /\ d \in s.ids
                     /\ MarksIn(<<s>>, d) <=> s.op = "debouncing" /\ d \in s.ids
<1>1. Len(<<s>>) = 1 /\ <<s>>[1] = s /\ \A j \in 1 .. 1 : j = 1
  OBVIOUS
<1>2. \A d, t : Left(<<s>>, d, t) = {}
  BY <1>1 DEF Left
<1>3. QED
  BY <1>1, <1>2 DEF Shaped, Frontless, EndsIn, SettlesIn, MarksIn

LEMMA PlanUpdate ==
    ASSUME NEW op \in Operations \ {"target", "force"}, NEW ids \in SUBSET Receipts
    PROVE  LET p == Update(op, ids)
           IN  /\ Shaped(p) /\ (op # "debouncing" => Frontless(p))
               /\ \A d, t : Left(p, d, t) = {}
               /\ \A d : /\ EndsIn(p, d) <=> op \in {"first", "rest"} /\ d \in ids
                         /\ SettlesIn(p, d) <=> op \notin {"take", "debouncing"} /\ d \in ids
                         /\ MarksIn(p, d) <=> op = "debouncing" /\ d \in ids
               /\ \A j \in 1 .. Len(p) : p[j].rows = {}
<1>1. CASE ids = {}
  <2>1. Update(op, ids) = <<>>
    BY <1>1 DEF Update
  <2>2. QED
    BY <1>1, <2>1, PlanEmpty
<1>2. CASE ids # {}
  <2> DEFINE s == Statement(op, ids, {}, NoTarget)
  <2>1. Update(op, ids) = <<s>>
    BY <1>2 DEF Update
  <2>2. s \in StatementRecords /\ s.op = op /\ s.ids = ids /\ s.rows = {}
    BY DEF Statement, StatementRecords
  <2> HIDE DEF s
  <2>3. ~SendOp(s) /\ (EndOp(s) <=> op \in {"first", "rest"})
        /\ (SettleOp(s) <=> op \notin {"take", "debouncing"})
    BY <2>2 DEF SendOp, EndOp, SettleOp, Operations
  <2>4. Len(<<s>>) = 1 /\ <<s>>[1] = s
    BY <2>2
  <2>5. QED
    BY <2>1, <2>2, <2>3, <2>4, PlanOne
<1>3. QED
  BY <1>1, <1>2

(* A plan that sends ids to the targets, once for each mention of one.     *)
PlanFor(p, ids, targets) ==
    /\ Shaped(p) /\ Frontless(p) /\ p \in Seq(StatementRecords)
    /\ \A d, t : /\ Left(p, d, t) # {} => d \in ids
                 /\ AtMost(Left(p, d, t), {k \in DOMAIN targets : targets[k] = t})
    /\ \A d : /\ EndsIn(p, d) <=> d \in ids
              /\ SettlesIn(p, d) <=> d \in ids
              /\ ~MarksIn(p, d)

LEMMA PlanDispatch ==
    ASSUME NEW ids \in SUBSET Receipts, NEW targets \in Seq(Members \cup Channels),
           NEW op \in {"target", "force"}
    PROVE  PlanFor(Dispatch(ids, targets, op), ids, targets)
<1> DEFINE n == Len(targets)
           a == [k \in 1 .. n |-> Statement(op, ids, {}, targets[k])]
           b == <<Statement("first", ids, {}, NoTarget)>>
<1>1. CASE ids = {}
  <2>1. Dispatch(ids, targets, op) = <<>>
    BY <1>1 DEF Dispatch
  <2>2. QED
    <3>1. <<>> \in Seq(StatementRecords) /\ \A d : d \notin ids
      BY <1>1
    <3>2. QED
      BY <2>1, <3>1, PlanEmpty, EmptyAtMost, MentionsOfFinite DEF PlanFor
<1>2. CASE ids # {}
  <2>1. n \in Nat /\ DOMAIN targets = 1 .. n /\ \A k \in 1 .. n : targets[k] \in Members \cup Channels
    BY LenProperties, ElementOfSeq
  <2>2. a \in Seq(StatementRecords) /\ Len(a) = n
    <3>1. \A k \in 1 .. n : a[k] \in StatementRecords
      BY <2>1 DEF Statement, StatementRecords, Operations
    <3>2. QED
      BY <2>1, <3>1, IsASeq, LenProperties
  <2>3. b \in Seq(StatementRecords) /\ Len(b) = 1 /\ b[1] = Statement("first", ids, {}, NoTarget)
    BY DEF Statement, StatementRecords, Operations
  <2> DEFINE p == a \o b
  <2>4. /\ p \in Seq(StatementRecords) /\ Len(p) = n + 1
        /\ \A k \in 1 .. n : p[k] = Statement(op, ids, {}, targets[k])
        /\ p[n + 1] = Statement("first", ids, {}, NoTarget)
    <3>1. p \in Seq(StatementRecords) /\ Len(p) = n + 1
          /\ \A k \in 1 .. n + 1 : p[k] = IF k <= n THEN a[k] ELSE b[k - n]
      BY <2>2, <2>3, ConcatProperties
    <3>2. \A k \in 1 .. n : p[k] = a[k]
      BY <2>1, <3>1
    <3>3. p[n + 1] = b[1]
      BY <2>1, <3>1
    <3>4. QED
      BY <2>3, <3>1, <3>2, <3>3
  <2>5. Dispatch(ids, targets, op) = p
    BY <1>2 DEF Dispatch, Update
  <2> HIDE DEF p, a, b
  <2>6. /\ \A k \in 1 .. n : /\ p[k].op = op /\ p[k].ids = ids /\ p[k].to = targets[k]
                             /\ p[k].rows = {}
        /\ p[n + 1].op = "first" /\ p[n + 1].ids = ids /\ p[n + 1].rows = {}
    <3>1. \A to : LET s == Statement(op, ids, {}, to)
                  IN  s.op = op /\ s.ids = ids /\ s.to = to /\ s.rows = {}
      BY DEF Statement
    <3>2. Statement("first", ids, {}, NoTarget).op = "first"
          /\ Statement("first", ids, {}, NoTarget).ids = ids
          /\ Statement("first", ids, {}, NoTarget).rows = {}
      BY DEF Statement
    <3>3. QED
      BY <2>4, <3>1, <3>2
  <2>7. /\ \A k \in 1 .. Len(p) : k \in 1 .. n \/ k = n + 1
        /\ \A k \in 1 .. n : k \in 1 .. Len(p)
        /\ n + 1 \in 1 .. Len(p)
    BY <2>1, <2>4
  <2>8. /\ \A k \in 1 .. n : SendOp(p[k]) /\ ~EndOp(p[k]) /\ ~SettleOp(p[k])
        /\ ~SendOp(p[n + 1]) /\ EndOp(p[n + 1]) /\ SettleOp(p[n + 1])
    BY <2>6 DEF SendOp, EndOp, SettleOp
  <2>9. Shaped(p)
    BY <2>4, <2>6, <2>7, <2>8 DEF Shaped
  <2>10. Frontless(p) /\ \A d : ~MarksIn(p, d)
    BY <2>6, <2>7 DEF Frontless, MarksIn
  <2>11. ASSUME NEW d, NEW t
         PROVE  /\ Left(p, d, t) # {} => d \in ids
                /\ AtMost(Left(p, d, t), {k \in DOMAIN targets : targets[k] = t})
    <3> DEFINE T == {k \in DOMAIN targets : targets[k] = t}
               f == [i \in Left(p, d, t) |-> n + 1 - i]
    <3>1. ASSUME NEW i \in Left(p, d, t)
          PROVE  d \in ids /\ n + 1 - i \in T /\ i \in Nat
      <4>1. i \in 0 .. n /\ SendOp(p[n + 1 - i]) /\ d \in p[n + 1 - i].ids /\ p[n + 1 - i].to = t
        BY <2>1, <2>4 DEF Left
      <4>2. i # 0
        BY <2>1, <2>8, <4>1
      <4>3. n + 1 - i \in 1 .. n
        BY <2>1, <4>1, <4>2
      <4>4. QED
        BY <2>1, <2>6, <4>1, <4>3
    <3>2. f \in [Left(p, d, t) -> T]
      BY <3>1
    <3>3. ASSUME NEW i \in Left(p, d, t), NEW k \in Left(p, d, t), f[i] = f[k]
          PROVE  i = k
      BY <2>1, <3>1, <3>3
    <3> HIDE DEF f
    <3>4. AtMost(Left(p, d, t), T)
      <4>1. IsFiniteSet(T)
        BY MentionsOfFinite
      <4> HIDE DEF T, p
      <4>2. QED
        BY <3>2, <3>3, <4>1, InjectionCounts
    <3>5. QED
      BY <3>1, <3>4
  <2>12. \A d : (EndsIn(p, d) <=> d \in ids) /\ (SettlesIn(p, d) <=> d \in ids)
    BY <2>6, <2>7, <2>8 DEF EndsIn, SettlesIn
  <2>13. QED
    BY <2>4, <2>5, <2>9, <2>10, <2>11, <2>12 DEF PlanFor
<1>3. QED
  BY <1>1, <1>2

(* A statement that neither sends nor records, before a plan.              *)
LEMMA PlanAfter ==
    ASSUME NEW s \in StatementRecords, ~SendOp(s), ~EndOp(s),
           NEW p \in Seq(StatementRecords), Shaped(p), Frontless(p)
    PROVE  LET c == <<s>> \o p
           IN  /\ Shaped(c) /\ c # <<>> /\ Head(c) = s
               /\ \A d, t : Left(c, d, t) = Left(p, d, t)
               /\ \A d : /\ EndsIn(c, d) <=> EndsIn(p, d)
                         /\ SettlesIn(c, d) <=> (SettleOp(s) /\ d \in s.ids) \/ SettlesIn(p, d)
                         /\ MarksIn(c, d) <=> s.op = "debouncing" /\ d \in s.ids
               /\ s.rows = {} => \A j \in 1 .. Len(c) : c[j].rows = {}
<1> DEFINE c == <<s>> \o p
<1>1. Len(p) \in Nat
  BY LenProperties
<1>2. /\ c \in Seq(StatementRecords) /\ Len(c) = 1 + Len(p) /\ c[1] = s
      /\ \A k \in 1 .. Len(p) : c[k + 1] = p[k]
  <2>1. <<s>> \in Seq(StatementRecords) /\ Len(<<s>>) = 1 /\ <<s>>[1] = s
    OBVIOUS
  <2>2. /\ c \in Seq(StatementRecords) /\ Len(c) = 1 + Len(p)
        /\ \A k \in 1 .. 1 + Len(p) : c[k] = IF k <= 1 THEN <<s>>[k] ELSE p[k - 1]
    BY <2>1, ConcatProperties
  <2>3. QED
    BY <1>1, <2>1, <2>2
<1> HIDE DEF c
<1>3. c # <<>> /\ Head(c) = s
  BY <1>1, <1>2, HeadTailProperties, EmptySeq
<1>4. /\ 1 \in 1 .. Len(c)
      /\ \A k \in 1 .. Len(p) : k + 1 \in 1 .. Len(c) /\ c[k + 1] = p[k] /\ k + 1 # 1
      /\ \A j \in 1 .. Len(c) : j = 1 \/ (j - 1 \in 1 .. Len(p) /\ c[j] = p[j - 1] /\ j # 1)
  <2>1. \A j \in 1 .. Len(c) : j = 1 \/ (j - 1 \in 1 .. Len(p) /\ j = (j - 1) + 1 /\ j # 1)
    BY <1>1, <1>2
  <2>2. QED
    BY <1>1, <1>2, <2>1
<1>5. ASSUME NEW d, NEW t
      PROVE  Left(c, d, t) = Left(p, d, t)
  <2>1. \A i \in 0 .. Len(p) - 1 : Len(p) - i \in 1 .. Len(p) /\ Len(c) - i = Len(p) - i + 1
    BY <1>1, <1>2
  <2>2. \A i \in 0 .. Len(p) - 1 : c[Len(c) - i] = p[Len(p) - i]
    BY <1>2, <2>1
  <2>3. \A i \in 0 .. Len(c) - 1 : i \in 0 .. Len(p) - 1 \/ (i = Len(p) /\ Len(c) - i = 1)
    BY <1>1, <1>2
  <2>4. \A i \in 0 .. Len(p) - 1 : i \in 0 .. Len(c) - 1
    BY <1>1, <1>2
  <2>5. QED
    BY <1>2, <2>2, <2>3, <2>4 DEF Left
<1>6. \A d : EndsIn(c, d) <=> EndsIn(p, d)
  BY <1>2, <1>4 DEF EndsIn
<1>7. \A d : SettlesIn(c, d) <=> (SettleOp(s) /\ d \in s.ids) \/ SettlesIn(p, d)
  BY <1>2, <1>4 DEF SettlesIn
<1>8. \A d : MarksIn(c, d) <=> s.op = "debouncing" /\ d \in s.ids
  BY <1>2, <1>4 DEF MarksIn, Frontless
<1>9. s.rows = {} => \A j \in 1 .. Len(c) : c[j].rows = {}
  BY <1>2, <1>4 DEF Frontless
<1>10. Shaped(c)
  <2>1. ASSUME NEW j \in 1 .. Len(c), SendOp(c[j])
        PROVE  c[Len(c)].op = "first" /\ c[Len(c)].ids = c[j].ids
    <3>1. j - 1 \in 1 .. Len(p) /\ c[j] = p[j - 1]
      BY <1>2, <1>4, <2>1
    <3>2. p[Len(p)].op = "first" /\ p[Len(p)].ids = p[j - 1].ids
      BY <2>1, <3>1 DEF Shaped
    <3>3. Len(p) \in 1 .. Len(p) /\ Len(c) = Len(p) + 1
      BY <1>1, <1>2, <3>1
    <3>4. QED
      BY <1>4, <3>1, <3>2, <3>3
  <2>2. ASSUME NEW j \in 1 .. Len(c), EndOp(c[j])
        PROVE  j = Len(c)
    <3>1. j - 1 \in 1 .. Len(p) /\ c[j] = p[j - 1]
      BY <1>2, <1>4, <2>2
    <3>2. j - 1 = Len(p)
      BY <2>2, <3>1 DEF Shaped
    <3>3. QED
      BY <1>1, <1>2, <3>2
  <2>3. ASSUME NEW j \in 1 .. Len(c), c[j].op = "debouncing" \/ c[j].rows # {}
        PROVE  j = 1
    BY <1>4, <2>3 DEF Frontless
  <2>4. QED
    BY <2>1, <2>2, <2>3 DEF Shaped
<1>11. QED
  BY <1>3, <1>5, <1>6, <1>7, <1>8, <1>9, <1>10 DEF c

(* flushDebounce's and recover's plan.                                     *)
LEMMA PlanToTargets ==
    ASSUME TypeOK, NEW rows, NEW ids \in SUBSET Receipts
    PROVE  LET p == ToTargets(rows, ids)
           IN  /\ Shaped(p) /\ Frontless(p) /\ p \in Seq(StatementRecords)
               /\ \A d, t : /\ Left(p, d, t) # {} => d \in ids
                            /\ AtMost(Left(p, d, t), Mentions(t))
               /\ \A d : ~MarksIn(p, d)
               /\ endpoint = "live" =>
                    \A d \in ids : There(rows[d]) => SettlesIn(p, d)
<1> DEFINE kept == StillKept(rows, ids)
           p == ToTargets(rows, ids)
<1>1. kept \in SUBSET Receipts /\ kept \subseteq ids /\ \A d \in ids : There(rows[d]) => d \in kept
  BY DEF StillKept, There
<1>2. setup.targets \in Seq(Members \cup Channels)
  BY TargetsOK
<1> HIDE DEF kept
<1>3. CASE endpoint = "live"
  <2>1. p = Dispatch(kept, setup.targets, "target")
    BY <1>3 DEF ToTargets, kept
  <2>2. /\ Shaped(p) /\ Frontless(p) /\ p \in Seq(StatementRecords)
        /\ \A d, t : /\ Left(p, d, t) # {} => d \in kept
                     /\ AtMost(Left(p, d, t), Mentions(t))
        /\ \A d : (SettlesIn(p, d) <=> d \in kept) /\ ~MarksIn(p, d)
    <3> DEFINE c == Dispatch(kept, setup.targets, "target")
    <3>1. "target" \in {"target", "force"}
      OBVIOUS
    <3>2. PlanFor(c, kept, setup.targets)
      BY <1>1, <1>2, <3>1, PlanDispatch
    <3>3. p = c
      BY <2>1
    <3> HIDE DEF c, p
    <3>4. QED
      BY <3>2, <3>3 DEF PlanFor, Mentions
  <2> HIDE DEF p
  <2>3. QED
    BY <1>1, <2>2 DEF p
<1>4. CASE endpoint # "live"
  <2>1. p = <<>>
    BY <1>4 DEF ToTargets
  <2>2. \A t : AtMost({}, Mentions(t))
    BY <1>2, MentionsOfFinite, EmptyAtMost DEF Mentions
  <2>3. <<>> \in Seq(StatementRecords)
    OBVIOUS
  <2>4. QED
    BY <1>4, <2>1, <2>2, <2>3, PlanEmpty
<1>5. QED
  BY <1>3, <1>4

(* flushPendingRows' plan.                                                 *)
LEMMA PlanFlush ==
    ASSUME NEW taken \in SUBSET QueueRows, NEW m \in Members
    PROVE  LET p == FlushPending(taken, m)
           IN  /\ Shaped(p)
               /\ \A d, t : /\ Left(p, d, t) # {} => t = m /\ \E q \in taken : d \in q.ids
                            /\ AtMost(Left(p, d, t), {1})
               /\ \A d : ~MarksIn(p, d)
               /\ p # <<>> => Head(p).rows = taken
               /\ endpoint = "live" =>
                    \A q \in taken : \A d \in q.ids : There(row[d]) => SettlesIn(p, d)
<1> DEFINE kept == StillKept(row, Named(taken))
           b == IF endpoint = "live" THEN Dispatch(kept, <<m>>, "force") ELSE <<>>
           p == FlushPending(taken, m)
<1>1. /\ kept \in SUBSET Receipts
      /\ \A d \in kept : \E q \in taken : d \in q.ids
      /\ \A q \in taken : \A d \in q.ids : There(row[d]) => d \in kept
  BY NamedType DEF StillKept, There, Named
<1>2. <<m>> \in Seq(Members \cup Channels) /\ DOMAIN <<m>> = {1} /\ <<m>>[1] = m
  OBVIOUS
<1> HIDE DEF kept
<1>3. /\ Shaped(b) /\ Frontless(b) /\ b \in Seq(StatementRecords)
      /\ \A d, t : /\ Left(b, d, t) # {} => t = m /\ d \in kept
                   /\ AtMost(Left(b, d, t), {1})
      /\ endpoint = "live" => \A d \in kept : SettlesIn(b, d)
  <2>1. CASE endpoint = "live"
    <3>1. b = Dispatch(kept, <<m>>, "force")
      BY <2>1
    <3>2. /\ Shaped(b) /\ Frontless(b) /\ b \in Seq(StatementRecords)
          /\ \A d, t : /\ Left(b, d, t) # {} => d \in kept
                       /\ AtMost(Left(b, d, t), {k \in DOMAIN <<m>> : <<m>>[k] = t})
          /\ \A d : SettlesIn(b, d) <=> d \in kept
      <4> DEFINE c == Dispatch(kept, <<m>>, "force")
      <4>1. "force" \in {"target", "force"}
        OBVIOUS
      <4>2. PlanFor(c, kept, <<m>>)
        BY <1>1, <1>2, <4>1, PlanDispatch
      <4> HIDE DEF c
      <4>3. b = c
        BY <3>1 DEF c
      <4> HIDE DEF b
      <4>4. QED
        BY <4>2, <4>3 DEF PlanFor
    <3> HIDE DEF b
    <3>3. ASSUME NEW d, NEW t
          PROVE  (Left(b, d, t) # {} => t = m) /\ AtMost(Left(b, d, t), {1})
      <4> DEFINE T == {k \in DOMAIN <<m>> : <<m>>[k] = t}
      <4>1. AtMost(Left(b, d, t), T)
        BY <3>2
      <4>2. T = IF t = m THEN {1} ELSE {}
        BY <1>2
      <4> HIDE DEF T
      <4>3. CASE t = m
        BY <4>1, <4>2, <4>3
      <4>4. CASE t # m
        <5>1. PICK L : L = Left(b, d, t)
          OBVIOUS
        <5>2. AtMost(L, {})
          BY <4>1, <4>2, <4>4, <5>1
        <5>3. L = {}
          BY <5>2, FS_EmptySet, FS_CardinalityType DEF AtMost
        <5>4. AtMost({}, {1})
          BY FS_Singleton, EmptyAtMost
        <5>5. QED
          BY <4>4, <5>1, <5>3, <5>4
      <4>5. QED
        BY <4>3, <4>4
    <3>4. QED
      BY <2>1, <3>2, <3>3
  <2>2. CASE endpoint # "live"
    <3>1. b = <<>> /\ <<>> \in Seq(StatementRecords)
      BY <2>2
    <3>2. AtMost({}, {1})
      BY FS_Singleton, EmptyAtMost
    <3>3. QED
      BY <2>2, <3>1, <3>2, PlanEmpty
  <2>3. QED
    BY <2>1, <2>2
<1>4. p = Take(taken) \o b
  BY DEF FlushPending, kept
<1> HIDE DEF b, p
<1>5. CASE taken = {}
  <2>1. kept = {}
    BY <1>1, <1>5
  <2>2. b = <<>> /\ Take(taken) = <<>>
    BY <1>5, <2>1 DEF b, Dispatch, Take
  <2>3. p = <<>>
    BY <1>4, <2>2
  <2>4. AtMost({}, {1})
    BY FS_Singleton, EmptyAtMost
  <2>5. QED
    BY <1>5, <2>3, <2>4, PlanEmpty DEF p
<1>6. CASE taken # {}
  <2> DEFINE s == Statement("take", {}, taken, NoTarget)
  <2>1. s \in StatementRecords /\ s.rows = taken /\ s.op = "take" /\ s.ids = {}
    BY DEF Statement, StatementRecords, Operations
  <2>2. Take(taken) = <<s>>
    BY <1>6 DEF Take
  <2> HIDE DEF s
  <2>3. ~SendOp(s) /\ ~EndOp(s) /\ ~SettleOp(s)
    BY <2>1 DEF SendOp, EndOp, SettleOp
  <2>4. /\ Shaped(p) /\ Head(p) = s
        /\ \A d, t : Left(p, d, t) = Left(b, d, t)
        /\ \A d : (SettlesIn(p, d) <=> SettlesIn(b, d)) /\ ~MarksIn(p, d)
    BY <1>3, <1>4, <2>1, <2>2, <2>3, PlanAfter
  <2>5. QED
    BY <1>1, <1>3, <2>1, <2>4 DEF p
<1>7. QED
  BY <1>5, <1>6

(* The sweep's plan for rows that expire.                                  *)
LEMMA PlanSweep ==
    ASSUME NEW due \in SUBSET QueueRows, due # {}
    PROVE  LET p == Take(due) \o Update("expired", StillKept(row, Named(due)))
           IN  /\ Shaped(p)
               /\ \A d, t : Left(p, d, t) = {}
               /\ \A d : ~MarksIn(p, d)
               /\ p # <<>> => Head(p).rows = due
               /\ \A q \in due : \A d \in q.ids : There(row[d]) => SettlesIn(p, d)
<1> DEFINE kept == StillKept(row, Named(due))
           b == Update("expired", kept)
           s == Statement("take", {}, due, NoTarget)
           p == Take(due) \o b
<1>1. kept \in SUBSET Receipts
      /\ \A q \in due : \A d \in q.ids : There(row[d]) => d \in kept
  BY NamedType DEF StillKept, There, Named
<1> HIDE DEF kept
<1>2. s \in StatementRecords /\ s.rows = due /\ s.op = "take" /\ s.ids = {}
  BY DEF Statement, StatementRecords, Operations
<1>3. Take(due) = <<s>>
  BY DEF Take
<1>4. b \in Seq(StatementRecords)
  <2>1. Statement("expired", kept, {}, NoTarget) \in StatementRecords
    BY <1>1 DEF Statement, StatementRecords, Operations
  <2>2. QED
    BY <2>1 DEF Update
<1>5. /\ Shaped(b) /\ Frontless(b)
      /\ \A d, t : Left(b, d, t) = {}
      /\ \A d : SettlesIn(b, d) <=> d \in kept
  BY <1>1, PlanUpdate DEF Operations
<1> HIDE DEF s, b
<1>6. ~SendOp(s) /\ ~EndOp(s) /\ ~SettleOp(s)
  BY <1>2 DEF SendOp, EndOp, SettleOp
<1>7. p = <<s>> \o b
  BY <1>3
<1> HIDE DEF p
<1>8. /\ Shaped(p) /\ Head(p) = s
      /\ \A d, t : Left(p, d, t) = {}
      /\ \A d : (SettlesIn(p, d) <=> SettlesIn(b, d)) /\ ~MarksIn(p, d)
  BY <1>2, <1>4, <1>5, <1>6, <1>7, PlanAfter
<1>9. QED
  BY <1>1, <1>2, <1>5, <1>8 DEF p, b, kept

-----------------------------------------------------------------------------
(* A plan whose first statement is done, or in part.                       *)

LEMMA PlanTail ==
    ASSUME NEW p \in Seq(StatementRecords), p # <<>>, Shaped(p)
    PROVE  LET s == Head(p)
               r == Tail(p)
           IN  /\ Shaped(r) /\ Frontless(r) /\ r \in Seq(StatementRecords)
               /\ r # <<>> => Head(r).rows = {} /\ r[Len(r)] = p[Len(p)]
               /\ \A d, t : Left(r, d, t) \subseteq Left(p, d, t)
               /\ \A d : /\ EndsIn(p, d) <=> (EndOp(s) /\ d \in s.ids) \/ EndsIn(r, d)
                         /\ SettlesIn(p, d) <=> (SettleOp(s) /\ d \in s.ids) \/ SettlesIn(r, d)
                         /\ MarksIn(p, d) <=> s.op = "debouncing" /\ d \in s.ids
               /\ SendOp(s) => /\ r # <<>> /\ EndOp(p[Len(p)]) /\ p[Len(p)].ids = s.ids
                               /\ \A d \in s.ids : /\ EndsIn(r, d)
                                                   /\ Len(r) \in Left(p, d, s.to)
                                                   /\ Len(r) \notin Left(r, d, s.to)
               /\ EndOp(s) => r = <<>> /\ Len(p) = 1
<1> DEFINE s == Head(p)
           r == Tail(p)
<1>1. /\ Len(p) \in Nat \ {0} /\ s = p[1] /\ s \in StatementRecords
      /\ r \in Seq(StatementRecords) /\ Len(r) = Len(p) - 1 /\ Len(r) \in Nat
      /\ \A k \in 1 .. Len(p) - 1 : r[k] = p[k + 1]
  BY HeadTailProperties, EmptySeq, LenProperties, ElementOfSeq
<1> HIDE DEF s, r
<1>2. /\ 1 \in 1 .. Len(p) /\ Len(p) \in 1 .. Len(p)
      /\ \A k \in 1 .. Len(r) : k + 1 \in 1 .. Len(p) /\ r[k] = p[k + 1] /\ k + 1 # 1
      /\ \A j \in 1 .. Len(p) : j = 1 \/ (j - 1 \in 1 .. Len(r) /\ p[j] = r[j - 1] /\ j # 1)
  <2>1. \A j \in 1 .. Len(p) : j = 1 \/ (j - 1 \in 1 .. Len(r) /\ j = (j - 1) + 1 /\ j # 1)
    BY <1>1
  <2>2. QED
    BY <1>1, <2>1
<1>3. Frontless(r)
  BY <1>2 DEF Frontless, Shaped
<1>4. r # <<>> => /\ 1 \in 1 .. Len(r) /\ Len(r) \in 1 .. Len(r) /\ Head(r) = r[1]
                  /\ r[Len(r)] = p[Len(p)]
  <2>1. r # <<>> => Len(r) \in Nat \ {0} /\ Head(r) = r[1]
    BY <1>1, EmptySeq, HeadTailProperties
  <2>2. Len(r) + 1 = Len(p)
    BY <1>1
  <2>3. QED
    BY <1>1, <2>1, <2>2
<1>5. Shaped(r)
  <2>1. ASSUME NEW j \in 1 .. Len(r), SendOp(r[j])
        PROVE  r[Len(r)].op = "first" /\ r[Len(r)].ids = r[j].ids
    <3>1. r # <<>>
      BY <1>1, <2>1
    <3>2. QED
      BY <1>2, <1>4, <2>1, <3>1 DEF Shaped
  <2>2. ASSUME NEW j \in 1 .. Len(r), EndOp(r[j])
        PROVE  j = Len(r)
    <3>1. j + 1 = Len(p)
      BY <1>2, <2>2 DEF Shaped
    <3>2. QED
      BY <1>1, <3>1
  <2>3. QED
    BY <1>3, <2>1, <2>2 DEF Shaped, Frontless
<1>6. ASSUME NEW d, NEW t
      PROVE  Left(r, d, t) \subseteq Left(p, d, t)
  <2>1. \A i \in 0 .. Len(r) - 1 :
          /\ i \in 0 .. Len(p) - 1 /\ Len(r) - i \in 1 .. Len(r)
          /\ Len(p) - i = Len(r) - i + 1
    BY <1>1
  <2>2. \A i \in 0 .. Len(r) - 1 : r[Len(r) - i] = p[Len(p) - i]
    BY <1>2, <2>1
  <2>3. QED
    BY <2>1, <2>2 DEF Left
<1>7. \A d : EndsIn(p, d) <=> (EndOp(s) /\ d \in s.ids) \/ EndsIn(r, d)
  BY <1>1, <1>2 DEF EndsIn
<1>8. \A d : SettlesIn(p, d) <=> (SettleOp(s) /\ d \in s.ids) \/ SettlesIn(r, d)
  BY <1>1, <1>2 DEF SettlesIn
<1>9. \A d : MarksIn(p, d) <=> s.op = "debouncing" /\ d \in s.ids
  BY <1>1, <1>2 DEF MarksIn, Shaped
<1>10. ASSUME SendOp(s)
       PROVE  /\ r # <<>> /\ EndOp(p[Len(p)]) /\ p[Len(p)].ids = s.ids
              /\ \A d \in s.ids : /\ EndsIn(r, d)
                                  /\ Len(r) \in Left(p, d, s.to)
                                  /\ Len(r) \notin Left(r, d, s.to)
  <2>1. p[Len(p)].op = "first" /\ p[Len(p)].ids = s.ids
    BY <1>1, <1>2, <1>10 DEF Shaped
  <2>2. EndOp(p[Len(p)]) /\ ~EndOp(s)
    BY <1>10, <2>1 DEF EndOp, SendOp
  <2>3. Len(p) # 1
    BY <1>1, <2>2
  <2>4. r # <<>>
    BY <1>1, <2>3
  <2>5. \A d \in s.ids : EndsIn(r, d)
    BY <1>4, <2>1, <2>2, <2>4 DEF EndsIn
  <2>6. Len(r) \in 0 .. Len(p) - 1 /\ p[Len(p) - Len(r)] = s /\ Len(r) \notin 0 .. Len(r) - 1
    BY <1>1
  <2>7. \A d \in s.ids : Len(r) \in Left(p, d, s.to) /\ Len(r) \notin Left(r, d, s.to)
    BY <1>10, <2>6 DEF Left
  <2>8. QED
    BY <2>1, <2>2, <2>4, <2>5, <2>7
<1>11. EndOp(s) => r = <<>> /\ Len(p) = 1
  <2>1. EndOp(s) => Len(p) = 1
    BY <1>1, <1>2 DEF Shaped
  <2>2. Len(p) = 1 => r = <<>>
    BY <1>1, EmptySeq
  <2>3. QED
    BY <2>1, <2>2
<1>12. QED
  BY <1>1, <1>3, <1>4, <1>5, <1>6, <1>7, <1>8, <1>9, <1>10, <1>11 DEF s, r, Frontless

LEMMA PlanReplaced ==
    ASSUME NEW p \in Seq(StatementRecords), p # <<>>, Shaped(p), ~SendOp(Head(p)),
           NEW s \in StatementRecords, ~SendOp(s), EndOp(s) <=> EndOp(Head(p))
    PROVE  LET r == Tail(p)
               c == <<s>> \o r
           IN  /\ Shaped(c) /\ c # <<>> /\ Head(c) = s
               /\ \A d, t : Left(c, d, t) \subseteq Left(p, d, t)
               /\ \A d : /\ EndsIn(c, d) <=> (EndOp(s) /\ d \in s.ids) \/ EndsIn(r, d)
                         /\ SettlesIn(c, d) <=> (SettleOp(s) /\ d \in s.ids) \/ SettlesIn(r, d)
                         /\ MarksIn(c, d) <=> s.op = "debouncing" /\ d \in s.ids
               /\ c[Len(c)] = IF r = <<>> THEN s ELSE p[Len(p)]
<1> DEFINE r == Tail(p)
           c == <<s>> \o r
<1>1. /\ Shaped(r) /\ Frontless(r) /\ r \in Seq(StatementRecords)
      /\ r # <<>> => r[Len(r)] = p[Len(p)]
      /\ \A d, t : Left(r, d, t) \subseteq Left(p, d, t)
      /\ EndOp(Head(p)) => r = <<>>
  BY PlanTail
<1> HIDE DEF r
<1>2. CASE r = <<>>
  <2>1. c = <<s>> /\ c # <<>> /\ Head(c) = s /\ Len(c) = 1 /\ c[1] = s
    BY <1>2
  <2> HIDE DEF c
  <2>2. c = <<s>> \o r /\ r = Tail(p)
    BY DEF c, r
  <2>3. /\ Shaped(<<s>>)
        /\ \A d, t : Left(<<s>>, d, t) = {}
        /\ \A d : /\ EndsIn(<<s>>, d) <=> EndOp(s) /\ d \in s.ids
                  /\ SettlesIn(<<s>>, d) <=> SettleOp(s) /\ d \in s.ids
                  /\ MarksIn(<<s>>, d) <=> s.op = "debouncing" /\ d \in s.ids
    BY PlanOne
  <2>4. QED
    BY <1>2, <2>1, <2>2, <2>3, PlanEmpty DEF c, r
<1>3. CASE r # <<>>
  <2>1. ~EndOp(s)
    BY <1>1, <1>3
  <2>2. /\ Shaped(c) /\ c # <<>> /\ Head(c) = s
        /\ \A d, t : Left(c, d, t) = Left(r, d, t)
        /\ \A d : /\ EndsIn(c, d) <=> EndsIn(r, d)
                  /\ SettlesIn(c, d) <=> (SettleOp(s) /\ d \in s.ids) \/ SettlesIn(r, d)
                  /\ MarksIn(c, d) <=> s.op = "debouncing" /\ d \in s.ids
    BY <1>1, <2>1, PlanAfter
  <2>3. c[Len(c)] = p[Len(p)]
    <3>1. <<s>> \in Seq(StatementRecords) /\ Len(<<s>>) = 1
      OBVIOUS
    <3>2. Len(r) \in Nat \ {0}
      BY <1>1, <1>3, LenProperties, EmptySeq
    <3>3. /\ Len(c) = 1 + Len(r)
          /\ \A k \in 1 .. 1 + Len(r) : c[k] = IF k <= 1 THEN <<s>>[k] ELSE r[k - 1]
      BY <1>1, <3>1, ConcatProperties
    <3>4. c[1 + Len(r)] = r[1 + Len(r) - 1] /\ 1 + Len(r) - 1 = Len(r)
      BY <3>2, <3>3
    <3>5. QED
      BY <1>1, <1>3, <3>3, <3>4
  <2> HIDE DEF c
  <2>4. QED
    BY <1>1, <1>3, <2>1, <2>2, <2>3 DEF c, r
<1>4. QED
  BY <1>2, <1>3

LEMMA ConcatEmpty == \A p \in Seq(StatementRecords) : <<>> \o p = p
  BY EmptySeq, ConcatProperties

(* One receipt of the head is done.                                        *)
LEMMA AfterId ==
    ASSUME GoodPlan(todo, row), Shaped(todo), todo # <<>>, ~SendOp(Head(todo)),
           Head(todo).op # "take", NEW d \in Head(todo).ids
    PROVE  LET s == Head(todo)
               c == DoneId(d)
           IN  /\ Shaped(c) /\ (c # <<>> => Head(c).rows = {})
               /\ \A x, t : Left(c, x, t) \subseteq Left(todo, x, t)
               /\ \A x : /\ EndsIn(todo, x) => EndsIn(c, x) \/ (EndOp(s) /\ x = d)
                         /\ SettlesIn(todo, x) => SettlesIn(c, x) \/ (SettleOp(s) /\ x = d)
                         /\ MarksIn(todo, x) => MarksIn(c, x) \/ (s.op = "debouncing" /\ x = d)
                         /\ MarksIn(c, x) => MarksIn(todo, x)
               /\ c # <<>> => c[Len(c)].ids \subseteq todo[Len(todo)].ids
               /\ EndOp(s) => todo[Len(todo)] = s
               /\ s.op = "debouncing" => MarksIn(todo, d)
<1> DEFINE s == Head(todo)
           c == DoneId(d)
           r == Tail(todo)
           op == IF s.op = "first" THEN "rest" ELSE s.op
           ids == s.ids \ {d}
           n == Statement(op, ids, {}, NoTarget)
<1>1. todo \in Seq(StatementRecords) /\ s \in StatementRecords /\ s.rows = {}
  BY GoodSplit DEF GoodPlan, GoodStatement
<1>2. /\ Shaped(r) /\ Frontless(r) /\ r \in Seq(StatementRecords)
      /\ r # <<>> => Head(r).rows = {} /\ r[Len(r)] = todo[Len(todo)]
      /\ \A x, t : Left(r, x, t) \subseteq Left(todo, x, t)
      /\ \A x : /\ EndsIn(todo, x) <=> (EndOp(s) /\ x \in s.ids) \/ EndsIn(r, x)
                /\ SettlesIn(todo, x) <=> (SettleOp(s) /\ x \in s.ids) \/ SettlesIn(r, x)
                /\ MarksIn(todo, x) <=> s.op = "debouncing" /\ x \in s.ids
      /\ EndOp(s) => r = <<>> /\ Len(todo) = 1
  BY <1>1, PlanTail
<1>3. EndOp(s) => todo[Len(todo)] = s
  <2>1. s = todo[1]
    BY <1>1, HeadTailProperties, EmptySeq
  <2>2. QED
    BY <1>2, <2>1
<1>4. c = Update(op, ids) \o r
  BY DEF DoneId
<1>5. /\ n \in StatementRecords /\ n.ids = ids /\ n.rows = {} /\ n.op = op
      /\ op \in Operations
  BY <1>1 DEF Statement, StatementRecords, Operations
<1>6. /\ ~SendOp(n) /\ (EndOp(n) <=> EndOp(s)) /\ (SettleOp(n) <=> SettleOp(s))
      /\ (n.op = "debouncing" <=> s.op = "debouncing")
  <2>1. op = s.op \/ (op = "rest" /\ s.op = "first")
    OBVIOUS
  <2> HIDE DEF n, op, s
  <2>2. QED
    BY <1>5, <2>1 DEF SendOp, EndOp, SettleOp, s
<1>7. CASE ids = {}
  <2>1. Update(op, ids) = <<>> /\ \A x \in s.ids : x = d
    BY <1>7 DEF Update
  <2> HIDE DEF s, r, op, ids, n, c
  <2>2. c = r
    BY <1>2, <1>4, <2>1, ConcatEmpty
  <2>3. \A x : ~MarksIn(r, x)
    BY <1>2 DEF MarksIn, Frontless
  <2>4. QED
    BY <1>2, <1>3, <2>1, <2>2, <2>3 DEF s, c
<1>8. CASE ids # {}
  <2>1. Update(op, ids) = <<n>>
    BY <1>8 DEF Update
  <2>2. c = <<n>> \o r
    BY <1>4, <2>1
  <2>3. \A x : x \in ids <=> x \in s.ids /\ x # d
    OBVIOUS
  <2> HIDE DEF n, op, ids, c
  <2>4. /\ Shaped(c) /\ c # <<>> /\ Head(c) = n
        /\ \A x, t : Left(c, x, t) \subseteq Left(todo, x, t)
        /\ \A x : /\ EndsIn(c, x) <=> (EndOp(n) /\ x \in n.ids) \/ EndsIn(r, x)
                  /\ SettlesIn(c, x) <=> (SettleOp(n) /\ x \in n.ids) \/ SettlesIn(r, x)
                  /\ MarksIn(c, x) <=> n.op = "debouncing" /\ x \in n.ids
        /\ c[Len(c)] = IF r = <<>> THEN n ELSE todo[Len(todo)]
    BY <1>1, <1>5, <1>6, <2>2, PlanReplaced
  <2>5. r = <<>> => todo[Len(todo)] = s
    <3>1. Len(todo) \in Nat \ {0} /\ s = todo[1] /\ Len(r) = Len(todo) - 1
      BY <1>1, HeadTailProperties, EmptySeq, LenProperties
    <3>2. r = <<>> => Len(r) = 0
      BY <1>2, EmptySeq
    <3>3. QED
      BY <3>1, <3>2
  <2> HIDE DEF s, r
  <2>6. c[Len(c)].ids \subseteq todo[Len(todo)].ids
    BY <1>5, <2>3, <2>4, <2>5
  <2>7. QED
    BY <1>2, <1>3, <1>5, <1>6, <2>3, <2>4, <2>6 DEF s, c
<1>9. QED
  BY <1>7, <1>8

(* One row of the head is taken.                                           *)
LEMMA AfterRow ==
    ASSUME GoodPlan(todo, row), Shaped(todo), todo # <<>>, Head(todo).op = "take",
           NEW q \in Head(todo).rows
    PROVE  LET s == Head(todo)
               c == DoneRow(q)
           IN  /\ Shaped(c)
               /\ c # <<>> => Head(c).rows \subseteq s.rows
               /\ \A x \in s.rows \ {q} : c # <<>> /\ x \in Head(c).rows
               /\ \A x, t : Left(c, x, t) \subseteq Left(todo, x, t)
               /\ \A x : /\ EndsIn(todo, x) => EndsIn(c, x)
                         /\ SettlesIn(todo, x) => SettlesIn(c, x)
                         /\ ~MarksIn(todo, x) /\ ~MarksIn(c, x)
<1> DEFINE s == Head(todo)
           c == DoneRow(q)
           r == Tail(todo)
           n == Statement("take", {}, s.rows \ {q}, NoTarget)
<1>1. todo \in Seq(StatementRecords) /\ s \in StatementRecords
  BY GoodSplit DEF GoodPlan, GoodStatement
<1>2. ~SendOp(s) /\ ~EndOp(s) /\ ~SettleOp(s)
  BY DEF SendOp, EndOp, SettleOp
<1>3. /\ Shaped(r) /\ Frontless(r) /\ r \in Seq(StatementRecords)
      /\ r # <<>> => Head(r).rows = {}
      /\ \A x, t : Left(r, x, t) \subseteq Left(todo, x, t)
      /\ \A x : /\ EndsIn(todo, x) <=> EndsIn(r, x)
                /\ SettlesIn(todo, x) <=> SettlesIn(r, x)
                /\ ~MarksIn(todo, x)
  BY <1>1, <1>2, PlanTail
<1>4. c = Take(s.rows \ {q}) \o r
  BY DEF DoneRow
<1>5. n \in StatementRecords /\ n.rows = s.rows \ {q} /\ n.op = "take" /\ n.ids = {}
  BY <1>1 DEF Statement, StatementRecords, Operations
<1>6. CASE s.rows \ {q} = {}
  <2>1. Take(s.rows \ {q}) = <<>>
    BY <1>6 DEF Take
  <2>2. c = r
    BY <1>3, <1>4, <2>1, ConcatEmpty
  <2>3. \A x : ~MarksIn(r, x)
    BY <1>3 DEF MarksIn, Frontless
  <2> HIDE DEF s, r, c
  <2>4. QED
    BY <1>3, <1>6, <2>2, <2>3 DEF s, c
<1>7. CASE s.rows \ {q} # {}
  <2>1. Take(s.rows \ {q}) = <<n>>
    BY <1>7 DEF Take
  <2>2. c = <<n>> \o r
    BY <1>4, <2>1
  <2>3. ~SendOp(n) /\ ~EndOp(n)
    BY <1>5 DEF SendOp, EndOp
  <2> HIDE DEF n, c
  <2>4. /\ Shaped(c) /\ c # <<>> /\ Head(c) = n
        /\ \A x, t : Left(c, x, t) \subseteq Left(todo, x, t)
        /\ \A x : /\ EndsIn(c, x) <=> EndsIn(r, x)
                  /\ SettlesIn(c, x) <=> (SettleOp(n) /\ x \in n.ids) \/ SettlesIn(r, x)
                  /\ MarksIn(c, x) <=> n.op = "debouncing" /\ x \in n.ids
    BY <1>1, <1>2, <1>5, <2>2, <2>3, PlanReplaced
  <2> HIDE DEF s, r
  <2>5. QED
    BY <1>3, <1>5, <2>4 DEF s, c
<1>8. QED
  BY <1>6, <1>7

-----------------------------------------------------------------------------
(* What is stored about a delivery's targets stays true when messages keep *)
(* their contents and the queue only loses.                                *)

HoldInv == IInv /\ Shaped(todo) /\ Once /\ Holding

SentKeeps ==
    /\ DOMAIN sent' = DOMAIN sent
    /\ \A k \in DOMAIN sent : sent'[k].ids = sent[k].ids /\ sent'[k].to = sent[k].to

QueueShrinks ==
    \E f \in [queue' -> queue] :
        /\ \A q, x \in queue' : f[q] = f[x] => q = x
        /\ \A q \in queue' : q.to = f[q].to /\ q.ids \subseteq f[q].ids

LEMMA FreshStays ==
    ASSUME SentKeeps, QueueShrinks, NEW d, Fresh(d)
    PROVE  Fresh(d)'
  BY DEF SentKeeps, QueueShrinks, Fresh

LEMMA QueueStaysFinite ==
    ASSUME QueueShrinks, IsFiniteSet(queue)
    PROVE  IsFiniteSet(queue')
  BY InjectionCounts DEF QueueShrinks, AtMost

LEMMA SameShrinks ==
    ASSUME queue' \subseteq queue
    PROVE  QueueShrinks
<1> DEFINE f == [q \in queue' |-> q]
<1>1. f \in [queue' -> queue] /\ \A q \in queue' : f[q] = q
  OBVIOUS
<1> HIDE DEF f
<1>2. QED
  BY <1>1 DEF QueueShrinks

(* What is counted is finite.                                              *)
LEMMA Counted ==
    ASSUME TypeOK, IsFiniteSet(queue), NEW d, NEW t
    PROVE  /\ IsFiniteSet(SentTo(d, t)) /\ IsFiniteSet(Waiting(d, t))
           /\ IsFiniteSet(Left(todo, d, t)) /\ IsFiniteSet(Mentions(t))
<1>1. IsFiniteSet(SentTo(d, t))
  <2>1. DOMAIN sent = 1 .. Len(sent) /\ Len(sent) \in Nat
    BY LenProperties DEF TypeOK
  <2>2. IsFiniteSet(1 .. Len(sent)) /\ SentTo(d, t) \in SUBSET (1 .. Len(sent))
    BY <2>1, FS_Interval DEF SentTo
  <2>3. QED
    BY <2>2, FS_Subset
<1>2. IsFiniteSet(Waiting(d, t))
  <2>1. Waiting(d, t) \in SUBSET queue
    BY DEF Waiting
  <2>2. QED
    BY <2>1, FS_Subset
<1>3. IsFiniteSet(Left(todo, d, t))
  <2>1. Len(todo) - 1 \in Int
    BY LenProperties DEF TypeOK
  <2>2. IsFiniteSet(0 .. Len(todo) - 1) /\ Left(todo, d, t) \in SUBSET (0 .. Len(todo) - 1)
    BY <2>1, FS_Interval DEF Left
  <2>3. QED
    BY <2>2, FS_Subset
<1>4. IsFiniteSet(Mentions(t))
  BY TargetsOK, MentionsOfFinite DEF Mentions
<1>5. QED
  BY <1>1, <1>2, <1>3, <1>4

LEMMA SentStays ==
    ASSUME SentKeeps, NEW d, NEW t
    PROVE  SentTo(d, t)' = SentTo(d, t)
  BY DEF SentKeeps, SentTo

(* Nothing is more than it was.                                            *)
LEMMA RoomStays ==
    ASSUME NEW d, NEW t, Room(d, t), IsFiniteSet(Mentions(t)), Mentions(t)' = Mentions(t),
           AtMost(SentTo(d, t)', SentTo(d, t)), AtMost(Waiting(d, t)', Waiting(d, t)),
           AtMost(Left(todo', d, t), Left(todo, d, t))
    PROVE  Room(d, t)'
<1>1. /\ Cardinality(SentTo(d, t)) \in Nat /\ Cardinality(SentTo(d, t)') \in Nat
      /\ Cardinality(Waiting(d, t)) \in Nat /\ Cardinality(Waiting(d, t)') \in Nat
      /\ Cardinality(Left(todo, d, t)) \in Nat /\ Cardinality(Left(todo', d, t)) \in Nat
      /\ Cardinality(Mentions(t)) \in Nat
  BY FS_CardinalityType DEF AtMost
<1>2. /\ Cardinality(SentTo(d, t)') <= Cardinality(SentTo(d, t))
      /\ Cardinality(Waiting(d, t)') <= Cardinality(Waiting(d, t))
      /\ Cardinality(Left(todo', d, t)) <= Cardinality(Left(todo, d, t))
  BY DEF AtMost
<1>3. QED
  BY <1>1, <1>2 DEF Room

(* What was neither sent nor queued may go to every mention of the target. *)
LEMMA RoomFresh ==
    ASSUME NEW d, NEW t, Fresh(d)', Mentions(t)' = Mentions(t),
           AtMost(Left(todo', d, t), Mentions(t))
    PROVE  Room(d, t)'
<1>1. SentTo(d, t)' = {} /\ Waiting(d, t)' = {}
  BY DEF SentTo, Waiting, Fresh
<1>2. /\ Cardinality({}) = 0 /\ Cardinality(Left(todo', d, t)) \in Nat
      /\ Cardinality(Mentions(t)) \in Nat
  BY FS_EmptySet, FS_CardinalityType DEF AtMost
<1>3. Cardinality(Left(todo', d, t)) <= Cardinality(Mentions(t))
  BY DEF AtMost
<1>4. QED
  BY <1>1, <1>2, <1>3 DEF Room

LEMMA MentionsStay ==
    ASSUME setup' = setup, NEW t
    PROVE  Mentions(t)' = Mentions(t)
  BY DEF Mentions

(* Before a handler runs nothing is planned.                               *)
LEMMA QuietOnce ==
    ASSUME Once, todo = <<>>, NEW d \in Receipts, Plain(d)
    PROVE  /\ d \in buffer => Fresh(d)
           /\ row[d].debouncing => Fresh(d)
           /\ \A t : Room(d, t)
  BY PlanEmpty DEF Once, OnceFor

(* What begins then, and sends nothing of a delivery to a target.          *)
LEMMA QuietStays ==
    ASSUME TypeOK, IsFiniteSet(queue), todo = <<>>, setup' = setup, SentKeeps, QueueShrinks,
           NEW d, NEW t, Room(d, t), Left(todo', d, t) = {}
    PROVE  Room(d, t)'
<1>1. PICK f \in [queue' -> queue] :
        /\ \A q, x \in queue' : f[q] = f[x] => q = x
        /\ \A q \in queue' : q.to = f[q].to /\ q.ids \subseteq f[q].ids
  BY DEF QueueShrinks
<1>2. /\ IsFiniteSet(SentTo(d, t)) /\ IsFiniteSet(Waiting(d, t))
      /\ IsFiniteSet(Left(todo, d, t)) /\ IsFiniteSet(Mentions(t))
  BY Counted
<1> DEFINE g == [q \in Waiting(d, t)' |-> f[q]]
<1>3. \A q \in Waiting(d, t)' : q \in queue' /\ f[q] \in Waiting(d, t)
  BY <1>1 DEF Waiting, Taken
<1>4. g \in [Waiting(d, t)' -> Waiting(d, t)]
  BY <1>3
<1>5. \A q, x \in Waiting(d, t)' : g[q] = g[x] => q = x
  BY <1>1, <1>3
<1> HIDE DEF g
<1>6. AtMost(Waiting(d, t)', Waiting(d, t))
  BY <1>2, <1>4, <1>5, InjectionCounts
<1>7. AtMost(SentTo(d, t)', SentTo(d, t))
  BY <1>2, SentStays, SubsetCounts
<1>8. AtMost(Left(todo', d, t), Left(todo, d, t))
  BY <1>2, EmptyAtMost
<1>9. QED
  BY <1>2, <1>6, <1>7, <1>8, MentionsStay, RoomStays

-----------------------------------------------------------------------------
(* A handler that plans, and changes neither receipts nor the queue.       *)

LEMMA OncePlan ==
    ASSUME IInv, Once, todo = <<>>, SentKeeps, row' = row, queue' = queue, setup' = setup,
           buffer' \subseteq buffer, ~up' => buffer' = {},
           \A d \in Receipts : Plain(d)' => Plain(d),
           \A d : ~MarksIn(todo', d),
           \A d \in Receipts : \A t : Plain(d) /\ Left(todo', d, t) # {} =>
             d \notin buffer' /\ Room(d, t)'
    PROVE  Once'
<1>1. QueueShrinks /\ IsFiniteSet(queue) /\ TypeOK
  BY SameShrinks DEF Once, IInv
<1>2. Untouched'
  BY <1>1, FreshStays DEF Once, Untouched
<1>3. ASSUME NEW d \in Receipts, Plain(d)'
      PROVE  OnceFor(d)'
  <2>1. /\ Plain(d) /\ (\A t : Room(d, t)) /\ (row[d].debouncing => Fresh(d))
        /\ d \in buffer => Fresh(d)
    BY <1>3, QuietOnce
  <2>2. Fresh(d) => Fresh(d)'
    BY <1>1, FreshStays
  <2>3. ASSUME NEW t
        PROVE  Room(d, t)'
    BY <1>1, <2>1, QuietStays
  <2>4. QED
    BY <2>1, <2>2, <2>3 DEF OnceFor
<1>4. QED
  BY <1>1, <1>2, <1>3 DEF Once

LEMMA HoldPlan ==
    ASSUME IInv, Holding, todo = <<>>, row' = row, queue' = queue, local' = NothingDone,
           \A d \in Receipts : MayBeLost(d) => MayBeLost(d)',
           \A d \in Receipts : row[d].st = "pending" =>
             /\ row[d].debouncing /\ (d \in buffer \/ ~up) =>
                  (d \in buffer' /\ up') \/ (~up' /\ ~up) \/ SettlesIn(todo', d) \/ MayBeLost(d)'
             /\ \A k \in row[d].msgs : Owed(k) => Owed(k)' \/ SettlesIn(todo', d)
             /\ todo' # <<>> => \A q \in Head(todo').rows :
                  d \in q.ids => SettlesIn(todo', d) \/ MayBeLost(d)',
           todo' \in Seq(StatementRecords)
    PROVE  Holding'
<1>1. ASSUME NEW d \in Receipts, row[d].st = "pending"
      PROVE  Covered(d)'
  <2>1. Covered(d)
    BY <1>1 DEF Holding
  <2>2. ~SettlesIn(todo, d) /\ ~MarksIn(todo, d)
    BY PlanEmpty
  <2>3. QED
    BY <1>1, <2>1, <2>2 DEF Covered
<1>2. ASSUME NEW q, Taken(q)', NEW d \in q.ids, row'[d].st = "pending"
      PROVE  SettlesIn(todo', d) \/ MayBeLost(d)'
  <2>1. todo' # <<>> /\ q \in Head(todo').rows
    BY <1>2 DEF Taken
  <2>2. d \in Receipts
    <3>1. Head(todo') \in StatementRecords
      BY <2>1, HeadTailProperties
    <3>2. QED
      BY <1>2, <2>1, <3>1 DEF StatementRecords, QueueRows
  <2>3. QED
    BY <1>2, <2>1, <2>2
<1>3. LocalIsTrue'
  BY DEF LocalIsTrue, NothingDone
<1>4. QED
  BY <1>1, <1>2, <1>3 DEF Holding

LEMMA ExcusesStay ==
    ASSUME TypeOK, \A d \in Receipts : excuse[d] \subseteq excuse'[d]
    PROVE  \A d \in Receipts : (Plain(d)' => Plain(d)) /\ (MayBeLost(d) => MayBeLost(d)')
  BY DEF Plain, MayBeLost

LEMMA ExcusedIs ==
    ASSUME TypeOK
    PROVE  /\ \A why, ids : \A d \in Receipts :
                /\ excuse[d] \subseteq Excused(why, ids)[d]
                /\ d \in ids => why \in Excused(why, ids)[d]
           /\ \A ids : \A d \in Receipts :
                /\ excuse[d] \subseteq ExcusedIfDeleted(ids)[d]
                /\ d \in ids /\ endpoint # "live" => "endpoint" \in ExcusedIfDeleted(ids)[d]
           /\ \A x : \A d \in Receipts :
                /\ excuse[d] \subseteq ExcusedIfRetired(x)[d]
                /\ d = x /\ row[x].st = "gone" => "retired" \in ExcusedIfRetired(x)[d]
<1>1. \A why, ids : \A d \in Receipts :
        /\ excuse[d] \subseteq Excused(why, ids)[d]
        /\ d \in ids => why \in Excused(why, ids)[d]
  BY DEF Excused
<1>2. QED
  BY <1>1 DEF ExcusedIfDeleted, ExcusedIfRetired

LEMMA PendingIsThere == \A r : r.st = "pending" => There(r)
  BY DEF There

LEMMA FlushDebounceHolds ==
    ASSUME HoldInv, FlushDebounce
    PROVE  HoldInv'
<1>1. /\ todo = <<>> /\ up /\ todo' = ToTargets(row, buffer) /\ local' = NothingDone
      /\ buffer' = {} /\ excuse' = ExcusedIfDeleted(buffer)
      /\ UNCHANGED <<setup, up, endpoint, hook, row, queue, sent, conn, act>>
  BY DEF FlushDebounce, Plan, Quiet, processVars, peerVars
<1>2. IInv /\ Once /\ Holding /\ TypeOK /\ buffer \in SUBSET Receipts
  BY DEF HoldInv, IInv, TypeOK
<1>3. IInv' /\ todo' \in Seq(StatementRecords)
  BY <1>2, FlushDebounceKeeps DEF IInv, GoodPlan
<1>4. /\ Shaped(todo') /\ Frontless(todo')
      /\ \A d, t : /\ Left(todo', d, t) # {} => d \in buffer
                   /\ AtMost(Left(todo', d, t), Mentions(t))
      /\ \A d : ~MarksIn(todo', d)
      /\ endpoint = "live" => \A d \in buffer : There(row[d]) => SettlesIn(todo', d)
  BY <1>1, <1>2, PlanToTargets
<1>5. \A d \in Receipts : /\ Plain(d)' => Plain(d)
                          /\ MayBeLost(d) => MayBeLost(d)'
                          /\ d \in buffer /\ endpoint # "live" => MayBeLost(d)'
  BY <1>1, <1>2, ExcusesStay, ExcusedIs DEF MayBeLost
<1>6. SentKeeps /\ QueueShrinks
  BY <1>1, SameShrinks DEF SentKeeps
<1>7. Once'
  <2>1. ASSUME NEW d \in Receipts, NEW t, Plain(d), Left(todo', d, t) # {}
        PROVE  d \notin buffer' /\ Room(d, t)'
    <3>1. Fresh(d)
      BY <1>1, <1>2, <1>4, <2>1, QuietOnce
    <3>2. Fresh(d)'
      BY <1>6, <3>1, FreshStays
    <3>3. QED
      BY <1>1, <1>4, <3>2, MentionsStay, RoomFresh
  <2>2. QED
    BY <1>1, <1>2, <1>4, <1>5, <1>6, <2>1, OncePlan
<1>8. Holding'
  <2>1. \A k : Owed(k) => Owed(k)'
    BY <1>1 DEF Owed
  <2>2. todo' # <<>> => Head(todo').rows = {}
    <3>1. todo' # <<>> => 1 \in 1 .. Len(todo') /\ Head(todo') = todo'[1]
      BY <1>3, HeadTailProperties, EmptySeq, LenProperties
    <3>2. QED
      BY <1>4, <3>1 DEF Frontless
  <2>3. QED
    BY <1>1, <1>2, <1>3, <1>4, <1>5, <2>1, <2>2, HoldPlan, PendingIsThere
<1>9. QED
  BY <1>3, <1>4, <1>7, <1>8 DEF HoldInv

(* Nothing is taken first by a plan that is about no rows.                 *)
LEMMA NoRows ==
    ASSUME NEW p \in Seq(StatementRecords), p # <<>>, \A j \in 1 .. Len(p) : p[j].rows = {}
    PROVE  Head(p).rows = {}
<1>1. 1 \in 1 .. Len(p) /\ Head(p) = p[1]
  BY HeadTailProperties, EmptySeq, LenProperties
<1>2. QED
  BY <1>1

(* One row that waited is taken, and one message is to be sent for it.     *)
RoomFlushed(d, t) ==
    /\ IsFiniteSet(SentTo(d, t)) /\ IsFiniteSet(Waiting(d, t))
    /\ IsFiniteSet(Left(todo, d, t)) /\ IsFiniteSet(Mentions(t))
    /\ Room(d, t)
    /\ \E q \in Waiting(d, t) : Waiting(d, t)' \subseteq Waiting(d, t) \ {q}
    /\ AtMost(Left(todo', d, t), {1})
    /\ SentTo(d, t)' = SentTo(d, t) /\ Mentions(t)' = Mentions(t)

LEMMA FlushedStays ==
    ASSUME NEW d, NEW t, RoomFlushed(d, t)
    PROVE  Room(d, t)'
<1>1. PICK q \in Waiting(d, t) : Waiting(d, t)' \subseteq Waiting(d, t) \ {q}
  BY DEF RoomFlushed
<1> DEFINE W == Waiting(d, t) \ {q}
<1>2. IsFiniteSet(W) /\ Cardinality(W) = Cardinality(Waiting(d, t)) - 1
  BY FS_RemoveElement DEF RoomFlushed
<1>3. /\ IsFiniteSet(Waiting(d, t)')
      /\ Cardinality(Waiting(d, t)') <= Cardinality(W)
  BY <1>1, <1>2, FS_Subset
<1> HIDE DEF W
<1>4. IsFiniteSet(Left(todo', d, t)) /\ Cardinality(Left(todo', d, t)) <= 1
  BY FS_Singleton DEF RoomFlushed, AtMost
<1>5. /\ Cardinality(SentTo(d, t)) \in Nat /\ Cardinality(Waiting(d, t)) \in Nat
      /\ Cardinality(Waiting(d, t)') \in Nat /\ Cardinality(Left(todo, d, t)) \in Nat
      /\ Cardinality(Left(todo', d, t)) \in Nat /\ Cardinality(Mentions(t)) \in Nat
  BY <1>3, <1>4, FS_CardinalityType DEF RoomFlushed
<1>6. Cardinality(SentTo(d, t)) + Cardinality(Waiting(d, t)) <= Cardinality(Mentions(t))
  BY <1>5 DEF RoomFlushed, Room
<1>7. Cardinality(SentTo(d, t)') + Cardinality(Waiting(d, t)') + Cardinality(Left(todo', d, t))
        <= Cardinality(Mentions(t)')
  BY <1>2, <1>3, <1>4, <1>5, <1>6 DEF RoomFlushed
<1>8. QED
  BY <1>7 DEF Room

(* The rows for one member, or some of them, are taken and sent to it.     *)
LEMMA FlushHolds ==
    ASSUME HoldInv, Quiet, NEW m \in Members, NEW taken \in SUBSET queue, Flush(taken, m),
           \A q \in taken : q.to = m,
           IInv', buffer' = buffer, SentKeeps, \A k \in DOMAIN sent : Owed(k) => Owed(k)',
           UNCHANGED <<setup, up, row, queue>>
    PROVE  HoldInv'
<1>1. /\ todo = <<>> /\ up /\ todo' = FlushPending(taken, m) /\ local' = NothingDone
      /\ excuse' = ExcusedIfDeleted(Named(taken))
  BY DEF Flush, Plan, Quiet
<1>2. IInv /\ Once /\ Holding /\ TypeOK /\ taken \in SUBSET QueueRows
  BY DEF HoldInv, IInv, TypeOK
<1>3. todo' \in Seq(StatementRecords)
  BY DEF IInv, GoodPlan
<1>4. /\ Shaped(todo')
      /\ \A d, t : /\ Left(todo', d, t) # {} => t = m /\ \E q \in taken : d \in q.ids
                   /\ AtMost(Left(todo', d, t), {1})
      /\ \A d : ~MarksIn(todo', d)
      /\ todo' # <<>> => Head(todo').rows = taken
      /\ endpoint = "live" =>
           \A q \in taken : \A d \in q.ids : There(row[d]) => SettlesIn(todo', d)
  BY <1>1, <1>2, PlanFlush
<1>5. \A d \in Receipts : /\ Plain(d)' => Plain(d)
                          /\ MayBeLost(d) => MayBeLost(d)'
                          /\ d \in Named(taken) /\ endpoint # "live" => MayBeLost(d)'
  BY <1>1, <1>2, ExcusesStay, ExcusedIs DEF MayBeLost
<1>6. Once'
  <2>1. ASSUME NEW d \in Receipts, NEW t, Plain(d), Left(todo', d, t) # {}
        PROVE  d \notin buffer' /\ Room(d, t)'
    <3>1. PICK q \in taken : d \in q.ids
      BY <1>4, <2>1
    <3>2. t = m /\ todo' # <<>>
      BY <1>4, <2>1, PlanEmpty
    <3>3. q \in queue /\ q.to = t /\ d \notin buffer
      BY <1>1, <1>2, <2>1, <3>1, <3>2, QuietOnce DEF Fresh
    <3>4. Room(d, t) /\ IsFiniteSet(queue)
      BY <1>1, <1>2, <2>1, QuietOnce DEF Once
    <3>5. /\ IsFiniteSet(SentTo(d, t)) /\ IsFiniteSet(Waiting(d, t))
          /\ IsFiniteSet(Left(todo, d, t)) /\ IsFiniteSet(Mentions(t))
      BY <1>2, <3>4, Counted
    <3>6. q \in Waiting(d, t) /\ Waiting(d, t)' \subseteq Waiting(d, t) \ {q}
      BY <1>1, <1>4, <3>1, <3>2, <3>3 DEF Waiting, Taken
    <3>7. SentTo(d, t)' = SentTo(d, t) /\ Mentions(t)' = Mentions(t)
      BY SentStays, MentionsStay
    <3>8. RoomFlushed(d, t)
      BY <1>4, <3>4, <3>5, <3>6, <3>7 DEF RoomFlushed
    <3>9. QED
      BY <1>1, <3>3, <3>8, FlushedStays
  <2>2. ~up' => buffer' = {}
    BY <1>1
  <2>3. QED
    BY <1>1, <1>2, <1>4, <1>5, <2>1, <2>2, OncePlan
<1>7. Holding'
  <2>1. ASSUME NEW d \in Receipts, row[d].st = "pending"
        PROVE  /\ row[d].debouncing /\ (d \in buffer \/ ~up) =>
                    (d \in buffer' /\ up') \/ (~up' /\ ~up) \/ SettlesIn(todo', d) \/ MayBeLost(d)'
               /\ \A k \in row[d].msgs : Owed(k) => Owed(k)' \/ SettlesIn(todo', d)
               /\ todo' # <<>> => \A q \in Head(todo').rows :
                    d \in q.ids => SettlesIn(todo', d) \/ MayBeLost(d)'
    <3>1. \A k \in row[d].msgs : k \in DOMAIN sent
      BY <1>2, LenProperties DEF TypeOK, DeliveryRows
    <3>2. \A q \in taken : d \in q.ids => SettlesIn(todo', d) \/ MayBeLost(d)'
      BY <1>4, <1>5, <2>1, PendingIsThere DEF Named
    <3>3. QED
      BY <1>1, <1>4, <3>1, <3>2
  <2>2. QED
    BY <1>1, <1>2, <1>3, <1>5, <2>1, HoldPlan
<1>8. QED
  BY <1>4, <1>6, <1>7 DEF HoldInv

LEMMA WakeHolds ==
    ASSUME HoldInv, NEW m \in Members, NEW kind \in {"observer", "legacy", "runner"}, Wake(m, kind)
    PROVE  HoldInv'
<1> DEFINE taken == {q \in queue : q.to = m}
<1>1. Quiet /\ Flush(taken, m) /\ buffer' = buffer /\ sent' = Redelivered(m, kind)
      /\ UNCHANGED <<setup, up, row, queue>>
  BY DEF Wake, processVars
<1>2. IInv /\ TypeOK /\ IInv'
  BY WakeKeeps DEF HoldInv, IInv
<1>3. /\ DOMAIN sent' = DOMAIN sent
      /\ \A k \in DOMAIN sent : sent'[k] \in {sent[k], [sent[k] EXCEPT !.out[m] = "unreported"]}
      /\ \A k \in DOMAIN sent : sent[k] \in Messages
  BY <1>1, <1>2, ElementOfSeq, LenProperties DEF Redelivered, TypeOK
<1>4. SentKeeps
  BY <1>3 DEF SentKeeps, Messages
<1>5. ASSUME NEW k \in DOMAIN sent, Owed(k)
      PROVE  Owed(k)'
  <2>1. PICK x \in Members : sent[k].out[x] \in {"open", "unreported"}
    BY <1>5 DEF Owed
  <2>2. sent'[k].out[x] \in {"open", "unreported"}
    BY <1>3, <2>1 DEF Messages
  <2>3. QED
    BY <2>2 DEF Owed
<1>6. taken \in SUBSET queue /\ \A q \in taken : q.to = m
  OBVIOUS
<1> HIDE DEF taken
<1>7. QED
  BY <1>1, <1>2, <1>4, <1>5, <1>6, FlushHolds

LEMMA ReportRestingHolds ==
    ASSUME HoldInv, NEW m \in Members, ReportResting(m)
    PROVE  HoldInv'
<1> DEFINE taken == {q \in queue : q.to = m /\ q.why = "busy"}
<1>1. Quiet /\ Flush(taken, m) /\ buffer' = buffer /\ sent' = sent
      /\ UNCHANGED <<setup, up, row, queue>>
  BY DEF ReportResting, processVars
<1>2. IInv'
  BY ReportRestingKeeps DEF HoldInv
<1>3. SentKeeps /\ \A k \in DOMAIN sent : Owed(k) => Owed(k)'
  BY <1>1 DEF SentKeeps, Owed
<1>4. taken \in SUBSET queue /\ \A q \in taken : q.to = m
  OBVIOUS
<1> HIDE DEF taken
<1>5. QED
  BY <1>1, <1>2, <1>3, <1>4, FlushHolds

LEMMA SweepStarvedHolds ==
    ASSUME HoldInv, NEW due \in SUBSET queue, NEW m \in Members, SweepStarved(due, m)
    PROVE  HoldInv'
<1>1. Quiet /\ Flush(due, m) /\ buffer' = buffer /\ sent' = sent
      /\ UNCHANGED <<setup, up, row, queue>> /\ \A q \in due : q.to = m
  BY DEF SweepStarved, processVars
<1>2. IInv'
  BY SweepStarvedKeeps DEF HoldInv
<1>3. SentKeeps /\ \A k \in DOMAIN sent : Owed(k) => Owed(k)'
  BY <1>1 DEF SentKeeps, Owed
<1>4. QED
  BY <1>1, <1>2, <1>3, FlushHolds

LEMMA SweepExpiredHolds ==
    ASSUME HoldInv, NEW due \in SUBSET queue, SweepExpired(due)
    PROVE  HoldInv'
<1>1. /\ todo = <<>> /\ up /\ due # {} /\ local' = NothingDone
      /\ todo' = Take(due) \o Update("expired", StillKept(row, Named(due)))
      /\ UNCHANGED <<setup, up, row, queue, buffer, sent, excuse>>
  BY DEF SweepExpired, Plan, Quiet, processVars
<1>2. IInv /\ Once /\ Holding /\ TypeOK /\ due \in SUBSET QueueRows
  BY DEF HoldInv, IInv, TypeOK
<1>3. IInv' /\ todo' \in Seq(StatementRecords)
  BY <1>2, SweepExpiredKeeps DEF IInv, GoodPlan
<1>4. /\ Shaped(todo')
      /\ \A d, t : Left(todo', d, t) = {}
      /\ \A d : ~MarksIn(todo', d)
      /\ todo' # <<>> => Head(todo').rows = due
      /\ \A q \in due : \A d \in q.ids : There(row[d]) => SettlesIn(todo', d)
  BY <1>1, <1>2, PlanSweep
<1>5. (\A d \in Receipts : (Plain(d)' => Plain(d)) /\ (MayBeLost(d) => MayBeLost(d)'))
      /\ SentKeeps /\ \A k : Owed(k) => Owed(k)'
  BY <1>1 DEF Plain, MayBeLost, SentKeeps, Owed
<1>6. Once'
  BY <1>1, <1>2, <1>4, <1>5, OncePlan
<1>7. Holding'
  BY <1>1, <1>2, <1>3, <1>4, <1>5, HoldPlan, PendingIsThere
<1>8. QED
  BY <1>3, <1>4, <1>6, <1>7 DEF HoldInv

LEMMA DispositionHolds ==
    ASSUME HoldInv, NEW k \in DOMAIN sent, NEW m \in Members, NEW outcome \in {"acted", "refused"},
           Disposition(k, m, outcome)
    PROVE  HoldInv'
<1> DEFINE ids == {d \in Receipts : Kept(d) /\ k \in row[d].msgs}
           op == IF outcome = "acted" THEN "delivered" ELSE "dropped"
<1>1. /\ todo = <<>> /\ up /\ sent' = [sent EXCEPT ![k].out[m] = "settled"]
      /\ todo' = Update(op, ids) /\ local' = NothingDone
      /\ UNCHANGED <<setup, up, row, queue, buffer, excuse>>
  BY DEF Disposition, Plan, Quiet, processVars
<1>2. IInv /\ Once /\ Holding /\ TypeOK /\ IInv'
  BY DispositionKeeps DEF HoldInv, IInv
<1>3. todo' \in Seq(StatementRecords)
  BY <1>2 DEF IInv, GoodPlan
<1>4. ids \in SUBSET Receipts /\ op \in {"delivered", "dropped"}
      /\ \A d \in Receipts : row[d].st = "pending" /\ k \in row[d].msgs => d \in ids
  BY DEF Kept
<1> HIDE DEF ids, op
<1>5. /\ Shaped(todo')
      /\ \A d, t : Left(todo', d, t) = {}
      /\ \A d : ~MarksIn(todo', d)
      /\ \A d \in ids : SettlesIn(todo', d)
      /\ \A j \in 1 .. Len(todo') : todo'[j].rows = {}
  <2>1. op \in Operations \ {"target", "force"} /\ op \notin {"take", "debouncing"}
    BY <1>4 DEF Operations
  <2>2. QED
    BY <1>1, <1>4, <2>1, PlanUpdate
<1>6. SentKeeps /\ \A j \in DOMAIN sent : j # k => (Owed(j) => Owed(j)')
  <2>1. /\ sent[k] \in Messages
        /\ DOMAIN sent' = DOMAIN sent
        /\ \A j : j # k /\ j \in DOMAIN sent => sent'[j] = sent[j]
        /\ sent'[k] = [sent[k] EXCEPT !.out[m] = "settled"]
    BY <1>1, <1>2, ElementOfSeq, LenProperties DEF TypeOK
  <2>2. sent'[k].ids = sent[k].ids /\ sent'[k].to = sent[k].to
    BY <2>1 DEF Messages
  <2>3. QED
    BY <2>1, <2>2 DEF SentKeeps, Owed
<1>7. \A d \in Receipts : (Plain(d)' => Plain(d)) /\ (MayBeLost(d) => MayBeLost(d)')
  BY <1>1 DEF Plain, MayBeLost
<1>8. Once'
  BY <1>1, <1>2, <1>5, <1>6, <1>7, OncePlan
<1>9. Holding'
  <2>1. todo' # <<>> => Head(todo').rows = {}
    BY <1>3, <1>5, NoRows
  <2>2. \A d \in Receipts : row[d].msgs \subseteq DOMAIN sent
    BY <1>2, LenProperties DEF TypeOK, DeliveryRows
  <2>3. QED
    BY <1>1, <1>2, <1>3, <1>4, <1>5, <1>6, <1>7, <2>1, <2>2, HoldPlan
<1>10. QED
  BY <1>2, <1>5, <1>8, <1>9 DEF HoldInv

-----------------------------------------------------------------------------
(* The process.                                                            *)

LEMMA RestartHolds ==
    ASSUME HoldInv, Restart
    PROVE  HoldInv'
<1>1. /\ ~up /\ up' = TRUE /\ todo' = ToTargets(row, Stranded) /\ local' = NothingDone
      /\ excuse' = ExcusedIfDeleted(Stranded)
      /\ UNCHANGED <<setup, endpoint, row, queue, buffer, sent>>
  BY DEF Restart, Plan
<1>2. /\ IInv /\ Once /\ Holding /\ TypeOK /\ todo = <<>> /\ buffer = {}
      /\ Stranded \in SUBSET Receipts
  BY <1>1 DEF HoldInv, IInv, DownIsEmpty, Once, Stranded
<1>3. IInv' /\ todo' \in Seq(StatementRecords)
  BY <1>2, RestartKeeps DEF IInv, GoodPlan
<1>4. /\ Shaped(todo') /\ Frontless(todo')
      /\ \A d, t : /\ Left(todo', d, t) # {} => d \in Stranded
                   /\ AtMost(Left(todo', d, t), Mentions(t))
      /\ \A d : ~MarksIn(todo', d)
      /\ endpoint = "live" => \A d \in Stranded : There(row[d]) => SettlesIn(todo', d)
  BY <1>1, <1>2, PlanToTargets
<1>5. \A d \in Receipts : /\ Plain(d)' => Plain(d)
                          /\ MayBeLost(d) => MayBeLost(d)'
                          /\ d \in Stranded /\ endpoint # "live" => MayBeLost(d)'
  BY <1>1, <1>2, ExcusesStay, ExcusedIs DEF MayBeLost
<1>6. SentKeeps /\ QueueShrinks
  BY <1>1, SameShrinks DEF SentKeeps
<1>7. Once'
  <2>1. ASSUME NEW d \in Receipts, NEW t, Plain(d), Left(todo', d, t) # {}
        PROVE  d \notin buffer' /\ Room(d, t)'
    <3>1. Fresh(d)
      BY <1>2, <1>4, <2>1, QuietOnce DEF Stranded
    <3>2. Fresh(d)'
      BY <1>6, <3>1, FreshStays
    <3>3. QED
      BY <1>1, <1>2, <1>4, <3>2, MentionsStay, RoomFresh
  <2>2. QED
    BY <1>1, <1>2, <1>4, <1>5, <1>6, <2>1, OncePlan
<1>8. Holding'
  <2>1. \A k : Owed(k) => Owed(k)'
    BY <1>1 DEF Owed
  <2>2. todo' # <<>> => Head(todo').rows = {}
    BY <1>3, <1>4, NoRows DEF Frontless
  <2>3. \A d \in Receipts : row[d].st = "pending" /\ row[d].debouncing => d \in Stranded
    BY DEF Stranded
  <2>4. QED
    BY <1>1, <1>2, <1>3, <1>4, <1>5, <2>1, <2>2, <2>3, HoldPlan, PendingIsThere
<1>9. QED
  BY <1>3, <1>4, <1>7, <1>8 DEF HoldInv

(* The process ends: what the running handler was about is excused, what   *)
(* it buffered is marked.                                                  *)
LEMMA HaltHolds ==
    ASSUME HoldInv, Halt
    PROVE  HoldInv'
<1> DEFINE about == UNION {todo[k].ids \cup Named(todo[k].rows) : k \in DOMAIN todo}
<1>1. /\ up' = FALSE /\ buffer' = {} /\ todo' = <<>> /\ local' = NothingDone
      /\ excuse' = Excused("halt", about)
      /\ UNCHANGED <<setup, row, queue, sent>>
  BY DEF Halt, Plan
<1>2. IInv /\ Once /\ Holding /\ TypeOK /\ IInv'
  BY HaltKeeps DEF HoldInv, IInv
<1>3. \A d : EndsIn(todo, d) \/ SettlesIn(todo, d) \/ MarksIn(todo, d) => d \in about
  <2>1. DOMAIN todo = 1 .. Len(todo)
    BY <1>2, LenProperties DEF TypeOK
  <2>2. QED
    BY <2>1 DEF EndsIn, SettlesIn, MarksIn
<1>9. \A q \in queue : Taken(q) => q.ids \subseteq about
  <2>1. todo # <<>> => 1 \in DOMAIN todo /\ Head(todo) = todo[1]
    BY <1>2, HeadTailProperties, EmptySeq, LenProperties DEF TypeOK
  <2>2. QED
    BY <2>1 DEF Taken, Named
<1> HIDE DEF about
<1>4. \A d \in Receipts : /\ Plain(d)' => Plain(d) /\ d \notin about
                          /\ MayBeLost(d) => MayBeLost(d)'
                          /\ d \in about => MayBeLost(d)'
  <2>1. \A d \in Receipts : d \in about => "halt" \in excuse'[d]
    BY <1>1, <1>2, ExcusedIs
  <2>2. \A d \in Receipts : (Plain(d)' => Plain(d)) /\ (MayBeLost(d) => MayBeLost(d)')
    BY <1>1, <1>2, ExcusesStay, ExcusedIs
  <2>3. QED
    BY <2>1, <2>2 DEF Plain, MayBeLost
<1>5. SentKeeps /\ QueueShrinks
  BY <1>1, SameShrinks DEF SentKeeps
<1>6. Once'
  <2>1. Untouched'
    BY <1>1, <1>2, <1>5, FreshStays DEF Once, Untouched
  <2>2. ASSUME NEW d \in Receipts, Plain(d)'
        PROVE  OnceFor(d)'
    <3>1. OnceFor(d) /\ ~EndsIn(todo, d)
      BY <1>2, <1>3, <1>4, <2>2 DEF Once
    <3>2. Fresh(d) => Fresh(d)'
      BY <1>5, FreshStays
    <3>3. ASSUME NEW t
          PROVE  Room(d, t)'
      <4>1. /\ IsFiniteSet(SentTo(d, t)) /\ IsFiniteSet(Waiting(d, t))
            /\ IsFiniteSet(Left(todo, d, t)) /\ IsFiniteSet(Mentions(t))
        BY <1>2, Counted DEF Once
      <4>2. d \notin about /\ Room(d, t)
        BY <1>4, <2>2, <3>1 DEF OnceFor
      <4>3. Waiting(d, t)' \subseteq Waiting(d, t)
        BY <1>1, <1>9, <4>2 DEF Waiting
      <4>4. AtMost(Waiting(d, t)', Waiting(d, t)) /\ AtMost(SentTo(d, t)', SentTo(d, t))
        BY <1>5, <4>1, <4>3, SentStays, SubsetCounts
      <4>5. AtMost(Left(todo', d, t), Left(todo, d, t))
        BY <1>1, <4>1, EmptyAtMost, PlanEmpty
      <4>6. QED
        BY <1>1, <4>1, <4>2, <4>4, <4>5, MentionsStay, RoomStays
    <3>4. QED
      BY <1>1, <3>1, <3>2, <3>3, PlanEmpty DEF OnceFor
  <2>3. IsFiniteSet(queue')
    BY <1>1, <1>2 DEF Once
  <2>4. QED
    BY <1>1, <2>1, <2>2, <2>3 DEF Once
<1>7. Holding'
  <2>1. ASSUME NEW d \in Receipts, row[d].st = "pending"
        PROVE  Covered(d)'
    <3>1. Covered(d)
      BY <1>2, <2>1 DEF Holding
    <3>2. \A k : Owed(k) => Owed(k)'
      BY <1>1 DEF Owed
    <3>3. QED
      BY <1>1, <1>3, <1>4, <3>1, <3>2 DEF Covered
  <2>2. LocalIsTrue' /\ \A q : ~Taken(q)'
    BY <1>1 DEF LocalIsTrue, Taken
  <2>3. QED
    BY <1>1, <2>1, <2>2 DEF Holding
<1>8. QED
  BY <1>1, <1>2, <1>6, <1>7, PlanEmpty DEF HoldInv

(* What touches neither receipts nor messages nor plans.                   *)
LEMMA NothingHolds ==
    ASSUME HoldInv, IInv',
           UNCHANGED <<setup, up, row, queue, buffer, sent, todo, local, excuse>>
    PROVE  HoldInv'
<1>1. \A d : /\ Plain(d)' <=> Plain(d)
             /\ MayBeLost(d)' <=> MayBeLost(d)
             /\ Fresh(d)' <=> Fresh(d)
  BY DEF Plain, MayBeLost, Fresh
<1>2. \A k : Owed(k)' <=> Owed(k)
  BY DEF Owed
<1>3. \A d : OnceFor(d)' <=> OnceFor(d)
  <2>1. \A d, t : /\ SentTo(d, t)' = SentTo(d, t) /\ Waiting(d, t)' = Waiting(d, t)
                  /\ Mentions(t)' = Mentions(t)
    BY DEF SentTo, Waiting, Mentions, Taken
  <2>2. \A d, t : Room(d, t)' <=> Room(d, t)
    BY <2>1 DEF Room
  <2>3. QED
    BY <1>1, <2>2 DEF OnceFor
<1>4. \A d : Covered(d)' <=> Covered(d)
  BY <1>1, <1>2 DEF Covered
<1>5. Once'
  BY <1>1, <1>3 DEF HoldInv, Once, Untouched
<1>6. Holding'
  <2>1. LocalIsTrue'
    BY <1>2 DEF HoldInv, Holding, LocalIsTrue
  <2>2. \A q : Taken(q)' <=> Taken(q)
    BY DEF Taken
  <2>3. QED
    BY <1>1, <1>4, <2>1, <2>2 DEF HoldInv, Holding
<1>7. QED
  BY <1>5, <1>6 DEF HoldInv

-----------------------------------------------------------------------------
(* The oldest receipts go.                                                 *)

LEMMA TrimHolds ==
    ASSUME TypeOK, QueueHolds, NEW old, TrimQueue(old)
    PROVE  /\ QueueShrinks
           /\ \A d : d \notin old => \A q \in queue : d \in q.ids => \E r \in queue' : d \in r.ids
           /\ \A d \in old : \A q \in queue' : d \notin q.ids
<1>1. \A r \in queue : LET q == [r EXCEPT !.ids = @ \ old]
                       IN  q.to = r.to /\ q.ids = r.ids \ old
  BY DEF TypeOK, QueueRows
<1>2. \A q \in queue' : \E r \in queue : q = [r EXCEPT !.ids = @ \ old] /\ q.ids # {}
  BY DEF TrimQueue
<1>3. QueueShrinks
  <2> DEFINE f == [q \in queue' |-> CHOOSE r \in queue : q = [r EXCEPT !.ids = @ \ old]]
  <2>1. \A q \in queue' : f[q] \in queue /\ q = [f[q] EXCEPT !.ids = @ \ old]
    BY <1>2
  <2>2. f \in [queue' -> queue]
    BY <2>1
  <2> HIDE DEF f
  <2>3. \A q \in queue' : q.to = f[q].to /\ q.ids \subseteq f[q].ids
    BY <1>1, <2>1
  <2>4. \A q, x \in queue' : f[q] = f[x] => q = x
    BY <2>1
  <2>5. QED
    BY <2>2, <2>3, <2>4 DEF QueueShrinks
<1>4. ASSUME NEW d, d \notin old, NEW q \in queue, d \in q.ids
      PROVE  \E r \in queue' : d \in r.ids
  <2> DEFINE r == [q EXCEPT !.ids = @ \ old]
  <2>1. d \in r.ids
    BY <1>1, <1>4
  <2> HIDE DEF r
  <2>2. r \in queue'
    BY <2>1 DEF TrimQueue, r
  <2>3. QED
    BY <2>1, <2>2
<1>5. ASSUME NEW d \in old, NEW q \in queue'
      PROVE  d \notin q.ids
  BY <1>1, <1>2
<1>6. QED
  BY <1>3, <1>4, <1>5

LEMMA TrimmedIs ==
    ASSUME TypeOK, NEW old
    PROVE  \A d \in Receipts :
             LET r == Trimmed(old)[d]
             IN  /\ d \in old => r.st = "gone" /\ ~r.debouncing
                 /\ d \notin old => r = row[d]
<1>1. \A d \in Receipts : LET r == [NoRow EXCEPT !.st = "gone", !.copy = row[d].copy]
                          IN  r.st = "gone" /\ ~r.debouncing
  BY DEF NoRow
<1>2. QED
  BY <1>1 DEF Trimmed

(* Receipts go, and nothing else happens.                                  *)
LEMMA LossHolds ==
    ASSUME HoldInv, IInv', todo = <<>>, todo' = <<>>, NEW old,
           row' = Trimmed(old), QueueShrinks,
           \A d \in Receipts : d \notin old => \A q \in queue : d \in q.ids =>
             (\E r \in queue' : d \in r.ids) \/ row[d].st # "pending",
           UNCHANGED <<setup, up, buffer, sent, excuse>>
    PROVE  HoldInv'
<1>1. IInv /\ TypeOK /\ Once /\ Holding
  BY DEF HoldInv, IInv
<1>2. SentKeeps
  BY DEF SentKeeps
<1>3. \A d \in Receipts : /\ d \in old => row'[d].st = "gone" /\ ~row'[d].debouncing
                          /\ d \notin old => row'[d] = row[d]
  BY <1>1, TrimmedIs
<1>4. Once'
  <2>1. Untouched'
    BY <1>1, <1>2, <1>3, FreshStays DEF Once, Untouched
  <2>2. ASSUME NEW d \in Receipts, Plain(d)'
        PROVE  OnceFor(d)'
    <3>1. Plain(d)
      BY <2>2 DEF Plain
    <3>2. /\ d \in buffer => Fresh(d)
          /\ row[d].debouncing => Fresh(d)
          /\ \A t : Room(d, t)
      BY <1>1, <3>1, QuietOnce
    <3>3. (\A t : Room(d, t)') /\ (Fresh(d) => Fresh(d)')
      BY <1>1, <1>2, <3>2, QuietStays, FreshStays, PlanEmpty DEF Once
    <3>4. row'[d].debouncing => row[d].debouncing
      BY <1>3
    <3>5. QED
      BY <3>2, <3>3, <3>4, PlanEmpty DEF OnceFor
  <2>3. IsFiniteSet(queue')
    BY <1>1, QueueStaysFinite DEF Once
  <2>4. QED
    BY <1>1, <2>1, <2>2, <2>3 DEF Once
<1>5. Holding'
  <2>1. ASSUME NEW d \in Receipts, row'[d].st = "pending"
        PROVE  Covered(d)'
    <3>1. d \notin old /\ row'[d] = row[d] /\ Covered(d)
      BY <1>1, <1>3, <2>1 DEF Holding
    <3>2. (\A k : Owed(k) => Owed(k)') /\ (MayBeLost(d) => MayBeLost(d)')
      BY DEF Owed, MayBeLost
    <3>3. ~MarksIn(todo, d) /\ ~SettlesIn(todo, d)
      BY PlanEmpty
    <3>4. QED
      BY <2>1, <3>1, <3>2, <3>3 DEF Covered
  <2>2. LocalIsTrue' /\ \A q : ~Taken(q)'
    BY DEF LocalIsTrue, Taken
  <2>3. QED
    BY <2>1, <2>2 DEF Holding
<1>6. QED
  BY <1>4, <1>5, PlanEmpty DEF HoldInv

LEMMA RejectHolds ==
    ASSUME HoldInv, NEW d \in Receipts, Reject(d)
    PROVE  HoldInv'
<1>1. /\ todo = <<>> /\ todo' = <<>> /\ row' = Trimmed(Oldest) /\ TrimQueue(Oldest)
      /\ UNCHANGED <<setup, up, buffer, sent, excuse>>
  BY DEF Reject, Quiet, processVars
<1>2. IInv /\ IInv' /\ TypeOK /\ QueueHolds
  BY RejectKeeps DEF HoldInv, IInv
<1>3. QED
  BY <1>1, <1>2, TrimHolds, LossHolds

LEMMA DeleteEndpointHolds ==
    ASSUME HoldInv, DeleteEndpoint
    PROVE  HoldInv'
<1> DEFINE old == {d \in Receipts : Kept(d)}
<1>1. /\ todo = <<>> /\ todo' = <<>> /\ row' = Trimmed(old) /\ queue' = {}
      /\ UNCHANGED <<setup, up, buffer, sent, excuse>>
  BY DEF DeleteEndpoint, Quiet
<1>2. IInv' /\ QueueShrinks
  BY <1>1, DeleteEndpointKeeps, SameShrinks DEF HoldInv
<1>3. \A d \in Receipts : d \notin old => row[d].st # "pending"
  BY DEF Kept
<1> HIDE DEF old
<1>4. QED
  BY <1>1, <1>2, <1>3, LossHolds

-----------------------------------------------------------------------------
(* A receipt is inserted, and the oldest goes.                             *)

InsertedFor(d) ==
    /\ row'[d].st = "pending" /\ ~row'[d].debouncing
    /\ \A x \in Receipts : x # d =>
         row'[x] = row[x] \/ (row'[x].st = "gone" /\ ~row'[x].debouncing)
    /\ QueueShrinks
    /\ \A x \in Receipts : x # d /\ row'[x].st = "pending" =>
         \A q \in queue : x \in q.ids => \E r \in queue' : x \in r.ids

LEMMA InsertHolds ==
    ASSUME TypeOK, QueueHolds, NEW d \in Receipts, NEW o, NEW copy, Insert(d, o, copy)
    PROVE  InsertedFor(d)
<1>1. PICK old : row' = Inserted(old, d, o, copy) /\ TrimQueue(old)
  BY DEF Insert
<1> DEFINE new == [st |-> "pending", debouncing |-> FALSE, opt |-> o, msgs |-> {},
                   copy |-> copy, at |-> clock + 1]
<1>2. row' = [Trimmed(old) EXCEPT ![d] = new]
  BY <1>1 DEF Inserted
<1>3. new.st = "pending" /\ ~new.debouncing
  OBVIOUS
<1> HIDE DEF new
<1>4. row'[d] = new /\ \A x \in Receipts : x # d => row'[x] = Trimmed(old)[x]
  BY <1>2, TrimmedType DEF RowTable
<1>5. \A x \in Receipts : x # d =>
        /\ x \in old => row'[x].st = "gone" /\ ~row'[x].debouncing
        /\ x \notin old => row'[x] = row[x]
  BY <1>4, TrimmedIs
<1>6. QED
  BY <1>1, <1>3, <1>4, <1>5, TrimHolds DEF InsertedFor

LEMMA InsertOnce ==
    ASSUME HoldInv, todo = <<>>, up, up', UNCHANGED <<setup, sent>>, NEW d \in Receipts, ~Kept(d),
           InsertedFor(d), buffer' \subseteq buffer \cup {d},
           \A x \in Receipts : excuse[x] \subseteq excuse'[x],
           row[d].st = "gone" => "retired" \in excuse'[d],
           \A x : MarksIn(todo', x) => x = d,
           \A x, t : /\ Left(todo', x, t) # {} =>
                          x \in buffer \cup {d} /\ (x \in buffer' => x = d /\ d \in buffer)
                     /\ AtMost(Left(todo', x, t), Mentions(t))
    PROVE  Once'
<1>1. IInv /\ TypeOK /\ Once /\ SentKeeps /\ QueueShrinks
  BY DEF HoldInv, IInv, SentKeeps, InsertedFor
<1>2. \A x \in Receipts : Plain(x)' => Plain(x)
  BY <1>1, ExcusesStay
<1>3. Plain(d)' => row[d].st = "none"
  BY DEF Plain, Kept
<1>4. row[d].st = "none" => Fresh(d) /\ d \notin buffer
  BY <1>1 DEF Once, Untouched
<1>5. ASSUME NEW x \in Receipts, row'[x].st = "none"
      PROVE  Fresh(x)' /\ x \notin buffer'
  <2>1. x # d /\ row[x].st = "none"
    BY <1>5 DEF InsertedFor
  <2>2. Fresh(x) /\ x \notin buffer
    BY <1>1, <2>1 DEF Once, Untouched
  <2>3. QED
    BY <1>1, <2>1, <2>2, FreshStays
<1>6. ASSUME NEW x \in Receipts, Plain(x)'
      PROVE  OnceFor(x)'
  <2>1. /\ x \in buffer \cup {d} => Fresh(x)
        /\ x # d /\ row[x].debouncing => Fresh(x)
        /\ \A t : Room(x, t)
        /\ x = d => d \notin buffer
    BY <1>1, <1>2, <1>3, <1>4, <1>6, QuietOnce
  <2>2. Fresh(x) => Fresh(x)'
    BY <1>1, FreshStays
  <2>3. x \in buffer' => Fresh(x)' /\ \A t : Left(todo', x, t) = {}
    BY <2>1, <2>2
  <2>4. row'[x].debouncing => Fresh(x)'
    BY <2>1, <2>2 DEF InsertedFor
  <2>5. MarksIn(todo', x) => Fresh(x)'
    BY <2>1, <2>2
  <2>6. ASSUME NEW t
        PROVE  Room(x, t)'
    <3>1. CASE Left(todo', x, t) = {}
      BY <1>1, <2>1, <3>1, QuietStays DEF Once
    <3>2. CASE Left(todo', x, t) # {}
      BY <2>1, <2>2, <3>2, MentionsStay, RoomFresh
    <3>3. QED
      BY <3>1, <3>2
  <2>7. QED
    BY <2>3, <2>4, <2>5, <2>6 DEF OnceFor
<1>7. IsFiniteSet(queue')
  BY <1>1, QueueStaysFinite DEF Once
<1>8. QED
  BY <1>5, <1>6, <1>7 DEF Once, Untouched

LEMMA InsertHolding ==
    ASSUME HoldInv, todo = <<>>, up, sent' = sent, NEW d \in Receipts,
           InsertedFor(d), local' = NothingDone,
           todo' \in Seq(StatementRecords), \A j \in 1 .. Len(todo') : todo'[j].rows = {},
           \A x \in Receipts : excuse[x] \subseteq excuse'[x],
           SettlesIn(todo', d) \/ (d \in buffer' /\ MarksIn(todo', d)) \/ MayBeLost(d)',
           \A x \in buffer : row'[x].st = "pending" =>
             x \in buffer' \/ SettlesIn(todo', x) \/ MayBeLost(x)'
    PROVE  Holding'
<1>1. IInv /\ TypeOK /\ Holding
  BY DEF HoldInv, IInv
<1>2. ASSUME NEW x \in Receipts, row'[x].st = "pending"
      PROVE  Covered(x)'
  <2>1. CASE x = d
    BY <2>1 DEF Covered
  <2>2. CASE x # d
    <3>1. row'[x] = row[x] /\ Covered(x)
      BY <1>1, <1>2, <2>2 DEF InsertedFor, Holding
    <3>2. (\A k : Owed(k) => Owed(k)') /\ (MayBeLost(x) => MayBeLost(x)')
      BY DEF Owed, MayBeLost
    <3>3. ~MarksIn(todo, x) /\ ~SettlesIn(todo, x)
      BY PlanEmpty
    <3>4. \A q \in queue : x \in q.ids => \E r \in queue' : x \in r.ids
      BY <1>2, <2>2 DEF InsertedFor
    <3>5. CASE x \in buffer /\ row[x].debouncing
      BY <1>2, <3>1, <3>5 DEF Covered
    <3>6. CASE \E q \in queue : x \in q.ids
      BY <3>4, <3>6 DEF Covered
    <3>7. CASE \E k \in row[x].msgs : Owed(k)
      BY <3>1, <3>2, <3>7 DEF Covered
    <3>8. CASE MayBeLost(x)
      BY <3>2, <3>8 DEF Covered
    <3>9. QED
      BY <3>1, <3>3, <3>5, <3>6, <3>7, <3>8 DEF Covered
  <2>3. QED
    BY <2>1, <2>2
<1>3. \A q : ~Taken(q)'
  BY NoRows DEF Taken
<1>4. LocalIsTrue'
  BY DEF LocalIsTrue, NothingDone
<1>5. QED
  BY <1>2, <1>3, <1>4 DEF Holding

(* runPipeline's three ways.                                               *)
LEMMA PipelineHolds ==
    ASSUME HoldInv, TypeOK', todo = <<>>, up, up', UNCHANGED <<setup, endpoint, sent>>,
           NEW d \in Receipts, ~Kept(d), InsertedFor(d), Pipeline(row', d)
    PROVE  Shaped(todo') /\ Once' /\ Holding'
<1> DEFINE group == buffer \cup {d}
           marks == Update("debouncing", {d})
           goes == ToTargets(row', group)
<1>1. TypeOK /\ group \in SUBSET Receipts /\ todo' \in Seq(StatementRecords)
      /\ There(row'[d]) /\ row'[d].st = "pending"
  BY DEF HoldInv, IInv, TypeOK, InsertedFor, There
<1>2. /\ \A x \in Receipts : excuse[x] \subseteq ExcusedIfRetired(d)[x]
      /\ row[d].st = "gone" => "retired" \in ExcusedIfRetired(d)[d]
      /\ \A x \in group : endpoint # "live" => "endpoint" \in ExcusedIfDeleted(group)[x]
  BY <1>1, ExcusedIs
<1>3. /\ Shaped(goes) /\ Frontless(goes) /\ goes \in Seq(StatementRecords)
      /\ \A x, t : /\ Left(goes, x, t) # {} => x \in group
                   /\ AtMost(Left(goes, x, t), Mentions(t))
      /\ \A x : ~MarksIn(goes, x)
      /\ endpoint = "live" => \A x \in group : There(row'[x]) => SettlesIn(goes, x)
  BY <1>1, PlanToTargets
<1>4. /\ Shaped(marks)
      /\ \A x, t : Left(marks, x, t) = {} /\ AtMost({}, Mentions(t))
      /\ \A x : MarksIn(marks, x) <=> x = d
      /\ \A j \in 1 .. Len(marks) : marks[j].rows = {}
  <2>1. "debouncing" \in Operations \ {"target", "force"} /\ {d} \in SUBSET Receipts
    BY DEF Operations
  <2>2. /\ Shaped(marks)
        /\ \A x, t : Left(marks, x, t) = {}
        /\ \A x : MarksIn(marks, x) <=> x \in {d}
        /\ \A j \in 1 .. Len(marks) : marks[j].rows = {}
    BY <2>1, PlanUpdate, Zenon
  <2> HIDE DEF marks
  <2>3. \A t : AtMost({}, Mentions(t))
    BY <1>1, TargetsOK, MentionsOfFinite, EmptyAtMost DEF Mentions
  <2>4. QED
    BY <2>2, <2>3
<1> HIDE DEF group, marks, goes
<1>5. ASSUME buffer' = buffer, todo' = Dispatch({d}, setup.targets, "target"),
             local' = NothingDone, excuse' = ExcusedIfRetired(d)
      PROVE  Shaped(todo') /\ Once' /\ Holding'
  <2>1. setup.targets \in Seq(Members \cup Channels)
    BY <1>1, TargetsOK
  <2>2. /\ Shaped(todo') /\ Frontless(todo')
        /\ \A x, t : /\ Left(todo', x, t) # {} => x \in {d}
                     /\ AtMost(Left(todo', x, t), Mentions(t))
        /\ \A x : (SettlesIn(todo', x) <=> x \in {d}) /\ ~MarksIn(todo', x)
    <3> DEFINE p == Dispatch({d}, setup.targets, "target")
    <3>1. {d} \in SUBSET Receipts /\ "target" \in {"target", "force"}
      OBVIOUS
    <3>2. PlanFor(p, {d}, setup.targets)
      BY <2>1, <3>1, PlanDispatch
    <3> HIDE DEF p
    <3>3. todo' = p
      BY <1>5 DEF p
    <3>4. QED
      BY <3>2, <3>3 DEF PlanFor, Mentions
  <2>3. Once'
    BY <1>2, <1>5, <2>2, InsertOnce
  <2>4. Holding'
    BY <1>1, <1>2, <1>5, <2>2, InsertHolding DEF Frontless
  <2>5. QED
    BY <2>2, <2>3, <2>4
<1>6. ASSUME buffer' = group, todo' = marks, local' = NothingDone,
             excuse' = ExcusedIfRetired(d)
      PROVE  Shaped(todo') /\ Once' /\ Holding'
  <2>1. d \in buffer' /\ buffer' = buffer \cup {d}
    BY <1>6 DEF group
  <2>2. Once'
    BY <1>2, <1>4, <1>6, <2>1, InsertOnce
  <2>3. Holding'
    BY <1>1, <1>2, <1>4, <1>6, <2>1, InsertHolding
  <2>4. QED
    BY <1>4, <1>6, <2>2, <2>3
<1>7. ASSUME buffer' = {}, todo' = marks \o goes, local' = NothingDone,
             excuse' = [x \in Receipts |->
                          ExcusedIfRetired(d)[x] \cup ExcusedIfDeleted(group)[x]]
      PROVE  Shaped(todo') /\ Once' /\ Holding'
  <2> DEFINE s == Statement("debouncing", {d}, {}, NoTarget)
  <2>1. s \in StatementRecords /\ s.op = "debouncing" /\ s.ids = {d} /\ s.rows = {}
    BY DEF Statement, StatementRecords, Operations
  <2>2. marks = <<s>>
    BY DEF marks, Update
  <2>3. ~SendOp(s) /\ ~EndOp(s) /\ ~SettleOp(s)
    BY <2>1 DEF SendOp, EndOp, SettleOp
  <2> HIDE DEF s
  <2>4. /\ Shaped(todo')
        /\ \A x, t : /\ Left(todo', x, t) # {} => x \in group
                     /\ AtMost(Left(todo', x, t), Mentions(t))
        /\ \A x : /\ SettlesIn(goes, x) => SettlesIn(todo', x)
                  /\ MarksIn(todo', x) => x = d
        /\ \A j \in 1 .. Len(todo') : todo'[j].rows = {}
    <3> DEFINE c == <<s>> \o goes
    <3>1. /\ Shaped(c)
          /\ \A x, t : Left(c, x, t) = Left(goes, x, t)
          /\ \A x : /\ SettlesIn(c, x) <=> (SettleOp(s) /\ x \in s.ids) \/ SettlesIn(goes, x)
                    /\ MarksIn(c, x) <=> s.op = "debouncing" /\ x \in s.ids
          /\ s.rows = {} => \A j \in 1 .. Len(c) : c[j].rows = {}
      BY <1>3, <2>1, <2>3, PlanAfter, Zenon
    <3>2. todo' = c
      BY <1>7, <2>2
    <3> HIDE DEF c
    <3>3. QED
      BY <1>3, <2>1, <3>1, <3>2
  <2>5. /\ \A x \in Receipts : excuse[x] \subseteq excuse'[x]
        /\ row[d].st = "gone" => "retired" \in excuse'[d]
        /\ \A x \in group : endpoint # "live" => MayBeLost(x)'
    BY <1>1, <1>2, <1>7 DEF MayBeLost
  <2>6. group = buffer \cup {d} /\ buffer' \subseteq buffer \cup {d}
    BY <1>7 DEF group
  <2>7. Once'
    BY <1>7, <2>4, <2>5, <2>6, InsertOnce
  <2>8. \A x \in group : row'[x].st = "pending" => SettlesIn(todo', x) \/ MayBeLost(x)'
    BY <1>3, <2>4, <2>5, PendingIsThere
  <2>9. Holding'
    BY <1>1, <1>7, <2>4, <2>5, <2>6, <2>8, InsertHolding
  <2>10. QED
    BY <2>4, <2>7, <2>9
<1>8. QED
  BY <1>5, <1>6, <1>7, Zenon DEF Pipeline, Plan, group, marks, goes

LEMMA AcceptHolds ==
    ASSUME HoldInv, NEW d \in Receipts, NEW o \in Options, Accept(d, o)
    PROVE  HoldInv'
<1>1. /\ Quiet /\ ~Kept(d) /\ Insert(d, o, FALSE) /\ Pipeline(row', d)
      /\ UNCHANGED <<setup, up, endpoint, sent>>
  BY DEF Accept
<1>2. IInv' /\ TypeOK' /\ TypeOK /\ QueueHolds
  BY AcceptKeeps DEF HoldInv, IInv
<1>3. InsertedFor(d)
  BY <1>1, <1>2, InsertHolds
<1>4. Shaped(todo') /\ Once' /\ Holding'
  BY <1>1, <1>2, <1>3, PipelineHolds DEF Quiet
<1>5. QED
  BY <1>2, <1>4 DEF HoldInv

LEMMA ReplayHolds ==
    ASSUME HoldInv, NEW d \in Receipts, NEW copy \in Receipts, Replay(d, copy)
    PROVE  HoldInv'
<1>1. /\ Quiet /\ ~Kept(copy) /\ Insert(copy, Own, TRUE) /\ Pipeline(row', copy)
      /\ UNCHANGED <<setup, up, endpoint, sent>>
  BY DEF Replay, Kept
<1>2. IInv' /\ TypeOK' /\ TypeOK /\ QueueHolds
  BY ReplayKeeps DEF HoldInv, IInv
<1>3. InsertedFor(copy)
  BY <1>1, <1>2, InsertHolds
<1>4. Shaped(todo') /\ Once' /\ Holding'
  BY <1>1, <1>2, <1>3, PipelineHolds DEF Quiet
<1>5. QED
  BY <1>2, <1>4 DEF HoldInv

LEMMA FilterHolds ==
    ASSUME HoldInv, NEW d \in Receipts, Filter(d)
    PROVE  HoldInv'
<1>1. /\ todo = <<>> /\ up /\ up' /\ ~Kept(d) /\ Insert(d, Own, FALSE)
      /\ todo' = Update("filtered", {d}) /\ local' = NothingDone
      /\ excuse' = ExcusedIfRetired(d)
      /\ UNCHANGED <<setup, buffer, sent>>
  BY DEF Filter, Quiet, Plan
<1>2. IInv' /\ TypeOK /\ QueueHolds /\ todo' \in Seq(StatementRecords)
  BY FilterKeeps DEF HoldInv, IInv, GoodPlan
<1>3. InsertedFor(d)
  BY <1>1, <1>2, InsertHolds
<1>4. /\ Shaped(todo')
      /\ \A x, t : Left(todo', x, t) = {} /\ AtMost({}, Mentions(t))
      /\ \A x : ~MarksIn(todo', x)
      /\ SettlesIn(todo', d)
      /\ \A j \in 1 .. Len(todo') : todo'[j].rows = {}
  <2> DEFINE p == Update("filtered", {d})
  <2>1. "filtered" \in Operations \ {"target", "force"} /\ {d} \in SUBSET Receipts
    BY DEF Operations
  <2>2. /\ Shaped(p)
        /\ \A x, t : Left(p, x, t) = {}
        /\ \A x : SettlesIn(p, x) <=> "filtered" \notin {"take", "debouncing"} /\ x \in {d}
        /\ \A x : MarksIn(p, x) <=> "filtered" = "debouncing" /\ x \in {d}
        /\ \A j \in 1 .. Len(p) : p[j].rows = {}
    BY <2>1, PlanUpdate, Zenon
  <2> HIDE DEF p
  <2>3. todo' = p
    BY <1>1 DEF p
  <2>4. \A t : AtMost({}, Mentions(t))
    BY <1>2, TargetsOK, MentionsOfFinite, EmptyAtMost DEF Mentions
  <2>5. QED
    BY <2>2, <2>3, <2>4
<1>5. /\ \A x \in Receipts : excuse[x] \subseteq excuse'[x]
      /\ row[d].st = "gone" => "retired" \in excuse'[d]
  BY <1>1, <1>2, ExcusedIs
<1>6. Once'
  BY <1>1, <1>3, <1>4, <1>5, InsertOnce
<1>7. Holding'
  BY <1>1, <1>2, <1>3, <1>4, <1>5, InsertHolding
<1>8. QED
  BY <1>2, <1>4, <1>6, <1>7 DEF HoldInv

-----------------------------------------------------------------------------
(* The statements.                                                         *)

LEMMA DeletePendingHolds ==
    ASSUME HoldInv, DeletePending
    PROVE  HoldInv'
<1>1. PICK q \in Head(todo).rows : queue' = queue \ {q} /\ todo' = DoneRow(q)
  BY DEF DeletePending
<1>2. /\ todo # <<>> /\ up /\ Head(todo).op = "take" /\ local' = NothingDone
      /\ UNCHANGED <<setup, up, row, buffer, sent, excuse>>
  BY DEF DeletePending, Running, processVars
<1>3. IInv /\ IInv' /\ TypeOK /\ Shaped(todo) /\ Once /\ Holding
  BY DeletePendingKeeps DEF HoldInv, IInv
<1>4. /\ Shaped(todo')
      /\ todo' # <<>> => Head(todo').rows \subseteq Head(todo).rows
      /\ \A x \in Head(todo).rows \ {q} : todo' # <<>> /\ x \in Head(todo').rows
      /\ \A x, t : Left(todo', x, t) \subseteq Left(todo, x, t)
      /\ \A x : /\ EndsIn(todo, x) => EndsIn(todo', x)
                /\ SettlesIn(todo, x) => SettlesIn(todo', x)
                /\ ~MarksIn(todo, x) /\ ~MarksIn(todo', x)
  <2> DEFINE c == DoneRow(q)
  <2>1. GoodPlan(todo, row)
    BY <1>3 DEF IInv
  <2>2. /\ Shaped(c)
        /\ c # <<>> => Head(c).rows \subseteq Head(todo).rows
        /\ \A x \in Head(todo).rows \ {q} : c # <<>> /\ x \in Head(c).rows
        /\ \A x, t : Left(c, x, t) \subseteq Left(todo, x, t)
        /\ \A x : /\ EndsIn(todo, x) => EndsIn(c, x)
                  /\ SettlesIn(todo, x) => SettlesIn(c, x)
                  /\ ~MarksIn(todo, x) /\ ~MarksIn(c, x)
    BY <1>2, <1>3, <2>1, AfterRow, Zenon
  <2> HIDE DEF c
  <2>3. todo' = c
    BY <1>1 DEF c
  <2>4. QED
    BY <2>2, <2>3
<1>5. SentKeeps /\ QueueShrinks
  BY <1>1, <1>2, SameShrinks DEF SentKeeps
<1>6. \A d : (Plain(d)' <=> Plain(d)) /\ (MayBeLost(d)' <=> MayBeLost(d))
  BY <1>2 DEF Plain, MayBeLost
<1>7. Once'
  <2>1. ASSUME NEW d \in Receipts, Plain(d)
        PROVE  OnceFor(d)'
    <3>1. OnceFor(d)
      BY <1>3, <2>1 DEF Once
    <3>2. Fresh(d) => Fresh(d)'
      BY <1>5, FreshStays
    <3>3. ASSUME NEW t
          PROVE  Room(d, t)'
      <4>1. /\ IsFiniteSet(SentTo(d, t)) /\ IsFiniteSet(Waiting(d, t))
            /\ IsFiniteSet(Left(todo, d, t)) /\ IsFiniteSet(Mentions(t)) /\ Room(d, t)
        BY <1>3, <3>1, Counted DEF Once, OnceFor
      <4>2. Waiting(d, t)' \subseteq Waiting(d, t)
        BY <1>1, <1>4 DEF Waiting, Taken
      <4>3. AtMost(Waiting(d, t)', Waiting(d, t)) /\ AtMost(SentTo(d, t)', SentTo(d, t))
        BY <1>5, <4>1, <4>2, SentStays, SubsetCounts
      <4>4. AtMost(Left(todo', d, t), Left(todo, d, t))
        BY <1>4, <4>1, SubsetCounts
      <4>5. QED
        BY <1>2, <4>1, <4>3, <4>4, MentionsStay, RoomStays
    <3>4. QED
      BY <1>2, <1>4, <3>1, <3>2, <3>3 DEF OnceFor
  <2>2. Untouched'
    BY <1>2, <1>3, <1>5, FreshStays DEF Once, Untouched
  <2>3. IsFiniteSet(queue')
    BY <1>3, <1>5, QueueStaysFinite DEF Once
  <2>4. QED
    BY <1>2, <1>3, <1>6, <2>1, <2>2, <2>3 DEF Once
<1>8. Holding'
  <2>1. \A x : Taken(x)' => Taken(x)
    BY <1>2, <1>4 DEF Taken
  <2>2. ASSUME NEW d \in Receipts, row[d].st = "pending"
        PROVE  Covered(d)'
    <3>1. Covered(d)
      BY <1>3, <2>2 DEF Holding
    <3>2. \A k : Owed(k) => Owed(k)'
      BY <1>2 DEF Owed
    <3>3. d \in q.ids => SettlesIn(todo, d) \/ MayBeLost(d)
      BY <1>1, <1>2, <1>3, <2>2 DEF Holding, Taken
    <3>4. (\E x \in queue : d \in x.ids) => d \in q.ids \/ \E x \in queue' : d \in x.ids
      BY <1>1
    <3>5. QED
      BY <1>2, <1>4, <1>6, <3>1, <3>2, <3>3, <3>4 DEF Covered
  <2>3. LocalIsTrue'
    BY <1>2 DEF LocalIsTrue, NothingDone
  <2>4. QED
    BY <1>2, <1>3, <1>4, <1>6, <2>1, <2>2, <2>3 DEF Holding
<1>9. QED
  BY <1>3, <1>4, <1>7, <1>8 DEF HoldInv

(* What a turn over the targets does, for the delivery's options.          *)
LEMMA DispatchIs ==
    ASSUME DispatchTarget
    PROVE  LET s == Head(todo)
           IN  \/ Push(s)
               \/ Hold(s, "busy")
               \/ Hold(s, "offline")
               \/ queue' = queue /\ local' = local /\ sent' = sent
  BY DEF DispatchTarget


(* One message more, or one row of the queue more, or neither.             *)
Adds(ids, t) ==
    \/ /\ queue' = queue
       /\ \E n : /\ n \notin DOMAIN sent /\ DOMAIN sent' = DOMAIN sent \cup {n}
                 /\ sent'[n].ids = ids /\ sent'[n].to = t
                 /\ \A k \in DOMAIN sent : sent'[k] = sent[k]
    \/ sent' = sent /\ \E q : queue' = queue \cup {q} /\ q.ids = ids /\ q.to = t
    \/ sent' = sent /\ queue' = queue

LEMMA AddsOthers ==
    ASSUME NEW ids, NEW t, Adds(ids, t), NEW d, d \notin ids, Fresh(d)
    PROVE  Fresh(d)'
  BY DEF Fresh, Adds

LEMMA AddsFinite ==
    ASSUME NEW ids, NEW t, Adds(ids, t), IsFiniteSet(queue)
    PROVE  IsFiniteSet(queue')
  BY FS_AddElement DEF Adds

(* To other targets, and of other deliveries, nothing is added.            *)
LEMMA AddsElsewhere ==
    ASSUME NEW ids, NEW t, Adds(ids, t), \A q : ~Taken(q) /\ ~Taken(q)',
           NEW d, NEW u, d \notin ids \/ u # t
    PROVE  SentTo(d, u)' = SentTo(d, u) /\ Waiting(d, u)' = Waiting(d, u)
<1>1. CASE /\ queue' = queue
           /\ \E n : /\ n \notin DOMAIN sent /\ DOMAIN sent' = DOMAIN sent \cup {n}
                     /\ sent'[n].ids = ids /\ sent'[n].to = t
                     /\ \A k \in DOMAIN sent : sent'[k] = sent[k]
  BY <1>1 DEF SentTo, Waiting
<1>2. CASE sent' = sent /\ \E q : queue' = queue \cup {q} /\ q.ids = ids /\ q.to = t
  BY <1>2 DEF SentTo, Waiting
<1>3. CASE sent' = sent /\ queue' = queue
  BY <1>3 DEF SentTo, Waiting
<1>4. QED
  BY <1>1, <1>2, <1>3 DEF Adds

(* Of what was still to send, one thing is now sent, or waits, or is       *)
(* skipped.                                                                *)
LEMMA AddsOne ==
    ASSUME NEW ids, NEW t, Adds(ids, t), \A q : ~Taken(q) /\ ~Taken(q)',
           NEW d, Room(d, t), Mentions(t)' = Mentions(t), IsFiniteSet(Mentions(t)),
           IsFiniteSet(SentTo(d, t)), IsFiniteSet(Waiting(d, t)), IsFiniteSet(Left(todo, d, t)),
           NEW i \in Left(todo, d, t), Left(todo', d, t) \subseteq Left(todo, d, t) \ {i}
    PROVE  Room(d, t)'
<1> DEFINE L == Left(todo, d, t) \ {i}
<1>1. IsFiniteSet(L) /\ Cardinality(L) = Cardinality(Left(todo, d, t)) - 1
  BY FS_RemoveElement
<1>2. IsFiniteSet(Left(todo', d, t)) /\ Cardinality(Left(todo', d, t)) <= Cardinality(L)
  BY <1>1, FS_Subset
<1> HIDE DEF L
<1>3. /\ IsFiniteSet(SentTo(d, t)') /\ IsFiniteSet(Waiting(d, t)')
      /\ \/ /\ Cardinality(SentTo(d, t)') <= Cardinality(SentTo(d, t)) + 1
            /\ Waiting(d, t)' = Waiting(d, t)
         \/ /\ Cardinality(Waiting(d, t)') <= Cardinality(Waiting(d, t)) + 1
            /\ SentTo(d, t)' = SentTo(d, t)
  <2>1. CASE /\ queue' = queue
             /\ \E n : /\ n \notin DOMAIN sent /\ DOMAIN sent' = DOMAIN sent \cup {n}
                       /\ sent'[n].ids = ids /\ sent'[n].to = t
                       /\ \A k \in DOMAIN sent : sent'[k] = sent[k]
    <3>1. PICK n : /\ n \notin DOMAIN sent /\ DOMAIN sent' = DOMAIN sent \cup {n}
                   /\ \A k \in DOMAIN sent : sent'[k] = sent[k]
      BY <2>1
    <3>2. SentTo(d, t)' \subseteq SentTo(d, t) \cup {n} /\ Waiting(d, t)' = Waiting(d, t)
      BY <2>1, <3>1 DEF SentTo, Waiting
    <3>3. GrowsByOne(SentTo(d, t)', SentTo(d, t))
      BY <3>2, OneMore
    <3>4. QED
      BY <3>2, <3>3 DEF GrowsByOne
  <2>2. CASE sent' = sent /\ \E q : queue' = queue \cup {q} /\ q.ids = ids /\ q.to = t
    <3>1. PICK q : queue' = queue \cup {q}
      BY <2>2
    <3>2. Waiting(d, t)' \subseteq Waiting(d, t) \cup {q} /\ SentTo(d, t)' = SentTo(d, t)
      BY <2>2, <3>1 DEF SentTo, Waiting
    <3>3. GrowsByOne(Waiting(d, t)', Waiting(d, t))
      BY <3>2, OneMore
    <3>4. QED
      BY <3>2, <3>3 DEF GrowsByOne
  <2>3. CASE sent' = sent /\ queue' = queue
    <3>1. SentTo(d, t)' = SentTo(d, t) /\ Waiting(d, t)' = Waiting(d, t)
      BY <2>3 DEF SentTo, Waiting
    <3>2. Cardinality(SentTo(d, t)) <= Cardinality(SentTo(d, t)) + 1
      BY FS_CardinalityType
    <3>3. QED
      BY <3>1, <3>2
  <2>4. QED
    BY <2>1, <2>2, <2>3 DEF Adds
<1>4. /\ Cardinality(SentTo(d, t)) \in Nat /\ Cardinality(SentTo(d, t)') \in Nat
      /\ Cardinality(Waiting(d, t)) \in Nat /\ Cardinality(Waiting(d, t)') \in Nat
      /\ Cardinality(Left(todo, d, t)) \in Nat /\ Cardinality(Left(todo', d, t)) \in Nat
      /\ Cardinality(Mentions(t)) \in Nat
  BY <1>2, <1>3, FS_CardinalityType
<1>5. Cardinality(SentTo(d, t)') + Cardinality(Waiting(d, t)')
        <= Cardinality(SentTo(d, t)) + Cardinality(Waiting(d, t)) + 1
  BY <1>3, <1>4
<1>6. Cardinality(SentTo(d, t)) + Cardinality(Waiting(d, t)) + Cardinality(Left(todo, d, t))
        <= Cardinality(Mentions(t))
  BY DEF Room
<1>7. Cardinality(Left(todo', d, t)) <= Cardinality(Left(todo, d, t)) - 1
  BY <1>1, <1>2
<1>8. Cardinality(SentTo(d, t)') + Cardinality(Waiting(d, t)') + Cardinality(Left(todo', d, t))
        <= Cardinality(Mentions(t))
  BY <1>4, <1>5, <1>6, <1>7
<1>9. QED
  BY <1>8 DEF Room

LEMMA DispatchTargetHolds ==
    ASSUME HoldInv, DispatchTarget
    PROVE  HoldInv'
<1> DEFINE s == Head(todo)
           n == Len(sent) + 1
<1>1. /\ todo # <<>> /\ up /\ SendOp(s) /\ todo' = Tail(todo)
      /\ UNCHANGED <<setup, up, row, buffer, excuse>>
  BY DEF DispatchTarget, Running, SendOp, processVars
<1>2. /\ IInv /\ IInv' /\ TypeOK /\ Shaped(todo) /\ Once /\ Holding
      /\ todo \in Seq(StatementRecords) /\ GoodStatement(s, row)
  BY <1>1, DispatchTargetKeeps, HeadFacts DEF HoldInv, IInv, TypeOK
<1>3. s.rows = {} /\ s.to \in Members \cup Channels /\ s.ids \in SUBSET Receipts
      /\ ~EndOp(s) /\ ~SettleOp(s) /\ s.op # "debouncing"
  BY <1>1, <1>2 DEF GoodStatement, SendOp, EndOp, SettleOp, StatementRecords
<1>4. /\ sent \in Seq(Messages) /\ Len(sent) \in Nat /\ DOMAIN sent = 1 .. Len(sent)
      /\ local.msgs \subseteq DOMAIN sent
      /\ local \in [msgs : SUBSET (1..Len(sent)), acked : BOOLEAN, queued : BOOLEAN]
  BY <1>2, LenProperties DEF TypeOK
<1>5. /\ Shaped(todo') /\ todo' # <<>> /\ Head(todo').rows = {}
      /\ todo'[Len(todo')] = todo[Len(todo)] /\ todo[Len(todo)].ids = s.ids
      /\ \A d, t : Left(todo', d, t) \subseteq Left(todo, d, t)
      /\ \A d : /\ EndsIn(todo, d) <=> EndsIn(todo', d)
                /\ SettlesIn(todo, d) <=> SettlesIn(todo', d)
                /\ ~MarksIn(todo, d)
      /\ \A d \in s.ids : /\ EndsIn(todo', d)
                          /\ \E i \in Left(todo, d, s.to) : i \notin Left(todo', d, s.to)
  <2> DEFINE r == Tail(todo)
  <2>1. /\ Shaped(r)
        /\ r # <<>> => Head(r).rows = {} /\ r[Len(r)] = todo[Len(todo)]
        /\ \A d, t : Left(r, d, t) \subseteq Left(todo, d, t)
        /\ \A d : /\ EndsIn(todo, d) <=> (EndOp(s) /\ d \in s.ids) \/ EndsIn(r, d)
                  /\ SettlesIn(todo, d) <=> (SettleOp(s) /\ d \in s.ids) \/ SettlesIn(r, d)
                  /\ MarksIn(todo, d) <=> s.op = "debouncing" /\ d \in s.ids
        /\ SendOp(s) => /\ r # <<>> /\ EndOp(todo[Len(todo)]) /\ todo[Len(todo)].ids = s.ids
                        /\ \A d \in s.ids : /\ EndsIn(r, d)
                                            /\ Len(r) \in Left(todo, d, s.to)
                                            /\ Len(r) \notin Left(r, d, s.to)
    BY <1>1, <1>2, PlanTail, Zenon
  <2> HIDE DEF r, s
  <2>2. todo' = r
    BY <1>1 DEF r
  <2>3. QED
    BY <1>1, <1>3, <2>1, <2>2
<1>6. \A d : ~MarksIn(todo', d)
  <2>1. Frontless(Tail(todo))
    BY <1>1, <1>2, PlanTail, Zenon
  <2>2. Frontless(todo')
    BY <1>1, <2>1
  <2>3. QED
    BY <2>2 DEF MarksIn, Frontless
<1> HIDE DEF s
<1>7. \A q : ~Taken(q) /\ ~Taken(q)'
  BY <1>3, <1>5 DEF Taken, s
<1>8. \A d : (Plain(d)' <=> Plain(d)) /\ (MayBeLost(d)' <=> MayBeLost(d))
  BY <1>1 DEF Plain, MayBeLost
<1>9. /\ Adds(s.ids, s.to)
      /\ \A k \in DOMAIN sent : sent'[k] = sent[k] /\ k \in DOMAIN sent'
      /\ queue \subseteq queue'
      /\ LocalIsTrue'
  <2>1. CASE Push(s)
    <3> DEFINE msg == [ids |-> s.ids, to |-> s.to, out |-> Outcome(s.to)]
    <3>1. msg \in Messages
      BY <1>3 DEF Messages, Outcome, Outcomes
    <3>2. msg.ids = s.ids /\ msg.to = s.to /\ msg.out = Outcome(s.to)
      OBVIOUS
    <3>3. /\ sent' = Append(sent, msg) /\ queue' = queue
          /\ local' = [local EXCEPT !.msgs = @ \cup {n}, !.acked = @ \/ Recipients(s.to) = {}]
      BY <2>1 DEF Push
    <3> HIDE DEF msg
    <3>4. /\ sent' \in Seq(Messages) /\ Len(sent') = n /\ sent'[n] = msg
          /\ \A k \in 1 .. Len(sent) : sent'[k] = sent[k]
      BY <1>4, <3>1, <3>3, AppendProperties
    <3>5. DOMAIN sent' = DOMAIN sent \cup {n} /\ n \notin DOMAIN sent
      BY <1>4, <3>4, LenProperties
    <3>6. Adds(s.ids, s.to)
      BY <1>4, <3>2, <3>3, <3>4, <3>5 DEF Adds
    <3>7. /\ local'.msgs = local.msgs \cup {n} /\ local'.queued = local.queued
          /\ ~local'.acked => ~local.acked /\ Recipients(s.to) # {}
      BY <1>4, <3>3
    <3>8. \A k \in DOMAIN sent : Owed(k) => Owed(k)'
      BY <1>4, <3>4 DEF Owed
    <3>9. ASSUME NEW k, k = n, Recipients(s.to) # {}
          PROVE  Owed(k)'
      <4>1. Recipients(s.to) \subseteq Members
        BY <1>3, NotificationConstantsOK DEF Recipients
      <4>2. \A x \in Recipients(s.to) : Outcome(s.to)[x] \in {"open", "unreported"}
        BY <4>1 DEF Outcome
      <4>3. QED
        BY <3>2, <3>4, <3>9, <4>1, <4>2 DEF Owed
    <3>10. LocalIsTrue'
      <4>1. LocalIsTrue
        BY <1>2 DEF Holding
      <4>2. ~local'.acked => \A k \in local'.msgs : Owed(k)'
        BY <1>1, <1>4, <3>7, <3>8, <3>9, <4>1 DEF LocalIsTrue
      <4>3. local'.queued => \E q \in queue' : todo'[Len(todo')].ids \subseteq q.ids
        BY <1>1, <1>5, <3>3, <3>7, <4>1 DEF LocalIsTrue
      <4>4. QED
        BY <4>2, <4>3 DEF LocalIsTrue
    <3>11. QED
      BY <1>4, <3>3, <3>4, <3>5, <3>6, <3>10
  <2>2. ASSUME NEW why, Hold(s, why)
        PROVE  /\ Adds(s.ids, s.to)
               /\ \A k \in DOMAIN sent : sent'[k] = sent[k] /\ k \in DOMAIN sent'
               /\ queue \subseteq queue'
               /\ LocalIsTrue'
    <3> DEFINE held == [to |-> s.to, why |-> why, ids |-> s.ids, turn |-> Len(todo)]
    <3>1. held.to = s.to /\ held.ids = s.ids
      OBVIOUS
    <3>2. queue' = queue \cup {held} /\ sent' = sent /\ local' = [local EXCEPT !.queued = TRUE]
      BY <2>2 DEF Hold
    <3> HIDE DEF held
    <3>3. Adds(s.ids, s.to) /\ queue \subseteq queue'
      BY <3>1, <3>2 DEF Adds
    <3>4. local'.msgs = local.msgs /\ local'.acked = local.acked
      BY <1>4, <3>2
    <3>5. LocalIsTrue'
      <4>1. LocalIsTrue
        BY <1>2 DEF Holding
      <4>2. ~local'.acked => \A k \in local'.msgs : Owed(k)'
        BY <1>1, <3>2, <3>4, <4>1 DEF LocalIsTrue, Owed
      <4>3. \E q \in queue' : todo'[Len(todo')].ids \subseteq q.ids
        BY <1>5, <3>1, <3>2
      <4>4. QED
        BY <4>2, <4>3 DEF LocalIsTrue
    <3>6. QED
      BY <3>2, <3>3, <3>5
  <2>3. CASE queue' = queue /\ local' = local /\ sent' = sent
    <3>1. LocalIsTrue
      BY <1>2 DEF Holding
    <3>2. LocalIsTrue'
      BY <1>1, <1>5, <2>3, <3>1 DEF LocalIsTrue, Owed
    <3>3. QED
      BY <2>3, <3>2 DEF Adds
  <2>4. QED
    BY <2>1, <2>2, <2>3, DispatchIs DEF s
<1>10. Once'
  <2>1. ASSUME NEW d \in Receipts, Plain(d)
        PROVE  OnceFor(d)'
    <3>1. OnceFor(d)
      BY <1>2, <2>1 DEF Once
    <3>2. d \notin s.ids /\ Fresh(d) => Fresh(d)'
      BY <1>9, AddsOthers
    <3>3. d \in s.ids => EndsIn(todo', d) /\ d \notin buffer
      BY <1>5, <3>1 DEF OnceFor
    <3>4. ASSUME NEW t
          PROVE  Room(d, t)'
      <4>1. /\ IsFiniteSet(SentTo(d, t)) /\ IsFiniteSet(Waiting(d, t))
            /\ IsFiniteSet(Left(todo, d, t)) /\ IsFiniteSet(Mentions(t)) /\ Room(d, t)
        BY <1>2, <3>1, Counted DEF Once, OnceFor
      <4>2. Mentions(t)' = Mentions(t)
        BY <1>1, MentionsStay
      <4>3. CASE d \notin s.ids \/ t # s.to
        <5>1. SentTo(d, t)' = SentTo(d, t) /\ Waiting(d, t)' = Waiting(d, t)
          BY <1>7, <1>9, <4>3, AddsElsewhere
        <5>2. AtMost(Left(todo', d, t), Left(todo, d, t))
          BY <1>5, <4>1, SubsetCounts
        <5>3. AtMost(SentTo(d, t)', SentTo(d, t)) /\ AtMost(Waiting(d, t)', Waiting(d, t))
          BY <4>1, <5>1, SubsetCounts
        <5>4. QED
          BY <4>1, <4>2, <5>2, <5>3, RoomStays
      <4>4. CASE d \in s.ids /\ t = s.to
        <5>1. PICK i \in Left(todo, d, t) : i \notin Left(todo', d, t)
          BY <1>5, <4>4
        <5>2. Left(todo', d, t) \subseteq Left(todo, d, t) \ {i}
          BY <1>5, <5>1
        <5>3. Adds(s.ids, t)
          BY <1>9, <4>4
        <5>4. QED
          BY <1>7, <4>1, <4>2, <5>1, <5>2, <5>3, AddsOne
      <4>5. QED
        BY <4>3, <4>4
    <3>5. QED
      BY <1>1, <1>5, <1>6, <3>1, <3>2, <3>3, <3>4 DEF OnceFor
  <2>2. ASSUME NEW d \in Receipts, row[d].st = "none"
        PROVE  Fresh(d)'
    <3>1. d \notin s.ids
      BY <1>2, <2>2 DEF GoodStatement, There, s
    <3>2. QED
      BY <1>2, <1>9, <2>2, <3>1, AddsOthers DEF Once, Untouched
  <2>3. IsFiniteSet(queue')
    BY <1>2, <1>9, AddsFinite DEF Once
  <2>4. QED
    BY <1>1, <1>2, <1>8, <2>1, <2>2, <2>3 DEF Once, Untouched
<1>11. Holding'
  <2>1. ASSUME NEW d \in Receipts, row[d].st = "pending"
        PROVE  Covered(d)'
    <3>1. Covered(d)
      BY <1>2, <2>1 DEF Holding
    <3>2. \A k \in row[d].msgs : k \in DOMAIN sent
      BY <1>2, <1>4 DEF TypeOK, DeliveryRows
    <3>3. \A k \in row[d].msgs : Owed(k) => Owed(k)'
      BY <1>9, <3>2 DEF Owed
    <3>4. QED
      BY <1>1, <1>5, <1>8, <1>9, <3>1, <3>3 DEF Covered
  <2>2. QED
    BY <1>1, <1>7, <1>9, <2>1 DEF Holding
<1>12. QED
  BY <1>2, <1>5, <1>10, <1>11 DEF HoldInv

LEMMA UpdateDeliveryHolds ==
    ASSUME HoldInv, UpdateDelivery
    PROVE  HoldInv'
<1> DEFINE s == Head(todo)
<1>1. /\ todo # <<>> /\ up /\ ~SendOp(s) /\ s.op # "take"
      /\ s.op = "debouncing" \/ SettleOp(s)
      /\ local' = local \/ local' = NothingDone
      /\ UNCHANGED <<setup, up, queue, buffer, sent, excuse>>
  BY DEF UpdateDelivery, Running, SendOp, SettleOp, processVars
<1>2. PICK d \in s.ids :
        /\ todo' = DoneId(d)
        /\ row' = [row EXCEPT ![d] =
                     CASE s.op = "debouncing" -> [@ EXCEPT !.debouncing = TRUE]
                       [] s.op \in {"first", "rest"} -> Recorded(s.op, @)
                       [] s.op = "expired" /\ @.st # "pending" -> @
                       [] OTHER -> [@ EXCEPT !.st = s.op, !.debouncing = FALSE]]
  BY DEF UpdateDelivery
<1>3. /\ IInv /\ IInv' /\ TypeOK /\ Shaped(todo) /\ Once /\ Holding
      /\ GoodPlan(todo, row) /\ GoodStatement(s, row)
  BY <1>1, UpdateDeliveryKeeps, HeadFacts DEF HoldInv, IInv
<1>4. d \in Receipts /\ There(row[d]) /\ s.rows = {}
  BY <1>1, <1>3 DEF GoodStatement, StatementRecords
<1>5. /\ row \in RowTable /\ row[d] \in DeliveryRows(Len(sent))
      /\ local \in [msgs : SUBSET (1..Len(sent)), acked : BOOLEAN, queued : BOOLEAN]
  BY <1>3, <1>4 DEF TypeOK, RowTable
<1>6. /\ Shaped(todo') /\ (todo' # <<>> => Head(todo').rows = {})
      /\ \A x, t : Left(todo', x, t) \subseteq Left(todo, x, t)
      /\ \A x : /\ EndsIn(todo, x) => EndsIn(todo', x) \/ (EndOp(s) /\ x = d)
                /\ SettlesIn(todo, x) => SettlesIn(todo', x) \/ (SettleOp(s) /\ x = d)
                /\ MarksIn(todo, x) => MarksIn(todo', x) \/ (s.op = "debouncing" /\ x = d)
                /\ MarksIn(todo', x) => MarksIn(todo, x)
      /\ todo' # <<>> => todo'[Len(todo')].ids \subseteq todo[Len(todo)].ids
      /\ EndOp(s) => todo[Len(todo)] = s
      /\ s.op = "debouncing" => MarksIn(todo, d)
  <2> DEFINE c == DoneId(d)
  <2>1. /\ Shaped(c) /\ (c # <<>> => Head(c).rows = {})
        /\ \A x, t : Left(c, x, t) \subseteq Left(todo, x, t)
        /\ \A x : /\ EndsIn(todo, x) => EndsIn(c, x) \/ (EndOp(s) /\ x = d)
                  /\ SettlesIn(todo, x) => SettlesIn(c, x) \/ (SettleOp(s) /\ x = d)
                  /\ MarksIn(todo, x) => MarksIn(c, x) \/ (s.op = "debouncing" /\ x = d)
                  /\ MarksIn(c, x) => MarksIn(todo, x)
        /\ c # <<>> => c[Len(c)].ids \subseteq todo[Len(todo)].ids
        /\ EndOp(s) => todo[Len(todo)] = s
        /\ s.op = "debouncing" => MarksIn(todo, d)
    BY <1>1, <1>3, AfterId, Zenon
  <2> HIDE DEF c, s
  <2>2. todo' = c
    BY <1>2 DEF c
  <2>3. QED
    BY <2>1, <2>2
<1> DEFINE new == CASE s.op = "debouncing" -> [row[d] EXCEPT !.debouncing = TRUE]
                    [] s.op \in {"first", "rest"} -> Recorded(s.op, row[d])
                    [] s.op = "expired" /\ row[d].st # "pending" -> row[d]
                    [] OTHER -> [row[d] EXCEPT !.st = s.op, !.debouncing = FALSE]
<1>7. row'[d] = new /\ \A x \in Receipts : x # d => row'[x] = row[x]
  <2>1. row' = [row EXCEPT ![d] = new]
    BY <1>2
  <2> HIDE DEF new
  <2>2. QED
    BY <1>4, <1>5, <2>1 DEF RowTable
<1>8. /\ row'[d].st # "none"
      /\ s.op = "debouncing" => /\ row'[d].st = row[d].st /\ row'[d].msgs = row[d].msgs
                                /\ row'[d].debouncing
      /\ EndOp(s) => /\ ~row'[d].debouncing
                     /\ row'[d].st = "pending" =>
                          (local.msgs # {} /\ ~local.acked /\ local.msgs \subseteq row'[d].msgs)
                            \/ local.queued
      /\ s.op # "debouncing" /\ ~EndOp(s) =>
           row'[d].st # "pending" /\ (row'[d].debouncing => row[d].debouncing)
  <2>1. CASE s.op = "debouncing"
    <3>1. new = [row[d] EXCEPT !.debouncing = TRUE]
      BY <2>1
    <3>2. QED
      BY <1>4, <1>5, <1>7, <2>1, <3>1 DEF DeliveryRows, EndOp, There
  <2>2. CASE EndOp(s)
    <3>1. new = Recorded(s.op, row[d]) /\ s.op \in {"first", "rest"}
      BY <2>2 DEF EndOp
    <3>2. /\ Recorded(s.op, row[d]).st = StatusAfter(s.op, row[d].st)
          /\ ~Recorded(s.op, row[d]).debouncing
          /\ Recorded(s.op, row[d]).msgs = row[d].msgs \cup local.msgs
      BY <1>5 DEF Recorded, DeliveryRows
    <3>3. StatusAfter(s.op, row[d].st) = "pending" =>
            ~local.acked /\ (local.msgs # {} \/ local.queued)
      BY DEF StatusAfter
    <3>4. StatusAfter(s.op, row[d].st) # "none"
      BY DEF StatusAfter
    <3> HIDE DEF new
    <3>5. QED
      BY <1>7, <2>2, <3>1, <3>2, <3>3, <3>4 DEF EndOp
  <2>3. CASE s.op # "debouncing" /\ ~EndOp(s)
    <3>1. s.op \in {"filtered", "expired", "delivered", "dropped"}
      BY <1>1, <2>3 DEF EndOp, SettleOp
    <3>2. \/ new = row[d] /\ row[d].st # "pending"
          \/ new = [row[d] EXCEPT !.st = s.op, !.debouncing = FALSE]
      BY <3>1
    <3>3. \A op : LET r == [row[d] EXCEPT !.st = op, !.debouncing = FALSE]
                  IN  r.st = op /\ ~r.debouncing
      BY <1>5 DEF DeliveryRows
    <3> HIDE DEF new
    <3>4. QED
      BY <1>4, <1>7, <2>3, <3>1, <3>2, <3>3 DEF There
  <2>4. QED
    BY <2>1, <2>2, <2>3
<1> HIDE DEF new, s
<1>9. \A q : ~Taken(q) /\ ~Taken(q)'
  BY <1>4, <1>6 DEF Taken, s
<1>10. \A x : /\ Plain(x)' <=> Plain(x)
              /\ MayBeLost(x)' <=> MayBeLost(x)
              /\ Fresh(x)' <=> Fresh(x)
  BY <1>1 DEF Plain, MayBeLost, Fresh
<1>11. \A k : Owed(k) => Owed(k)'
  BY <1>1 DEF Owed
<1>12. Once'
  <2>1. ASSUME NEW x \in Receipts, Plain(x)
        PROVE  OnceFor(x)'
    <3>1. OnceFor(x)
      BY <1>3, <2>1 DEF Once
    <3>2. row'[x].debouncing => Fresh(x) \/ EndsIn(todo', x)
      <4>1. CASE x # d
        BY <1>6, <1>7, <3>1, <4>1 DEF OnceFor
      <4>2. CASE x = d
        <5>1. CASE s.op = "debouncing"
          BY <1>6, <3>1, <4>2, <5>1 DEF OnceFor
        <5>2. CASE EndOp(s)
          BY <1>8, <4>2, <5>2
        <5>3. CASE s.op # "debouncing" /\ ~EndOp(s)
          BY <1>6, <1>8, <3>1, <4>2, <5>3 DEF OnceFor
        <5>4. QED
          BY <5>1, <5>2, <5>3
      <4>3. QED
        BY <4>1, <4>2
    <3>3. ASSUME NEW t
          PROVE  Room(x, t)'
      <4>1. /\ IsFiniteSet(SentTo(x, t)) /\ IsFiniteSet(Waiting(x, t))
            /\ IsFiniteSet(Left(todo, x, t)) /\ IsFiniteSet(Mentions(t)) /\ Room(x, t)
        BY <1>3, <3>1, Counted DEF Once, OnceFor
      <4>2. /\ Mentions(t)' = Mentions(t) /\ SentTo(x, t)' = SentTo(x, t)
            /\ Waiting(x, t)' = Waiting(x, t)
        BY <1>1, <1>9, MentionsStay DEF SentTo, Waiting
      <4>3. /\ AtMost(SentTo(x, t)', SentTo(x, t)) /\ AtMost(Waiting(x, t)', Waiting(x, t))
            /\ AtMost(Left(todo', x, t), Left(todo, x, t))
        BY <1>6, <4>1, <4>2, SubsetCounts
      <4>4. QED
        BY <4>1, <4>2, <4>3, RoomStays
    <3>4. QED
      BY <1>1, <1>6, <1>10, <3>1, <3>2, <3>3 DEF OnceFor
  <2>2. ASSUME NEW x \in Receipts, row'[x].st = "none"
        PROVE  row[x].st = "none"
    <3>1. row'[d].st # "none"
      BY <1>8
    <3>2. QED
      BY <1>7, <2>2, <3>1
  <2>3. QED
    BY <1>1, <1>3, <1>10, <2>1, <2>2 DEF Once, Untouched
<1>13. Holding'
  <2>1. ASSUME NEW x \in Receipts, row'[x].st = "pending"
        PROVE  Covered(x)'
    <3>1. CASE x # d
      <4>1. row'[x] = row[x] /\ Covered(x)
        BY <1>3, <1>7, <2>1, <3>1 DEF Holding
      <4>2. QED
        BY <1>1, <1>6, <1>10, <1>11, <3>1, <4>1 DEF Covered
    <3>2. CASE x = d /\ s.op = "debouncing"
      <4>1. /\ Covered(x) /\ row'[x].debouncing /\ row'[x].msgs = row[x].msgs
            /\ ~SettleOp(s)
        BY <1>3, <1>8, <2>1, <3>2 DEF Holding, SettleOp
      <4>2. QED
        BY <1>1, <1>6, <1>10, <1>11, <3>2, <4>1 DEF Covered
    <3>3. CASE x = d /\ EndOp(s)
      <4>1. /\ ~local.acked => \A k \in local.msgs : Owed(k)
            /\ local.queued => \E q \in queue : s.ids \subseteq q.ids
        BY <1>1, <1>3, <1>6, <3>3 DEF Holding, LocalIsTrue
      <4>2. d \in s.ids
        OBVIOUS
      <4>3. QED
        BY <1>1, <1>8, <1>11, <2>1, <3>3, <4>1, <4>2 DEF Covered
    <3>4. QED
      BY <1>8, <2>1, <3>1, <3>2, <3>3
  <2>2. LocalIsTrue'
    <3>1. LocalIsTrue
      BY <1>3 DEF Holding
    <3>2. CASE local' = NothingDone
      BY <3>2 DEF LocalIsTrue, NothingDone
    <3>3. CASE local' = local
      BY <1>1, <1>6, <1>11, <3>1, <3>3 DEF LocalIsTrue
    <3>4. QED
      BY <1>1, <3>2, <3>3
  <2>3. QED
    BY <1>9, <2>1, <2>2 DEF Holding
<1>14. QED
  BY <1>3, <1>6, <1>12, <1>13 DEF HoldInv

-----------------------------------------------------------------------------
(* The theorems about deliveries.                                          *)

LEMMA InitHoldInv == Init => HoldInv
<1> SUFFICES ASSUME Init PROVE HoldInv
  OBVIOUS
<1>1. /\ sent = <<>> /\ DOMAIN sent = {} /\ todo = <<>> /\ queue = {} /\ buffer = {} /\ up
      /\ \A d \in Receipts : row[d].st = "none" /\ ~row[d].debouncing
  BY DEF Init, NoRow
<1>2. \A d : Fresh(d)
  BY <1>1 DEF Fresh
<1>3. Once
  <2>1. ASSUME NEW d, NEW t
        PROVE  Room(d, t)
    <3>1. SentTo(d, t) = {} /\ Waiting(d, t) = {} /\ Left(todo, d, t) = {}
      BY <1>1, PlanEmpty DEF SentTo, Waiting
    <3>2. IsFiniteSet(Mentions(t))
      BY InitIInv, TargetsOK, MentionsOfFinite DEF IInv, Mentions
    <3>3. Cardinality({}) = 0 /\ Cardinality(Mentions(t)) \in Nat
      BY <3>2, FS_EmptySet, FS_CardinalityType
    <3>4. QED
      BY <3>1, <3>3 DEF Room
  <2>2. IsFiniteSet(queue)
    BY <1>1, FS_EmptySet
  <2>3. QED
    BY <1>1, <1>2, <2>1, <2>2, PlanEmpty DEF Once, Untouched, OnceFor
<1>4. Holding
  BY <1>1 DEF Holding, Taken, LocalIsTrue
<1>5. QED
  BY <1>1, <1>3, <1>4, InitIInv, PlanEmpty DEF HoldInv

LEMMA StepHoldInv == HoldInv /\ [Next]_vars => HoldInv'
<1> SUFFICES ASSUME HoldInv, [Next]_vars PROVE HoldInv'
  OBVIOUS
<1>0. IInv'
  BY StepIInv DEF HoldInv
<1>1. CASE UNCHANGED vars
  BY <1>0, <1>1, NothingHolds DEF vars
<1>2. ASSUME NEW d \in Receipts, Ask(d) \/ Duplicate(d) \/ Filter(d) \/ Reject(d)
      PROVE  HoldInv'
  <2>1. CASE Ask(d)
    BY <1>0, <2>1, NothingHolds DEF Ask
  <2>2. CASE Duplicate(d)
    BY <1>0, <2>2, NothingHolds DEF Duplicate, processVars
  <2>3. QED
    BY <1>2, <2>1, <2>2, FilterHolds, RejectHolds
<1>3. ASSUME NEW d \in Receipts, NEW o \in Options, Accept(d, o) PROVE HoldInv'
  BY <1>3, AcceptHolds
<1>4. ASSUME NEW d \in Receipts, NEW copy \in Receipts, Replay(d, copy) PROVE HoldInv'
  BY <1>4, ReplayHolds
<1>5. CASE FlushDebounce
  BY <1>5, FlushDebounceHolds
<1>6. ASSUME NEW m \in Members, NEW kind \in {"observer", "legacy", "runner"}, Wake(m, kind)
      PROVE  HoldInv'
  BY <1>6, WakeHolds
<1>7. ASSUME NEW m \in Members,
             ReportWorking(m) \/ ReportResting(m) \/ Attach(m) \/ Detach(m) \/ Lapse(m)
      PROVE  HoldInv'
  <2>1. CASE ReportWorking(m) \/ Attach(m) \/ Detach(m) \/ Lapse(m)
    BY <1>0, <2>1, NothingHolds DEF ReportWorking, Attach, Detach, Lapse, processVars
  <2>2. CASE ReportResting(m)
    BY <2>2, ReportRestingHolds
  <2>3. QED
    BY <1>7, <2>1, <2>2
<1>8. ASSUME NEW due \in SUBSET queue,
             SweepExpired(due) \/ \E m \in Members : SweepStarved(due, m)
      PROVE  HoldInv'
  BY <1>8, SweepExpiredHolds, SweepStarvedHolds
<1>9. CASE Statements
  BY <1>9, DeletePendingHolds, DispatchTargetHolds, UpdateDeliveryHolds DEF Statements
<1>10. ASSUME NEW k \in DOMAIN sent, NEW m \in Members, NEW outcome \in {"acted", "refused"},
              Disposition(k, m, outcome)
       PROVE  HoldInv'
  BY <1>10, DispositionHolds
<1>11. CASE DeleteEndpoint \/ Halt \/ Restart
  BY <1>11, DeleteEndpointHolds, HaltHolds, RestartHolds
<1>12. QED
  BY <1>1, <1>2, <1>3, <1>4, <1>5, <1>6, <1>7, <1>8, <1>9, <1>10, <1>11 DEF Next

LEMMA HoldInvHolds == Spec => []HoldInv
<1>1. QED
  BY InitHoldInv, StepHoldInv, PTL DEF Spec

(* Whatever is asked twice, buffered, held for an offline or busy member,  *)
(* flushed by whom and swept when: a delivery is sent to a target no more  *)
(* often than the endpoint names it, unless the process ended in the       *)
(* middle of dispatching it or its receipt was retired before the          *)
(* provider's key came again. No endpoint is assumed to name its targets   *)
(* once each.                                                              *)
THEOREM SentOncePerTarget == Spec => []OncePerTarget
<1>1. HoldInv => OncePerTarget
  <2>1. SUFFICES ASSUME HoldInv, NEW d \in Receipts, NEW t \in Members \cup Channels, Plain(d)
                 PROVE  Cardinality(SentTo(d, t)) <= Cardinality(Mentions(t))
    BY DEF OncePerTarget, Plain
  <2>2. TypeOK /\ IsFiniteSet(queue) /\ Room(d, t)
    BY <2>1 DEF HoldInv, IInv, Once, OnceFor
  <2>3. /\ Cardinality(SentTo(d, t)) \in Nat /\ Cardinality(Waiting(d, t)) \in Nat
        /\ Cardinality(Left(todo, d, t)) \in Nat /\ Cardinality(Mentions(t)) \in Nat
    BY <2>2, Counted, FS_CardinalityType
  <2>4. QED
    BY <2>2, <2>3 DEF Room
<1>2. QED
  BY <1>1, HoldInvHolds, PTL

(* A receipt that says `pending` when no handler runs is in the buffer or  *)
(* marked for recover, in the queue, or in the ledger's hands, unless the  *)
(* process ended while it was handled or its endpoint was deleted.         *)
THEOREM PendingStaysHeld == Spec => []PendingIsHeld
<1>1. HoldInv => PendingIsHeld
  <2>1. SUFFICES ASSUME HoldInv, todo = <<>>, NEW d \in Receipts, row[d].st = "pending", ~MayBeLost(d)
                 PROVE  Held(d)
    BY DEF PendingIsHeld, MayBeLost
  <2>2. Covered(d)
    BY <2>1 DEF HoldInv, Holding
  <2>3. ~SettlesIn(todo, d)
    BY <2>1, PlanEmpty
  <2>4. (\E k \in row[d].msgs : Owed(k)) => Awaits(d, "open") \/ Awaits(d, "unreported")
    BY DEF Owed, Awaits
  <2>5. QED
    BY <2>1, <2>2, <2>3, <2>4 DEF Covered, Held
<1>2. QED
  BY <1>1, HoldInvHolds, PTL
=============================================================================
