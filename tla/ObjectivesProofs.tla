---------------------------- MODULE ObjectivesProofs ----------------------------
(***************************************************************************)
(* Proofs about Objectives, for any members and permissions, any number of *)
(* requests and of ends of the process: an objective that is over stays    *)
(* so, who hands one over keeps its thread, who completes one holds it or  *)
(* held it, what is not told is explained, the log explains the row, the   *)
(* last event about a member reaches that member, and the runner's copy is *)
(* right once nothing is on its way.                                       *)
(***************************************************************************)
EXTENDS Objectives, SequenceTheorems, TLAPS

-----------------------------------------------------------------------------
(* What a call of the store, or several one after the other, may make of   *)
(* an objective. Each part is closed under composition.                    *)

InThread(o, m) == m \in {o.assignee, o.originator} \cup o.watchers
Removes(e, m) == e.kind = "watcher_removed" /\ e.who = m
TakesFrom(e, m) == e.kind = "reassigned" /\ e.from = m

Sound(o) == o \in Row /\ o.status # "none" /\ {o.assignee, o.originator} \subseteq Members

Typed(res) == Sound(res.row) /\ res.facts \in Seq(Event)

ThreadKept(o, res) ==
    \A m \in Someone : InThread(o, m) =>
        InThread(res.row, m) \/ \E j \in 1 .. Len(res.facts) : Removes(res.facts[j], m)

HandoversKept(res) ==
    \A i \in 1 .. Len(res.facts), m \in Someone : TakesFrom(res.facts[i], m) =>
        \/ InThread(res.row, m)
        \/ \E j \in i + 1 .. Len(res.facts) : Removes(res.facts[j], m)

HolderLogged(o, res) ==
    res.row.assignee # o.assignee =>
        \E j \in 1 .. Len(res.facts) : TakesFrom(res.facts[j], o.assignee)

FinalKept(o, res) ==
    Terminal(o) =>
        /\ res.row.status = o.status /\ res.row.assignee = o.assignee
        /\ \A i \in 1 .. Len(res.facts) :
             res.facts[i].kind \in {"watcher_added", "watcher_removed"}

EndLogged(o, res) ==
    Terminal(res.row) =>
        Terminal(o) \/ \E j \in 1 .. Len(res.facts) :
                          res.facts[j].kind \in {"completed", "cancelled"}

CompletionLogged(o, res) ==
    \A i \in 1 .. Len(res.facts) : res.facts[i].kind = "completed" =>
        ~Terminal(o) /\ res.row.status = "done"

(* What follows from the events of a log: when one of On is behind it and  *)
(* none of Off after that, or the row was in S and none of Off came, the   *)
(* row is in S.                                                            *)
Follows(fs, On, Off, S, o, p) ==
    /\ \A i \in 1 .. Len(fs) :
         fs[i] \in On /\ (\A j \in i + 1 .. Len(fs) : fs[j] \notin Off) => p \in S
    /\ o \in S /\ (\A j \in 1 .. Len(fs) : fs[j] \notin Off) => p \in S

Gives(m) == {e \in Event : e.kind \in {"assigned", "reassigned"} /\ e.who = m}
Takes(m) == {e \in Event : TakesFrom(e, m)}
Adds(m) == {e \in Event : \/ e.kind = "watcher_added" /\ e.who = m
                          \/ e.kind = "assigned" /\ m \in e.also}
Drops(m) == {e \in Event : Removes(e, m)}
Sets(s) == {e \in Event : e.kind \in StatusKinds /\ StatusAfter(e.kind) = s}
Resets(s) == {e \in Event : e.kind \in StatusKinds /\ StatusAfter(e.kind) # s}

HeldBy(m) == {o \in Row : o.assignee = m}
WatchedBy(m) == {o \in Row : m \in o.watchers}
UnwatchedBy(m) == {o \in Row : m \notin o.watchers}
Standing(s) == {o \in Row : o.status = s}

(* The events tell the whole difference between two rows.                  *)
Story(o, res) ==
    /\ \A m \in Members :
         /\ Follows(res.facts, Gives(m), Takes(m), HeldBy(m), o, res.row)
         /\ Follows(res.facts, Adds(m), Drops(m), WatchedBy(m), o, res.row)
         /\ Follows(res.facts, Drops(m), Adds(m), UnwatchedBy(m), o, res.row)
    /\ \A s \in Statuses :
         Follows(res.facts, Sets(s), Resets(s), Standing(s), o, res.row)

(* Whom an event of each kind names; it is told nobody yet.                *)
Plain(e) ==
    /\ e.who # Nobody <=>
         e.kind \in {"assigned", "reassigned", "watcher_added", "watcher_removed"}
    /\ e.from # Nobody => e.kind = "reassigned"
    /\ e.also # {} => e.kind = "assigned"

Fresh(res) ==
    \A i \in 1 .. Len(res.facts) : Plain(res.facts[i]) /\ res.facts[i].told = {}

Change(o, res) ==
    /\ Typed(res) /\ Story(o, res) /\ Fresh(res)
    /\ ThreadKept(o, res) /\ HandoversKept(res) /\ HolderLogged(o, res)
    /\ FinalKept(o, res) /\ EndLogged(o, res) /\ CompletionLogged(o, res)

Then(a, b) == [row |-> b.row, facts |-> a.facts \o b.facts]

-----------------------------------------------------------------------------
(* Sequences.                                                              *)

LEMMA Cat ==
    ASSUME NEW s \in Seq(Event), NEW t \in Seq(Event)
    PROVE  /\ s \o t \in Seq(Event)
           /\ Len(s) \in Nat /\ Len(t) \in Nat /\ Len(s \o t) = Len(s) + Len(t)
           /\ \A i \in 1 .. Len(s) : i \in 1 .. Len(s \o t) /\ (s \o t)[i] = s[i]
           /\ \A j \in 1 .. Len(t) :
                Len(s) + j \in Len(s) + 1 .. Len(s \o t) /\ (s \o t)[Len(s) + j] = t[j]
           /\ \A i \in 1 .. Len(s \o t) :
                i \in 1 .. Len(s) \/ \E j \in 1 .. Len(t) : i = Len(s) + j
<1>1. Len(s) \in Nat /\ Len(t) \in Nat
  BY LenProperties
<1>2. /\ s \o t \in Seq(Event) /\ Len(s \o t) = Len(s) + Len(t)
      /\ \A i \in 1 .. Len(s) + Len(t) :
           (s \o t)[i] = IF i <= Len(s) THEN s[i] ELSE t[i - Len(s)]
  BY ConcatProperties
<1>3. ASSUME NEW i \in 1 .. Len(s)
      PROVE  i \in 1 .. Len(s \o t) /\ (s \o t)[i] = s[i]
  BY <1>1, <1>2
<1>4. ASSUME NEW j \in 1 .. Len(t)
      PROVE  Len(s) + j \in Len(s) + 1 .. Len(s \o t) /\ (s \o t)[Len(s) + j] = t[j]
  <2>1. Len(s) + j \in 1 .. Len(s) + Len(t) /\ ~(Len(s) + j <= Len(s))
        /\ Len(s) + j - Len(s) = j
    BY <1>1
  <2>2. QED
    BY <1>1, <1>2, <2>1
<1>5. ASSUME NEW i \in 1 .. Len(s \o t)
      PROVE  i \in 1 .. Len(s) \/ \E j \in 1 .. Len(t) : i = Len(s) + j
  <2>1. CASE i <= Len(s)
    BY <2>1
  <2>2. CASE ~(i <= Len(s))
    <3>1. i - Len(s) \in 1 .. Len(t) /\ i = Len(s) + (i - Len(s))
      BY <1>1, <1>2, <2>2
    <3>2. QED
      BY <3>1
  <2>3. QED
    BY <2>1, <2>2
<1>6. QED
  BY <1>1, <1>2, <1>3, <1>4, <1>5

LEMMA SingleFact ==
    ASSUME NEW e \in Event
    PROVE  /\ <<e>> \in Seq(Event) /\ Len(<<e>>) = 1 /\ <<e>>[1] = e
           /\ 1 .. Len(<<e>>) = {1}
OBVIOUS

LEMMA NoFacts == <<>> \in Seq(Event) /\ Len(<<>>) = 0 /\ 1 .. Len(<<>>) = {}
OBVIOUS

LEMMA PairOfFacts ==
    ASSUME NEW e \in Event, NEW f \in Event
    PROVE  <<e>> \o <<f>> = <<e, f>>
<1> DEFINE s == <<e>> \o <<f>>
<1>1. s \in Seq(Event) /\ Len(s) = 2 /\ s[1] = e /\ s[2] = f
  OBVIOUS
<1>2. /\ <<e, f>> \in Seq(Event) /\ Len(<<e, f>>) = 2
      /\ <<e, f>>[1] = e /\ <<e, f>>[2] = f
  OBVIOUS
<1> HIDE DEF s
<1>3. \A i \in 1 .. 2 : s[i] = <<e, f>>[i]
  BY <1>1, <1>2
<1>4. s = <<e, f>>
  BY <1>1, <1>2, <1>3, SeqEqual
<1>5. QED
  BY <1>4 DEF s

LEMMA FollowsOn ==
    ASSUME NEW f \in Seq(Event), NEW g \in Seq(Event), NEW On, NEW Off, NEW S,
           NEW o, NEW p, NEW q,
           Follows(f, On, Off, S, o, p), Follows(g, On, Off, S, p, q)
    PROVE  Follows(f \o g, On, Off, S, o, q)
<1> DEFINE h == f \o g
<1>1. /\ Len(f) \in Nat /\ Len(g) \in Nat /\ Len(h) = Len(f) + Len(g)
      /\ \A i \in 1 .. Len(f) : i \in 1 .. Len(h) /\ h[i] = f[i]
      /\ \A j \in 1 .. Len(g) :
           Len(f) + j \in Len(f) + 1 .. Len(h) /\ h[Len(f) + j] = g[j]
      /\ \A i \in 1 .. Len(h) :
           i \in 1 .. Len(f) \/ \E j \in 1 .. Len(g) : i = Len(f) + j
  BY Cat, Zenon
<1> HIDE DEF h
<1>2. ASSUME p \in S, \A j \in Len(f) + 1 .. Len(h) : h[j] \notin Off
      PROVE  q \in S
  <2>1. \A j \in 1 .. Len(g) : g[j] \notin Off
    BY <1>1, <1>2
  <2>2. QED
    BY <1>2, <2>1 DEF Follows
<1>3. ASSUME NEW i \in 1 .. Len(h), h[i] \in On,
             \A j \in i + 1 .. Len(h) : h[j] \notin Off
      PROVE  q \in S
  <2>1. CASE i \in 1 .. Len(f)
    <3>1. \A j \in i + 1 .. Len(f) : j \in i + 1 .. Len(h) /\ j \in 1 .. Len(f)
      BY <1>1, <2>1
    <3>2. h[i] = f[i] /\ \A j \in i + 1 .. Len(f) : f[j] \notin Off
      BY <1>1, <1>3, <2>1, <3>1
    <3>3. p \in S
      BY <1>3, <2>1, <3>2 DEF Follows
    <3>4. \A j \in Len(f) + 1 .. Len(h) : j \in i + 1 .. Len(h)
      BY <1>1, <2>1
    <3>5. QED
      BY <1>2, <1>3, <3>3, <3>4
  <2>2. CASE \E k \in 1 .. Len(g) : i = Len(f) + k
    <3>1. PICK k \in 1 .. Len(g) : i = Len(f) + k
      BY <2>2
    <3>2. h[i] = g[k]
      BY <1>1, <3>1
    <3>3. \A j \in k + 1 .. Len(g) :
            j \in 1 .. Len(g) /\ Len(f) + j \in i + 1 .. Len(h)
      BY <1>1, <3>1
    <3>4. \A j \in k + 1 .. Len(g) : g[j] \notin Off
      BY <1>1, <1>3, <3>3
    <3>5. QED
      BY <1>3, <3>2, <3>4 DEF Follows
  <2>3. QED
    BY <1>1, <2>1, <2>2
<1>4. ASSUME o \in S, \A j \in 1 .. Len(h) : h[j] \notin Off
      PROVE  q \in S
  <2>1. \A j \in 1 .. Len(f) : f[j] \notin Off
    BY <1>1, <1>4
  <2>2. p \in S
    BY <1>4, <2>1 DEF Follows
  <2>3. \A j \in Len(f) + 1 .. Len(h) : j \in 1 .. Len(h)
    BY <1>1
  <2>4. QED
    BY <1>2, <1>4, <2>2, <2>3
<1>5. Follows(h, On, Off, S, o, q)
  BY <1>3, <1>4 DEF Follows
<1>6. QED
  BY <1>5 DEF h

LEMMA FollowsNone ==
    ASSUME NEW On, NEW Off, NEW S, NEW o, NEW p, o \in S => p \in S
    PROVE  Follows(<<>>, On, Off, S, o, p)
BY NoFacts DEF Follows

LEMMA FollowsOne ==
    ASSUME NEW e \in Event, NEW On, NEW Off, NEW S, NEW o, NEW p,
           e \in On => p \in S, o \in S /\ e \notin Off => p \in S
    PROVE  Follows(<<e>>, On, Off, S, o, p)
BY SingleFact DEF Follows

LEMMA StoryOn ==
    ASSUME NEW o, NEW a, NEW b, a.facts \in Seq(Event), b.facts \in Seq(Event),
           Story(o, a), Story(a.row, b)
    PROVE  Story(o, Then(a, b))
<1>1. Then(a, b).row = b.row /\ Then(a, b).facts = a.facts \o b.facts
  BY DEF Then
<1>2. ASSUME NEW m \in Members
      PROVE  /\ Follows(a.facts \o b.facts, Gives(m), Takes(m), HeldBy(m), o, b.row)
             /\ Follows(a.facts \o b.facts, Adds(m), Drops(m), WatchedBy(m), o, b.row)
             /\ Follows(a.facts \o b.facts, Drops(m), Adds(m), UnwatchedBy(m), o, b.row)
  BY FollowsOn, Zenon DEF Story
<1>3. ASSUME NEW s \in Statuses
      PROVE  Follows(a.facts \o b.facts, Sets(s), Resets(s), Standing(s), o, b.row)
  BY FollowsOn, Zenon DEF Story
<1>4. QED
  BY <1>1, <1>2, <1>3, Zenon DEF Story

LEMMA Compose ==
    ASSUME NEW o \in Row, NEW a, NEW b, Change(o, a), Change(a.row, b)
    PROVE  Change(o, Then(a, b))
<1> DEFINE c == Then(a, b)
<1> HIDE DEF c
<1>1. /\ a.facts \in Seq(Event) /\ b.facts \in Seq(Event)
      /\ c.row = b.row /\ c.facts = a.facts \o b.facts
  BY DEF c, Change, Typed, Then
<1>2. /\ Len(a.facts) \in Nat /\ Len(b.facts) \in Nat
      /\ c.facts \in Seq(Event) /\ Len(c.facts) \in Nat
      /\ \A i \in 1 .. Len(a.facts) : i \in 1 .. Len(c.facts) /\ c.facts[i] = a.facts[i]
      /\ \A j \in 1 .. Len(b.facts) :
           /\ Len(a.facts) + j \in Len(a.facts) + 1 .. Len(c.facts)
           /\ c.facts[Len(a.facts) + j] = b.facts[j]
      /\ \A i \in 1 .. Len(c.facts) :
           i \in 1 .. Len(a.facts) \/ \E j \in 1 .. Len(b.facts) : i = Len(a.facts) + j
  <2> DEFINE s == a.facts \o b.facts
  <2>1. /\ Len(a.facts) \in Nat /\ Len(b.facts) \in Nat
        /\ s \in Seq(Event) /\ Len(s) = Len(a.facts) + Len(b.facts)
        /\ \A i \in 1 .. Len(a.facts) : i \in 1 .. Len(s) /\ s[i] = a.facts[i]
        /\ \A j \in 1 .. Len(b.facts) :
             /\ Len(a.facts) + j \in Len(a.facts) + 1 .. Len(s)
             /\ s[Len(a.facts) + j] = b.facts[j]
        /\ \A i \in 1 .. Len(s) :
             i \in 1 .. Len(a.facts) \/ \E j \in 1 .. Len(b.facts) : i = Len(a.facts) + j
    BY <1>1, Cat, Zenon
  <2> HIDE DEF s
  <2>2. Len(s) \in Nat
    BY <2>1, LenProperties
  <2>3. c.facts = s
    BY <1>1 DEF s
  <2>4. QED
    BY <2>1, <2>2, <2>3, Zenon
<1>0. Len(c.facts) = Len(a.facts) + Len(b.facts)
  BY <1>1, Cat
<1>3. \A j \in 1 .. Len(b.facts) : Len(a.facts) + j \in 1 .. Len(c.facts)
  BY <1>2
<1>4. Typed(c)
  BY <1>1, <1>2 DEF Change, Typed
<1>5. ThreadKept(o, c)
  BY <1>1, <1>2, <1>3 DEF Change, ThreadKept
<1>6. HandoversKept(c)
  <2> SUFFICES ASSUME NEW i \in 1 .. Len(c.facts), NEW m \in Someone, TakesFrom(c.facts[i], m)
               PROVE  \/ InThread(b.row, m)
                      \/ \E j \in i + 1 .. Len(c.facts) : Removes(c.facts[j], m)
    BY <1>1 DEF HandoversKept
  <2>1. CASE i \in 1 .. Len(a.facts)
    <3>1. InThread(a.row, m) \/ \E j \in i + 1 .. Len(a.facts) : Removes(a.facts[j], m)
      BY <1>2, <2>1 DEF Change, HandoversKept
    <3>2. CASE InThread(a.row, m)
      <4>1. InThread(b.row, m) \/ \E j \in 1 .. Len(b.facts) : Removes(b.facts[j], m)
        BY <3>2 DEF Change, ThreadKept
      <4>2. \A j \in 1 .. Len(b.facts) : Len(a.facts) + j \in i + 1 .. Len(c.facts)
        BY <1>2, <2>1
      <4>3. QED
        BY <1>2, <4>1, <4>2
    <3>3. CASE \E j \in i + 1 .. Len(a.facts) : Removes(a.facts[j], m)
      <4>1. PICK j \in i + 1 .. Len(a.facts) : Removes(a.facts[j], m)
        BY <3>3
      <4>2. j \in 1 .. Len(a.facts)
        BY <1>2, <2>1
      <4>3. j \in i + 1 .. Len(c.facts) /\ c.facts[j] = a.facts[j]
        BY <1>2, <2>1, <4>2
      <4>4. QED
        BY <4>1, <4>3
    <3>4. QED
      BY <3>1, <3>2, <3>3
  <2>2. CASE \E k \in 1 .. Len(b.facts) : i = Len(a.facts) + k
    <3>1. PICK k \in 1 .. Len(b.facts) : i = Len(a.facts) + k
      BY <2>2
    <3>2. InThread(b.row, m) \/ \E j \in k + 1 .. Len(b.facts) : Removes(b.facts[j], m)
      BY <1>2, <3>1 DEF Change, HandoversKept
    <3>3. \A j \in k + 1 .. Len(b.facts) :
            j \in 1 .. Len(b.facts) /\ Len(a.facts) + j \in i + 1 .. Len(c.facts)
      <4>1. Len(a.facts) \in Nat /\ Len(b.facts) \in Nat
        BY <1>2
      <4>2. k \in Nat /\ k >= 1
        BY <3>1
      <4>3. \A j \in k + 1 .. Len(b.facts) :
              j \in 1 .. Len(b.facts) /\ Len(a.facts) + j >= Len(a.facts) + k + 1
        BY <4>1, <4>2
      <4>4. \A x \in Len(a.facts) + 1 .. Len(c.facts) :
              x >= Len(a.facts) + k + 1 => x \in i + 1 .. Len(c.facts)
        BY <3>1, <4>1, <4>2
      <4>5. \A j \in 1 .. Len(b.facts) :
              Len(a.facts) + j \in Len(a.facts) + 1 .. Len(c.facts)
        BY <1>2
      <4>6. QED
        BY <4>3, <4>4, <4>5, Zenon
    <3>4. QED
      BY <1>2, <3>2, <3>3
  <2>3. QED
    BY <1>2, <2>1, <2>2
<1>7. HolderLogged(o, c)
  <2>1. CASE a.row.assignee # o.assignee
    <3>1. PICK j \in 1 .. Len(a.facts) : TakesFrom(a.facts[j], o.assignee)
      BY <2>1 DEF Change, HolderLogged
    <3>2. j \in 1 .. Len(c.facts) /\ TakesFrom(c.facts[j], o.assignee)
      BY <1>2, <3>1, Zenon
    <3>3. QED
      BY <3>2 DEF HolderLogged
  <2>2. CASE a.row.assignee = o.assignee /\ b.row.assignee # o.assignee
    <3>1. PICK j \in 1 .. Len(b.facts) : TakesFrom(b.facts[j], o.assignee)
      BY <2>2 DEF Change, HolderLogged
    <3>2. Len(a.facts) + j \in 1 .. Len(c.facts)
          /\ TakesFrom(c.facts[Len(a.facts) + j], o.assignee)
      BY <1>2, <1>3, <3>1, Zenon
    <3>3. QED
      BY <3>2 DEF HolderLogged
  <2>3. CASE b.row.assignee = o.assignee
    BY <1>1, <2>3 DEF HolderLogged
  <2>4. QED
    BY <2>1, <2>2, <2>3
<1>8. FinalKept(o, c)
  <2> SUFFICES ASSUME Terminal(o)
               PROVE  /\ b.row.status = o.status /\ b.row.assignee = o.assignee
                      /\ \A i \in 1 .. Len(c.facts) :
                           c.facts[i].kind \in {"watcher_added", "watcher_removed"}
    BY <1>1 DEF FinalKept
  <2>1. Terminal(a.row) /\ a.row.status = o.status /\ a.row.assignee = o.assignee
    BY DEF Change, FinalKept, Terminal
  <2>2. QED
    BY <1>2, <2>1 DEF Change, FinalKept
<1>9. EndLogged(o, c)
  BY <1>1, <1>2, <1>3 DEF Change, EndLogged
<1>10. CompletionLogged(o, c)
  <2> SUFFICES ASSUME NEW i \in 1 .. Len(c.facts), c.facts[i].kind = "completed"
               PROVE  ~Terminal(o) /\ b.row.status = "done"
    BY <1>1 DEF CompletionLogged
  <2>1. CASE i \in 1 .. Len(a.facts)
    <3>1. ~Terminal(o) /\ a.row.status = "done"
      BY <1>2, <2>1 DEF Change, CompletionLogged
    <3>2. QED
      BY <3>1 DEF Change, FinalKept, Terminal, Final
  <2>2. CASE \E j \in 1 .. Len(b.facts) : i = Len(a.facts) + j
    <3>1. ~Terminal(a.row) /\ b.row.status = "done"
      BY <1>2, <2>2 DEF Change, CompletionLogged
    <3>2. QED
      BY <3>1 DEF Change, FinalKept, Terminal
  <2>3. QED
    BY <1>2, <2>1, <2>2
<1>11. Story(o, c)
  BY <1>1, StoryOn, Zenon DEF c, Change
<1>12. Fresh(c)
  <2>1. \A i \in 1 .. Len(a.facts) : Plain(c.facts[i]) /\ c.facts[i].told = {}
    BY <1>2 DEF Change, Fresh
  <2>2. \A j \in 1 .. Len(b.facts) : Plain(c.facts[Len(a.facts) + j])
                                   /\ c.facts[Len(a.facts) + j].told = {}
    BY <1>2 DEF Change, Fresh
  <2>3. QED
    BY <1>2, <2>1, <2>2, Zenon DEF Fresh
<1>13. QED
  BY <1>4, <1>5, <1>6, <1>7, <1>8, <1>9, <1>10, <1>11, <1>12 DEF Change, c

-----------------------------------------------------------------------------
(* The stories of single events.                                           *)

LEMMA NoStory ==
    ASSUME NEW o
    PROVE  Story(o, [row |-> o, facts |-> <<>>])
BY FollowsNone, Zenon DEF Story

LEMMA GiveStory ==
    ASSUME NEW o \in Row, NEW to \in Members, NEW from \in Members, NEW actor \in Members,
           o.assignee = from
    PROVE  Story(o, [row |-> [o EXCEPT !.assignee = to],
                     facts |-> <<Fact("reassigned", actor, to, from, {})>>])
<1> DEFINE e == Fact("reassigned", actor, to, from, {})
           p == [o EXCEPT !.assignee = to]
<1>1. /\ e \in Event /\ e.kind = "reassigned" /\ e.who = to /\ e.from = from
  BY DEF Fact, Event, Kinds, Someone
<1>2. /\ p \in Row /\ p.assignee = to /\ p.watchers = o.watchers /\ p.status = o.status
  BY DEF Row, Someone
<1> HIDE DEF e, p
<1>3. ASSUME NEW m \in Members
      PROVE  /\ Follows(<<e>>, Gives(m), Takes(m), HeldBy(m), o, p)
             /\ Follows(<<e>>, Adds(m), Drops(m), WatchedBy(m), o, p)
             /\ Follows(<<e>>, Drops(m), Adds(m), UnwatchedBy(m), o, p)
  <2>1. e \in Gives(m) => p \in HeldBy(m)
    BY <1>1, <1>2 DEF Gives, HeldBy
  <2>2. o \in HeldBy(m) /\ e \notin Takes(m) => p \in HeldBy(m)
    BY <1>1, <1>2 DEF Takes, TakesFrom, HeldBy
  <2>3. e \notin Adds(m) /\ e \notin Drops(m)
    BY <1>1 DEF Adds, Drops, Removes
  <2>4. (o \in WatchedBy(m) => p \in WatchedBy(m))
        /\ (o \in UnwatchedBy(m) => p \in UnwatchedBy(m))
    BY <1>2 DEF WatchedBy, UnwatchedBy
  <2>5. QED
    BY <1>1, <2>1, <2>2, <2>3, <2>4, FollowsOne, Zenon
<1>4. ASSUME NEW s \in Statuses
      PROVE  Follows(<<e>>, Sets(s), Resets(s), Standing(s), o, p)
  <2>1. e \notin Sets(s) /\ (o \in Standing(s) => p \in Standing(s))
    BY <1>1, <1>2 DEF Sets, StatusKinds, Standing
  <2>2. QED
    BY <1>1, <2>1, FollowsOne, Zenon
<1>5. Story(o, [row |-> p, facts |-> <<e>>])
  BY <1>3, <1>4, Zenon DEF Story
<1>6. QED
  BY <1>5 DEF e, p

LEMMA AddStory ==
    ASSUME NEW o \in Row, NEW who \in Members, NEW actor \in Members
    PROVE  Story(o, [row |-> [o EXCEPT !.watchers = @ \cup {who}],
                     facts |-> <<Fact("watcher_added", actor, who, Nobody, {})>>])
<1> DEFINE e == Fact("watcher_added", actor, who, Nobody, {})
           p == [o EXCEPT !.watchers = @ \cup {who}]
<1>1. /\ e \in Event /\ e.kind = "watcher_added" /\ e.who = who
  BY DEF Fact, Event, Kinds, Someone
<1>2. /\ p \in Row /\ p.assignee = o.assignee /\ p.watchers = o.watchers \cup {who}
      /\ p.status = o.status
  BY DEF Row
<1> HIDE DEF e, p
<1>3. ASSUME NEW m \in Members
      PROVE  /\ Follows(<<e>>, Gives(m), Takes(m), HeldBy(m), o, p)
             /\ Follows(<<e>>, Adds(m), Drops(m), WatchedBy(m), o, p)
             /\ Follows(<<e>>, Drops(m), Adds(m), UnwatchedBy(m), o, p)
  <2>1. e \notin Gives(m) /\ (o \in HeldBy(m) => p \in HeldBy(m))
    BY <1>1, <1>2 DEF Gives, HeldBy
  <2>2. e \notin Drops(m)
    BY <1>1 DEF Drops, Removes
  <2>3. (e \in Adds(m) => p \in WatchedBy(m)) /\ (o \in WatchedBy(m) => p \in WatchedBy(m))
    BY <1>1, <1>2 DEF Adds, WatchedBy
  <2>4. o \in UnwatchedBy(m) /\ e \notin Adds(m) => p \in UnwatchedBy(m)
    BY <1>1, <1>2 DEF Adds, UnwatchedBy
  <2>5. QED
    BY <1>1, <2>1, <2>2, <2>3, <2>4, FollowsOne, Zenon
<1>4. ASSUME NEW s \in Statuses
      PROVE  Follows(<<e>>, Sets(s), Resets(s), Standing(s), o, p)
  <2>1. e \notin Sets(s) /\ (o \in Standing(s) => p \in Standing(s))
    BY <1>1, <1>2 DEF Sets, StatusKinds, Standing
  <2>2. QED
    BY <1>1, <2>1, FollowsOne, Zenon
<1>5. Story(o, [row |-> p, facts |-> <<e>>])
  BY <1>3, <1>4, Zenon DEF Story
<1>6. QED
  BY <1>5 DEF e, p

LEMMA DropStory ==
    ASSUME NEW o \in Row, NEW who \in Members, NEW actor \in Members
    PROVE  Story(o, [row |-> [o EXCEPT !.watchers = @ \ {who}],
                     facts |-> <<Fact("watcher_removed", actor, who, Nobody, {})>>])
<1> DEFINE e == Fact("watcher_removed", actor, who, Nobody, {})
           p == [o EXCEPT !.watchers = @ \ {who}]
<1>1. /\ e \in Event /\ e.kind = "watcher_removed" /\ e.who = who
  BY DEF Fact, Event, Kinds, Someone
<1>2. /\ p \in Row /\ p.assignee = o.assignee /\ p.watchers = o.watchers \ {who}
      /\ p.status = o.status
  BY DEF Row
<1> HIDE DEF e, p
<1>3. ASSUME NEW m \in Members
      PROVE  /\ Follows(<<e>>, Gives(m), Takes(m), HeldBy(m), o, p)
             /\ Follows(<<e>>, Adds(m), Drops(m), WatchedBy(m), o, p)
             /\ Follows(<<e>>, Drops(m), Adds(m), UnwatchedBy(m), o, p)
  <2>1. e \notin Gives(m) /\ (o \in HeldBy(m) => p \in HeldBy(m))
    BY <1>1, <1>2 DEF Gives, HeldBy
  <2>2. e \notin Adds(m)
    BY <1>1 DEF Adds
  <2>3. (e \in Drops(m) => p \in UnwatchedBy(m))
        /\ (o \in UnwatchedBy(m) => p \in UnwatchedBy(m))
    BY <1>1, <1>2 DEF Drops, Removes, UnwatchedBy
  <2>4. o \in WatchedBy(m) /\ e \notin Drops(m) => p \in WatchedBy(m)
    BY <1>1, <1>2 DEF Drops, Removes, WatchedBy
  <2>5. QED
    BY <1>1, <2>1, <2>2, <2>3, <2>4, FollowsOne, Zenon
<1>4. ASSUME NEW s \in Statuses
      PROVE  Follows(<<e>>, Sets(s), Resets(s), Standing(s), o, p)
  <2>1. e \notin Sets(s) /\ (o \in Standing(s) => p \in Standing(s))
    BY <1>1, <1>2 DEF Sets, StatusKinds, Standing
  <2>2. QED
    BY <1>1, <2>1, FollowsOne, Zenon
<1>5. Story(o, [row |-> p, facts |-> <<e>>])
  BY <1>3, <1>4, Zenon DEF Story
<1>6. QED
  BY <1>5 DEF e, p

LEMMA StatusStory ==
    ASSUME NEW o \in Row, NEW kind \in StatusKinds \ {"assigned"}, NEW actor \in Members
    PROVE  Story(o, [row |-> [o EXCEPT !.status = StatusAfter(kind)],
                     facts |-> <<Fact(kind, actor, Nobody, Nobody, {})>>])
<1> DEFINE e == Fact(kind, actor, Nobody, Nobody, {})
           status == StatusAfter(kind)
           p == [o EXCEPT !.status = status]
<1>1. status \in Statuses
  BY DEF StatusKinds, StatusAfter, Statuses, Final
<1> HIDE DEF status
<1>2. kind \in Kinds /\ kind \notin {"assigned", "reassigned", "watcher_added", "watcher_removed"}
  BY DEF StatusKinds, Kinds
<1>3. /\ e \in Event /\ e.kind = kind
  BY <1>2 DEF Fact, Event, Someone
<1>4. /\ p \in Row /\ p.assignee = o.assignee /\ p.watchers = o.watchers
      /\ p.status = status
  BY <1>1 DEF Row
<1> HIDE DEF e, p
<1>5. ASSUME NEW m \in Members
      PROVE  /\ Follows(<<e>>, Gives(m), Takes(m), HeldBy(m), o, p)
             /\ Follows(<<e>>, Adds(m), Drops(m), WatchedBy(m), o, p)
             /\ Follows(<<e>>, Drops(m), Adds(m), UnwatchedBy(m), o, p)
  <2>1. e \notin Gives(m) /\ e \notin Adds(m) /\ e \notin Drops(m)
    BY <1>2, <1>3 DEF Gives, Adds, Drops, Removes
  <2>2. /\ o \in HeldBy(m) => p \in HeldBy(m)
        /\ o \in WatchedBy(m) => p \in WatchedBy(m)
        /\ o \in UnwatchedBy(m) => p \in UnwatchedBy(m)
    BY <1>4 DEF HeldBy, WatchedBy, UnwatchedBy
  <2>3. QED
    BY <1>3, <2>1, <2>2, FollowsOne, Zenon
<1>6. ASSUME NEW s \in Statuses
      PROVE  Follows(<<e>>, Sets(s), Resets(s), Standing(s), o, p)
  <2>1. e \in Sets(s) => p \in Standing(s)
    BY <1>3, <1>4 DEF Sets, Standing, status
  <2>2. e \in Sets(s) \/ e \in Resets(s)
    BY <1>3 DEF Sets, Resets
  <2>3. QED
    BY <1>3, <2>1, <2>2, FollowsOne, Zenon
<1>7. Story(o, [row |-> p, facts |-> <<e>>])
  BY <1>5, <1>6, Zenon DEF Story
<1>8. QED
  BY <1>7 DEF e, p, status

(* An event as the store makes it.                                         *)
LEMMA PlainFact ==
    ASSUME NEW kind, NEW actor, NEW who, NEW from, NEW also,
           who # Nobody <=>
             kind \in {"assigned", "reassigned", "watcher_added", "watcher_removed"},
           from # Nobody => kind = "reassigned",
           also # {} => kind = "assigned"
    PROVE  /\ Plain(Fact(kind, actor, who, from, also))
           /\ Fact(kind, actor, who, from, also).told = {}
BY DEF Plain, Fact

-----------------------------------------------------------------------------
(* Each call of the store is such a change.                                *)

LEMMA NothingChanges ==
    ASSUME NEW o, Sound(o)
    PROVE  Change(o, Nothing(o))
<1>1. Nothing(o).row = o /\ Nothing(o).facts = <<>>
  BY DEF Nothing
<1>2. 1 .. Len(Nothing(o).facts) = {} /\ Nothing(o).facts \in Seq(Event)
  BY <1>1, NoFacts
<1>3. Typed(Nothing(o)) /\ ThreadKept(o, Nothing(o)) /\ HandoversKept(Nothing(o))
  BY <1>1, <1>2 DEF Typed, ThreadKept, HandoversKept
<1>4. HolderLogged(o, Nothing(o)) /\ FinalKept(o, Nothing(o)) /\ EndLogged(o, Nothing(o))
      /\ CompletionLogged(o, Nothing(o))
  BY <1>1, <1>2 DEF HolderLogged, FinalKept, EndLogged, CompletionLogged
<1>5. Story(o, Nothing(o)) /\ Fresh(Nothing(o))
  BY <1>1, <1>2, NoStory DEF Nothing, Fresh
<1>6. QED
  BY <1>3, <1>4, <1>5 DEF Change

LEMMA ReassignedChanges ==
    ASSUME NEW o, Sound(o), ~Terminal(o), NEW to \in Members, NEW actor \in Members
    PROVE  Change(o, Reassigned(o, to, actor))
<1> DEFINE res == Reassigned(o, to, actor)
           e == Fact("reassigned", actor, to, o.assignee, {})
           f == Fact("watcher_added", actor, o.assignee, Nobody, {})
<1>1. /\ o \in Row /\ o.assignee \in Members /\ o.originator \in Members
      /\ o.watchers \in SUBSET Members /\ o.status \in Statuses \ {"none"}
  BY DEF Sound, Row
<1>2. /\ e \in Event /\ e.kind = "reassigned" /\ e.from = o.assignee
      /\ f \in Event /\ f.kind = "watcher_added"
  <2>1. /\ "reassigned" \in Kinds /\ "watcher_added" \in Kinds /\ {} \in SUBSET Members
        /\ to \in Someone /\ o.assignee \in Someone /\ Nobody \in Someone
    BY <1>1 DEF Kinds, Someone
  <2>2. QED
    BY <2>1 DEF Fact, Event
<1>3. /\ res.row.status = o.status /\ res.row.assignee = to
      /\ res.row.originator = o.originator
      /\ res.row.watchers = IF Promoted(o) THEN o.watchers \cup {o.assignee} ELSE o.watchers
      /\ res.row \in Row
  BY <1>1 DEF Reassigned, Row, Someone
<1>4. res.facts = <<e, f>> \/ res.facts = <<e>>
  BY DEF Reassigned
<1>12. Story(o, res)
  <2> DEFINE p == [o EXCEPT !.assignee = to]
             q == [p EXCEPT !.watchers = @ \cup {o.assignee}]
             a == [row |-> p, facts |-> <<e>>]
             b == [row |-> q, facts |-> <<f>>]
  <2>1. p \in Row /\ q = [o EXCEPT !.assignee = to, !.watchers = @ \cup {o.assignee}]
    BY <1>1 DEF Row, Someone
  <2>2. Story(o, a)
    BY <1>1, GiveStory
  <2>3. Story(p, b)
    BY <1>1, <2>1, AddStory
  <2>4. CASE Promoted(o)
    <3>1. res = [row |-> q, facts |-> <<e, f>>]
      BY <2>1, <2>4 DEF Reassigned
    <3> HIDE DEF p, q, e, f, res
    <3>2. a.row = p /\ a.facts = <<e>> /\ b.row = q /\ b.facts = <<f>>
      OBVIOUS
    <3>3. <<e>> \in Seq(Event) /\ <<f>> \in Seq(Event)
      BY <1>2
    <3>4. <<e>> \o <<f>> = <<e, f>>
      BY <1>2, PairOfFacts
    <3> HIDE DEF a, b
    <3>5. Story(o, Then(a, b))
      BY <2>2, <2>3, <3>2, <3>3, StoryOn
    <3>6. QED
      BY <3>1, <3>2, <3>4, <3>5 DEF Then
  <2>5. CASE ~Promoted(o)
    BY <2>2, <2>5 DEF Reassigned
  <2>6. QED
    BY <2>4, <2>5
<1>13. Plain(e) /\ e.told = {} /\ Plain(f) /\ f.told = {}
  BY <1>1, PlainFact, ObjectiveConstantsOK
<1> HIDE DEF e, f, res
<1>5. /\ res.facts \in Seq(Event) /\ 1 \in 1 .. Len(res.facts)
      /\ TakesFrom(res.facts[1], o.assignee)
      /\ \A i \in 1 .. Len(res.facts) :
           /\ res.facts[i].kind \in {"reassigned", "watcher_added"}
           /\ TakesFrom(res.facts[i], res.facts[i].from) => res.facts[i].from = o.assignee
  <2>1. CASE res.facts = <<e>>
    BY <1>2, <2>1, SingleFact DEF TakesFrom
  <2>2. CASE res.facts = <<e, f>>
    <3>1. /\ <<e, f>> \in Seq(Event) /\ 1 .. Len(<<e, f>>) = {1, 2}
          /\ <<e, f>>[1] = e /\ <<e, f>>[2] = f
      BY <1>2
    <3>2. QED
      BY <1>2, <2>2, <3>1 DEF TakesFrom
  <2>3. QED
    BY <1>4, <2>1, <2>2
<1>6. InThread(res.row, o.assignee)
      /\ \A m \in Someone : InThread(o, m) => InThread(res.row, m)
  BY <1>1, <1>3 DEF InThread, Promoted
<1>7. Typed(res)
  BY <1>1, <1>3, <1>5 DEF Typed, Sound
<1>8. ThreadKept(o, res) /\ HolderLogged(o, res)
  BY <1>5, <1>6 DEF ThreadKept, HolderLogged
<1>9. HandoversKept(res)
  BY <1>5, <1>6 DEF HandoversKept, TakesFrom
<1>10. FinalKept(o, res) /\ EndLogged(o, res) /\ CompletionLogged(o, res)
  BY <1>3, <1>5 DEF FinalKept, EndLogged, CompletionLogged, Terminal
<1>11. Fresh(res)
  <2>1. /\ 1 .. Len(<<e, f>>) = {1, 2} /\ <<e, f>>[1] = e /\ <<e, f>>[2] = f
    BY <1>2
  <2>2. CASE res.facts = <<e>>
    BY <1>2, <1>13, <2>2, SingleFact DEF Fresh
  <2>3. CASE res.facts = <<e, f>>
    BY <1>13, <2>1, <2>3 DEF Fresh
  <2>4. QED
    BY <1>4, <2>2, <2>3
<1>14. QED
  BY <1>7, <1>8, <1>9, <1>10, <1>11, <1>12 DEF Change, res

LEMMA WatchedChanges ==
    ASSUME NEW o, Sound(o), NEW add \in Someone, NEW remove \in Someone,
           NEW actor \in Members
    PROVE  /\ Change(o, Watched(o, add, remove, actor))
           /\ \A i \in 1 .. Len(Watched(o, add, remove, actor).facts) :
                Watched(o, add, remove, actor).facts[i].kind
                  \in {"watcher_added", "watcher_removed"}
<1> DEFINE res == Watched(o, add, remove, actor)
           plus == {add} \ ({Nobody, o.assignee, o.originator} \cup o.watchers)
           minus == {remove} \cap o.watchers
           e == Fact("watcher_added", actor, add, Nobody, {})
           f == Fact("watcher_removed", actor, remove, Nobody, {})
           s == IF plus = {} THEN <<>> ELSE <<e>>
           t == IF minus = {} THEN <<>> ELSE <<f>>
<1>1. /\ o \in Row /\ o.assignee \in Members /\ o.originator \in Members
      /\ o.watchers \in SUBSET Members /\ o.status \in Statuses \ {"none"}
  BY DEF Sound, Row
<1>2. /\ e \in Event /\ e.kind = "watcher_added"
      /\ f \in Event /\ f.kind = "watcher_removed" /\ f.who = remove
  <2>1. /\ "watcher_added" \in Kinds /\ "watcher_removed" \in Kinds
        /\ {} \in SUBSET Members /\ Nobody \in Someone
    BY DEF Kinds, Someone
  <2>2. QED
    BY <2>1 DEF Fact, Event
<1>3. /\ res.row.status = o.status /\ res.row.assignee = o.assignee
      /\ res.row.originator = o.originator
      /\ res.row.watchers = (o.watchers \ minus) \cup plus
      /\ res.row \in Row
  <2>1. plus \subseteq Members
    BY DEF Someone
  <2>2. QED
    BY <1>1, <2>1 DEF Watched, Row
<1>4. res.facts = s \o t
  BY DEF Watched
<1>13. Story(o, res)
  <2> DEFINE p == [o EXCEPT !.watchers = @ \cup plus]
             q == [p EXCEPT !.watchers = @ \ minus]
             a == [row |-> p, facts |-> s]
             b == [row |-> q, facts |-> t]
  <2>1. p \in Row
    BY <1>1 DEF Row, Someone
  <2>2. res = [row |-> q, facts |-> s \o t]
    <3>1. plus \cap minus = {}
      OBVIOUS
    <3>2. (o.watchers \ minus) \cup plus = (o.watchers \cup plus) \ minus
      BY <3>1
    <3>3. q = [o EXCEPT !.watchers = (o.watchers \cup plus) \ minus]
      BY <1>1 DEF Row
    <3>4. QED
      BY <3>2, <3>3 DEF Watched
  <2>3. Story(o, a)
    <3>1. CASE plus = {}
      <4>1. p = o
        BY <1>1, <3>1 DEF Row
      <4>2. QED
        BY <3>1, <4>1, NoStory
    <3>2. CASE plus # {}
      <4>1. plus = {add} /\ add \in Members
        BY <3>2 DEF Someone
      <4>2. QED
        BY <1>1, <3>2, <4>1, AddStory
    <3>3. QED
      BY <3>1, <3>2
  <2>4. Story(p, b)
    <3>1. CASE minus = {}
      <4>1. q = p
        BY <2>1, <3>1 DEF Row
      <4>2. QED
        BY <3>1, <4>1, NoStory
    <3>2. CASE minus # {}
      <4>1. minus = {remove} /\ remove \in Members
        BY <1>1, <3>2
      <4>2. QED
        BY <2>1, <3>2, <4>1, DropStory
    <3>3. QED
      BY <3>1, <3>2
  <2>5. s \in Seq(Event) /\ t \in Seq(Event)
    BY <1>2
  <2> HIDE DEF p, q, s, t, res
  <2>6. /\ a.row = p /\ a.facts = s /\ b.row = q /\ b.facts = t
    OBVIOUS
  <2> HIDE DEF a, b
  <2>7. Story(o, Then(a, b))
    BY <2>3, <2>4, <2>5, <2>6, StoryOn
  <2>8. QED
    BY <2>2, <2>6, <2>7 DEF Then
<1>14. /\ plus # {} => Plain(e) /\ e.told = {}
       /\ minus # {} => Plain(f) /\ f.told = {}
  <2>1. plus # {} => add # Nobody
    OBVIOUS
  <2>2. minus # {} => remove # Nobody
    BY <1>1, ObjectiveConstantsOK
  <2>3. QED
    BY <2>1, <2>2, PlainFact
<1> HIDE DEF e, f, res, plus
<1>5. /\ s \in Seq(Event) /\ t \in Seq(Event)
      /\ \A i \in 1 .. Len(s) : s[i].kind = "watcher_added"
      /\ \A i \in 1 .. Len(t) : t[i].kind = "watcher_removed"
      /\ minus # {} => 1 \in 1 .. Len(t) /\ Removes(t[1], remove)
  <2>1. s \in Seq(Event) /\ \A i \in 1 .. Len(s) : s[i].kind = "watcher_added"
    <3>1. CASE plus = {}
      BY <3>1, NoFacts
    <3>2. CASE plus # {}
      BY <1>2, <3>2, SingleFact
    <3>3. QED
      BY <3>1, <3>2
  <2>2. /\ t \in Seq(Event) /\ \A i \in 1 .. Len(t) : t[i].kind = "watcher_removed"
        /\ minus # {} => 1 \in 1 .. Len(t) /\ Removes(t[1], remove)
    <3>1. CASE minus = {}
      BY <3>1, NoFacts
    <3>2. CASE minus # {}
      BY <1>2, <3>2, SingleFact DEF Removes
    <3>3. QED
      BY <3>1, <3>2
  <2>3. QED
    BY <2>1, <2>2
<1>15. /\ \A i \in 1 .. Len(s) : Plain(s[i]) /\ s[i].told = {}
       /\ \A i \in 1 .. Len(t) : Plain(t[i]) /\ t[i].told = {}
  <2>1. \A i \in 1 .. Len(s) : Plain(s[i]) /\ s[i].told = {}
    <3>1. CASE plus = {}
      BY <3>1, NoFacts
    <3>2. CASE plus # {}
      BY <1>2, <1>14, <3>2, SingleFact
    <3>3. QED
      BY <3>1, <3>2
  <2>2. \A i \in 1 .. Len(t) : Plain(t[i]) /\ t[i].told = {}
    <3>1. CASE minus = {}
      BY <3>1, NoFacts
    <3>2. CASE minus # {}
      BY <1>2, <1>14, <3>2, SingleFact
    <3>3. QED
      BY <3>1, <3>2
  <2>3. QED
    BY <2>1, <2>2
<1> HIDE DEF s, t
<1>16. Fresh(res)
  <2>1. /\ \A i \in 1 .. Len(s) : (s \o t)[i] = s[i]
        /\ \A j \in 1 .. Len(t) : (s \o t)[Len(s) + j] = t[j]
        /\ \A i \in 1 .. Len(s \o t) :
             i \in 1 .. Len(s) \/ \E j \in 1 .. Len(t) : i = Len(s) + j
    BY <1>5, Cat, Zenon
  <2>2. ASSUME NEW i \in 1 .. Len(s \o t)
        PROVE  Plain((s \o t)[i]) /\ (s \o t)[i].told = {}
    <3>1. CASE i \in 1 .. Len(s)
      BY <1>15, <2>1, <3>1, Zenon
    <3>2. CASE \E j \in 1 .. Len(t) : i = Len(s) + j
      BY <1>15, <2>1, <3>2, Zenon
    <3>3. QED
      BY <2>1, <3>1, <3>2
  <2>3. QED
    BY <1>4, <2>2, Zenon DEF Fresh
<1>6. /\ res.facts \in Seq(Event)
      /\ \A i \in 1 .. Len(res.facts) :
           res.facts[i].kind \in {"watcher_added", "watcher_removed"}
  <2>1. /\ s \o t \in Seq(Event)
        /\ \A i \in 1 .. Len(s) : (s \o t)[i] = s[i]
        /\ \A j \in 1 .. Len(t) : (s \o t)[Len(s) + j] = t[j]
        /\ \A i \in 1 .. Len(s \o t) :
             i \in 1 .. Len(s) \/ \E j \in 1 .. Len(t) : i = Len(s) + j
    BY <1>5, Cat, Zenon
  <2>2. \A i \in 1 .. Len(s \o t) :
          (s \o t)[i].kind \in {"watcher_added", "watcher_removed"}
    <3> SUFFICES ASSUME NEW i \in 1 .. Len(s \o t)
                 PROVE  (s \o t)[i].kind \in {"watcher_added", "watcher_removed"}
      OBVIOUS
    <3>1. CASE i \in 1 .. Len(s)
      BY <1>5, <2>1, <3>1
    <3>2. CASE \E j \in 1 .. Len(t) : i = Len(s) + j
      <4>1. PICK j \in 1 .. Len(t) : i = Len(s) + j
        BY <3>2
      <4>2. (s \o t)[i] = t[j] /\ t[j].kind = "watcher_removed"
        BY <1>5, <2>1, <4>1, Zenon
      <4>3. QED
        BY <4>2
    <3>3. QED
      BY <2>1, <3>1, <3>2
  <2>3. QED
    BY <1>4, <2>1, <2>2
<1>7. minus # {} => \E j \in 1 .. Len(res.facts) : Removes(res.facts[j], remove)
  <2> SUFFICES ASSUME minus # {}
               PROVE  \E j \in 1 .. Len(res.facts) : Removes(res.facts[j], remove)
    OBVIOUS
  <2>1. Len(s) + 1 \in Len(s) + 1 .. Len(s \o t) /\ (s \o t)[Len(s) + 1] = t[1]
        /\ Len(s) \in Nat
    BY <1>5, Cat
  <2>2. Len(s) + 1 \in 1 .. Len(s \o t)
    BY <2>1
  <2>3. QED
    BY <1>4, <1>5, <2>1, <2>2
<1>8. Typed(res)
  BY <1>1, <1>3, <1>6 DEF Typed, Sound
<1>9. ThreadKept(o, res)
  BY <1>1, <1>3, <1>7 DEF ThreadKept, InThread
<1>10. HandoversKept(res) /\ HolderLogged(o, res)
  BY <1>3, <1>6 DEF HandoversKept, HolderLogged, TakesFrom
<1>11. FinalKept(o, res) /\ EndLogged(o, res) /\ CompletionLogged(o, res)
  BY <1>3, <1>6 DEF FinalKept, EndLogged, CompletionLogged, Terminal
<1>12. QED
  BY <1>6, <1>8, <1>9, <1>10, <1>11, <1>13, <1>16 DEF Change, res

LEMMA UpdatedChanges ==
    ASSUME NEW o, Sound(o), ~Terminal(o), NEW status \in Lists, NEW actor \in Members
    PROVE  Change(o, Updated(o, status, actor))
<1> DEFINE res == Updated(o, status, actor)
           kind == IF status = "blocked" THEN "blocked" ELSE "unblocked"
           e == Fact(kind, actor, Nobody, Nobody, {})
<1>1. /\ o \in Row /\ o.assignee \in Members /\ o.originator \in Members
      /\ o.watchers \in SUBSET Members
  BY DEF Sound, Row
<1>2. e \in Event /\ e.kind \in {"blocked", "unblocked"}
  <2>1. /\ kind \in Kinds /\ kind \in {"blocked", "unblocked"}
        /\ {} \in SUBSET Members /\ Nobody \in Someone
    BY DEF Kinds, Someone
  <2> HIDE DEF kind
  <2>2. e \in Event /\ e.kind = kind
    BY <2>1 DEF Fact, Event
  <2>3. QED
    BY <2>1, <2>2
<1>3. /\ res.row.status = status /\ res.row.assignee = o.assignee
      /\ res.row.originator = o.originator /\ res.row.watchers = o.watchers
      /\ res.row \in Row /\ status \in {"active", "blocked"}
  BY <1>1 DEF Updated, Row, Lists, Statuses
<1>4. res.facts = <<>> \/ res.facts = <<e>>
  BY DEF Updated
<1>10. Story(o, res)
  <2>1. CASE status = o.status
    <3>1. [o EXCEPT !.status = status] = o
      BY <1>1, <2>1 DEF Row
    <3>2. res = [row |-> o, facts |-> <<>>]
      BY <2>1, <3>1 DEF Updated
    <3>3. QED
      BY <3>2, NoStory
  <2>2. CASE status # o.status
    <3>1. kind \in StatusKinds \ {"assigned"} /\ StatusAfter(kind) = status
      BY <1>3 DEF StatusKinds, StatusAfter
    <3> HIDE DEF kind
    <3>2. Story(o, [row |-> [o EXCEPT !.status = status], facts |-> <<e>>])
      BY <1>1, <3>1, StatusStory
    <3>3. res = [row |-> [o EXCEPT !.status = status], facts |-> <<e>>]
      BY <2>2 DEF Updated, kind
    <3>4. QED
      BY <3>2, <3>3
  <2>3. QED
    BY <2>1, <2>2
<1>11. Plain(e) /\ e.told = {}
  <2>1. kind \notin {"assigned", "reassigned", "watcher_added", "watcher_removed"}
    OBVIOUS
  <2>2. QED
    BY <2>1, PlainFact
<1> HIDE DEF e, res
<1>12. Fresh(res)
  BY <1>2, <1>4, <1>11, SingleFact, NoFacts DEF Fresh
<1>5. /\ res.facts \in Seq(Event)
      /\ \A i \in 1 .. Len(res.facts) : res.facts[i].kind \in {"blocked", "unblocked"}
  BY <1>2, <1>4, SingleFact, NoFacts
<1>6. Typed(res)
  BY <1>1, <1>3, <1>5 DEF Typed, Sound
<1>7. ThreadKept(o, res) /\ HandoversKept(res) /\ HolderLogged(o, res)
  BY <1>3, <1>5 DEF ThreadKept, HandoversKept, HolderLogged, InThread, TakesFrom
<1>8. FinalKept(o, res) /\ EndLogged(o, res) /\ CompletionLogged(o, res)
  BY <1>3, <1>5 DEF FinalKept, EndLogged, CompletionLogged, Terminal, Final
<1>9. QED
  BY <1>6, <1>7, <1>8, <1>10, <1>12 DEF Change, res

LEMMA EndedChanges ==
    ASSUME NEW o, Sound(o), ~Terminal(o), NEW status \in Final, NEW actor \in Members
    PROVE  /\ Change(o, Ended(o, status, actor))
           /\ Len(Ended(o, status, actor).facts) = 1
           /\ Ended(o, status, actor).facts[1].actor = actor
<1> DEFINE res == Ended(o, status, actor)
           kind == IF status = "done" THEN "completed" ELSE "cancelled"
           e == Fact(kind, actor, Nobody, Nobody, {})
<1>1. /\ o \in Row /\ o.assignee \in Members /\ o.originator \in Members
      /\ o.watchers \in SUBSET Members
  BY DEF Sound, Row
<1>2. e \in Event /\ e.kind = kind /\ e.actor = actor
  BY <1>1 DEF Kinds, Someone, Fact, Event
<1>3. /\ res.row.status = status /\ res.row.assignee = o.assignee
      /\ res.row.originator = o.originator /\ res.row.watchers = o.watchers
      /\ res.row \in Row /\ status \in {"done", "cancelled"}
  BY <1>1 DEF Ended, Row, Statuses, Final
<1>4. res.facts = <<e>>
  BY DEF Ended
<1>10. Story(o, res)
  <2>1. kind \in StatusKinds \ {"assigned"} /\ StatusAfter(kind) = status
    BY <1>3 DEF StatusKinds, StatusAfter
  <2> HIDE DEF kind
  <2>2. Story(o, [row |-> [o EXCEPT !.status = status], facts |-> <<e>>])
    BY <1>1, <2>1, StatusStory
  <2>3. res = [row |-> [o EXCEPT !.status = status], facts |-> <<e>>]
    BY DEF Ended, kind
  <2>4. QED
    BY <2>2, <2>3
<1>11. Plain(e) /\ e.told = {}
  <2>1. kind \notin {"assigned", "reassigned", "watcher_added", "watcher_removed"}
    OBVIOUS
  <2>2. QED
    BY <2>1, PlainFact
<1> HIDE DEF e, res
<1>12. Fresh(res)
  BY <1>2, <1>4, <1>11, SingleFact DEF Fresh
<1>5. /\ res.facts \in Seq(Event) /\ Len(res.facts) = 1 /\ 1 .. Len(res.facts) = {1}
      /\ res.facts[1].kind = kind /\ res.facts[1].actor = actor
  BY <1>2, <1>4, SingleFact
<1>6. Typed(res)
  BY <1>1, <1>3, <1>5 DEF Typed, Sound
<1>7. ThreadKept(o, res) /\ HandoversKept(res) /\ HolderLogged(o, res)
  BY <1>3, <1>5 DEF ThreadKept, HandoversKept, HolderLogged, InThread, TakesFrom
<1>8. FinalKept(o, res) /\ EndLogged(o, res) /\ CompletionLogged(o, res)
  BY <1>3, <1>5 DEF FinalKept, EndLogged, CompletionLogged, Terminal, Final
<1>9. QED
  BY <1>3, <1>5, <1>6, <1>7, <1>8, <1>10, <1>12 DEF Change, res

-----------------------------------------------------------------------------
(* The inductive invariant.                                                *)

Positions == 1 .. Len(log)

(* Before it is created there is nothing to wait for.                      *)
Untouched ==
    row.status = "none" =>
        /\ log = <<>> /\ outbox = <<>>
        /\ \A r \in DOMAIN req : req[r].route \notin Awaiting

Handovers ==
    \A i \in Positions, m \in Someone : TakesFrom(log[i], m) =>
        InThread(row, m) \/ \E j \in i + 1 .. Len(log) : Removes(log[j], m)

EndInLog ==
    Terminal(row) => \E j \in Positions : log[j].kind \in {"completed", "cancelled"}

(* Held(m, n): m has the objective, or it was taken from m behind place n. *)
Held(m, n) ==
    m = row.assignee \/ \E k \in n + 1 .. Len(log) : TakesFrom(log[k], m)

Holders ==
    \A r \in DOMAIN req : req[r].route = "complete" =>
        req[r].at <= Len(log) /\ Held(req[r].actor, req[r].at)

OutboxInLog == \A k \in 1 .. Len(outbox) : outbox[k] \in Positions

Explained(i) ==
    \/ \E k \in 1 .. Len(outbox) : outbox[k] = i
    \/ i \in lost
    \/ /\ log[i].kind \in {"watcher_added", "watcher_removed"}
       /\ \E j \in Positions : log[j].kind \in {"completed", "cancelled"} /\ j < i

Silences == \A i \in Positions : log[i].told = {} => Explained(i)

(* The log tells the whole story of the row.                               *)
StoryTold ==
    /\ Story(NoRow, [row |-> row, facts |-> log])
    /\ \A i \in Positions : Plain(log[i])

Names(e, m) == m \in {e.who, e.from} \cup e.also

(* Whom a published event names has been told of it or of a later one.     *)
LastWords ==
    \A i \in Positions, m \in Members :
        /\ log[i].told # {} /\ Names(log[i], m)
        /\ \A j \in i + 1 .. Len(log) : ~Names(log[j], m)
        => m \in log[i].told

(* Something is coming that makes the tracker look again, or it may be     *)
(* behind.                                                                 *)
Coming ==
    \/ timer \/ excused
    \/ \E k \in 1 .. Len(outbox) : Self \in Thread(row, log[outbox[k]])

Listed(l) == row.assignee = Self /\ row.status = l

(* Otherwise what it has read is true, or else its copy is.                *)
Plates ==
    ~Coming =>
        IF fetch = Unasked THEN plate <=> \E l \in Lists : Listed(l)
          ELSE \A l \in Lists :
                 /\ fetch[l] # "idle"
                 /\ fetch[l] = "in" => Listed(l)
                 /\ fetch[l] = "out" => ~Listed(l)

Inv ==
    /\ TypeOK /\ Untouched /\ Handovers /\ EndInLog
    /\ Holders /\ OutboxInLog /\ Silences
    /\ StoryTold /\ LastWords /\ Plates

LEMMA InitInv == Init => Inv
<1> SUFFICES ASSUME Init PROVE Inv
  OBVIOUS
<1>1. 1 .. Len(log) = {} /\ 1 .. Len(outbox) = {} /\ log \in Seq(Event)
      /\ outbox \in Seq(Nat \ {0}) /\ outbox = <<>> /\ log = <<>>
  BY DEF Init
<1>2. \A r \in DOMAIN req : req[r].route = "unused"
  BY DEF Init, NoRequest
<1>3. TypeOK
  <2>1. row \in Row /\ row.status = "none"
    BY DEF Init, NoRow, Row, Statuses, Someone
  <2>2. req \in [1 .. MaxRequests -> Request]
    BY DEF Init, NoRequest, Request, Someone
  <2>3. fetch \in [Lists -> Answers] /\ halts \in 0 .. MaxHalts
        /\ lost \in SUBSET (Nat \ {0})
    BY ObjectiveConstantsOK DEF Init, Unasked, Answers
  <2>4. QED
    BY <1>1, <1>2, <2>1, <2>2, <2>3 DEF TypeOK, Init, Awaiting
<1>4. ~Terminal(row)
  BY DEF Init, NoRow, Terminal, Final
<1>5. StoryTold /\ LastWords
  <2>1. Story(NoRow, [row |-> row, facts |-> log])
    BY NoStory DEF Init
  <2>2. QED
    BY <1>1, <2>1 DEF StoryTold, LastWords, Positions
<1>6. Plates
  BY DEF Init, Plates, Listed, NoRow, Lists
<1>7. QED
  BY <1>1, <1>2, <1>3, <1>4, <1>5, <1>6
  DEF Inv, Untouched, Handovers, EndInLog, Holders, OutboxInLog, Silences, Positions, Awaiting

-----------------------------------------------------------------------------
(* What a step that stores a change does to the parts.                     *)

LEMMA Stored ==
    ASSUME TypeOK, NEW fs \in Seq(Event), log' = log \o fs
    PROVE  /\ log' \in Seq(Event)
           /\ Len(log) \in Nat /\ Len(fs) \in Nat /\ Len(log') = Len(log) + Len(fs)
           /\ \A i \in 1 .. Len(log) : i \in 1 .. Len(log') /\ log'[i] = log[i]
           /\ \A j \in 1 .. Len(fs) :
                Len(log) + j \in Len(log) + 1 .. Len(log') /\ log'[Len(log) + j] = fs[j]
           /\ \A i \in 1 .. Len(log') :
                i \in 1 .. Len(log) \/ \E j \in 1 .. Len(fs) : i = Len(log) + j
<1>1. log \in Seq(Event)
  BY DEF TypeOK
<1>2. QED
  BY <1>1, Cat, Zenon

LEMMA StoreKeeps ==
    ASSUME Inv, NEW res, Change(row, res), Store(res)
    PROVE  /\ Sound(row)' /\ Handovers' /\ EndInLog'
           /\ \A m \in Someone, n \in Nat : n <= Len(log) /\ Held(m, n) => Held(m, n)'
<1>1. /\ TypeOK /\ Handovers /\ EndInLog /\ row' = res.row /\ log' = log \o res.facts
      /\ res.facts \in Seq(Event)
  BY DEF Inv, Store, Change, Typed
<1>2. /\ Len(log) \in Nat /\ Len(res.facts) \in Nat
      /\ Len(log') = Len(log) + Len(res.facts)
      /\ \A i \in 1 .. Len(log) : i \in 1 .. Len(log') /\ log'[i] = log[i]
      /\ \A j \in 1 .. Len(res.facts) :
           /\ Len(log) + j \in Len(log) + 1 .. Len(log')
           /\ log'[Len(log) + j] = res.facts[j]
      /\ \A i \in 1 .. Len(log') :
           i \in 1 .. Len(log) \/ \E j \in 1 .. Len(res.facts) : i = Len(log) + j
  BY <1>1, Stored, Zenon
<1>3. \A j \in 1 .. Len(res.facts) : Len(log) + j \in 1 .. Len(log')
  BY <1>2
<1>4. Sound(row)'
  BY <1>1 DEF Change, Typed, Sound
<1>5. Handovers'
  <2> SUFFICES ASSUME NEW i \in 1 .. Len(log'), NEW m \in Someone, TakesFrom(log'[i], m)
               PROVE  \/ InThread(res.row, m)
                      \/ \E j \in i + 1 .. Len(log') : Removes(log'[j], m)
    BY <1>1 DEF Handovers, Positions
  <2>1. CASE i \in 1 .. Len(log)
    <3>1. InThread(row, m) \/ \E j \in i + 1 .. Len(log) : Removes(log[j], m)
      BY <1>1, <1>2, <2>1 DEF Handovers, Positions
    <3>2. CASE InThread(row, m)
      <4>1. InThread(res.row, m)
            \/ \E j \in 1 .. Len(res.facts) : Removes(res.facts[j], m)
        BY <3>2 DEF Change, ThreadKept
      <4>2. \A j \in 1 .. Len(res.facts) : Len(log) + j \in i + 1 .. Len(log')
        BY <1>2, <2>1
      <4>3. QED
        BY <1>2, <4>1, <4>2
    <3>3. CASE \E j \in i + 1 .. Len(log) : Removes(log[j], m)
      <4>1. PICK j \in i + 1 .. Len(log) : Removes(log[j], m)
        BY <3>3
      <4>2. j \in 1 .. Len(log)
        BY <1>2, <2>1
      <4>3. j \in i + 1 .. Len(log') /\ log'[j] = log[j]
        BY <1>2, <2>1, <4>2
      <4>4. QED
        BY <4>1, <4>3
    <3>4. QED
      BY <3>1, <3>2, <3>3
  <2>2. CASE \E k \in 1 .. Len(res.facts) : i = Len(log) + k
    <3>1. PICK k \in 1 .. Len(res.facts) : i = Len(log) + k
      BY <2>2
    <3>2. log'[i] = res.facts[k]
      BY <1>2, <3>1
    <3>3. InThread(res.row, m)
          \/ \E j \in k + 1 .. Len(res.facts) : Removes(res.facts[j], m)
      BY <3>1, <3>2 DEF Change, HandoversKept
    <3>4. \A j \in k + 1 .. Len(res.facts) :
            j \in 1 .. Len(res.facts) /\ Len(log) + j \in i + 1 .. Len(log')
      <4>1. Len(log) \in Nat /\ Len(res.facts) \in Nat /\ k \in Nat /\ k >= 1
        BY <1>2, <3>1
      <4>2. \A j \in k + 1 .. Len(res.facts) :
              j \in 1 .. Len(res.facts) /\ Len(log) + j >= Len(log) + k + 1
        BY <4>1
      <4>3. QED
        BY <1>2, <3>1, <4>1, <4>2
    <3>5. QED
      BY <1>2, <3>3, <3>4
  <2>3. QED
    BY <1>2, <2>1, <2>2
<1>6. EndInLog'
  <2> SUFFICES ASSUME Terminal(res.row)
               PROVE  \E j \in 1 .. Len(log') : log'[j].kind \in {"completed", "cancelled"}
    BY <1>1 DEF EndInLog, Positions
  <2>1. CASE Terminal(row)
    BY <1>1, <1>2, <2>1 DEF EndInLog, Positions
  <2>2. CASE ~Terminal(row)
    <3>1. PICK j \in 1 .. Len(res.facts) : res.facts[j].kind \in {"completed", "cancelled"}
      BY <2>2 DEF Change, EndLogged
    <3>2. QED
      BY <1>2, <1>3, <3>1
  <2>3. QED
    BY <2>1, <2>2
<1>7. ASSUME NEW m \in Someone, NEW n \in Nat, n <= Len(log), Held(m, n)
      PROVE  Held(m, n)'
  <2>1. CASE m = row.assignee
    <3>1. CASE res.row.assignee = row.assignee
      BY <1>1, <2>1, <3>1 DEF Held
    <3>2. CASE res.row.assignee # row.assignee
      <4>1. PICK j \in 1 .. Len(res.facts) : TakesFrom(res.facts[j], m)
        BY <2>1, <3>2 DEF Change, HolderLogged
      <4>2. Len(log) + j \in n + 1 .. Len(log')
        BY <1>2, <1>7, <4>1
      <4>3. TakesFrom(log'[Len(log) + j], m)
        BY <1>2, <4>1
      <4>4. QED
        BY <4>2, <4>3 DEF Held
    <3>3. QED
      BY <3>1, <3>2
  <2>2. CASE \E k \in n + 1 .. Len(log) : TakesFrom(log[k], m)
    <3>1. PICK k \in n + 1 .. Len(log) : TakesFrom(log[k], m)
      BY <2>2
    <3>2. k \in 1 .. Len(log) /\ k \in n + 1 .. Len(log')
      BY <1>2, <3>1
    <3>3. TakesFrom(log'[k], m)
      BY <1>2, <3>1, <3>2
    <3>4. QED
      BY <3>2, <3>3 DEF Held
  <2>3. QED
    BY <1>7, <2>1, <2>2 DEF Held
<1>8. QED
  BY <1>4, <1>5, <1>6, <1>7

(* A request that is over waits for nothing; the others are as they were.   *)
LEMMA Overs ==
    ASSUME TypeOK, NEW r \in 1 .. MaxRequests, Over(r)
    PROVE  /\ req' \in [1 .. MaxRequests -> Request] /\ DOMAIN req' = DOMAIN req
           /\ \A q \in DOMAIN req : req'[q].route \in Awaiting => req'[q] = req[q]
<1>1. req \in [1 .. MaxRequests -> Request] /\ [NoRequest EXCEPT !.route = "over"] \in Request
  BY DEF TypeOK, NoRequest, Request, Someone
<1>2. [NoRequest EXCEPT !.route = "over"].route \notin Awaiting
  BY DEF NoRequest, Awaiting
<1>3. QED
  BY <1>1, <1>2 DEF Over

LEMMA HoldersKept ==
    ASSUME Inv, DOMAIN req' = DOMAIN req, Len(log') \in Nat, Len(log) \in Nat,
           Len(log) <= Len(log'),
           \A q \in DOMAIN req : req'[q].route \in Awaiting => req'[q] = req[q],
           \A m \in Someone, n \in Nat : n <= Len(log) /\ Held(m, n) => Held(m, n)'
    PROVE  Holders'
<1> SUFFICES ASSUME NEW q \in DOMAIN req, req'[q].route = "complete"
             PROVE  (req[q].at <= Len(log) /\ Held(req[q].actor, req[q].at))'
  BY DEF Holders
<1>1. req'[q] = req[q] /\ req[q].route = "complete"
  BY DEF Awaiting
<1>2. PICK m \in Someone, n \in Nat : m = req[q].actor /\ n = req[q].at
  BY DEF Inv, TypeOK, Request
<1>3. n <= Len(log) /\ Held(m, n)
  BY <1>1, <1>2 DEF Inv, Holders
<1>4. Held(m, n)'
  BY <1>3
<1>5. m = req'[q].actor /\ n = req'[q].at
  BY <1>1, <1>2
<1>6. Held(req[q].actor, req[q].at)'
  BY <1>4, <1>5 DEF Held
<1>7. n <= Len(log')
  BY <1>3
<1>8. QED
  BY <1>5, <1>6, <1>7

(* An old silence stays explained while the outbox only grows.             *)
LEMMA SilenceKept ==
    ASSUME Inv, Len(log) \in Nat, NEW i \in Positions, log[i].told = {},
           \A j \in Positions : j \in Positions' /\ log'[j] = log[j],
           lost' = lost, outbox = <<>> \/ outbox' = outbox
    PROVE  Explained(i)'
<1>1. Explained(i)
  BY DEF Inv, Silences
<1>2. CASE outbox = <<>>
  <2>1. ~\E k \in 1 .. Len(outbox) : outbox[k] = i
    BY <1>2, NoFacts
  <2>2. QED
    BY <1>1, <2>1 DEF Explained
<1>3. CASE outbox' = outbox
  BY <1>1, <1>3 DEF Explained
<1>4. QED
  BY <1>2, <1>3

LEMMA RunnerKept ==
    ASSUME Inv, UNCHANGED <<halts, lost, runnerVars>>, Sound(row)', log' \in Seq(Event),
           req' \in [1 .. MaxRequests -> Request], DOMAIN req' = DOMAIN req,
           \A q \in DOMAIN req : req'[q].route \in Awaiting => req'[q] = req[q],
           outbox' \in Seq(Nat \ {0})
    PROVE  TypeOK'
BY DEF Inv, TypeOK, Sound, runnerVars

LEMMA LogGrows ==
    ASSUME Inv, NEW res, Change(row, res), Store(res)
    PROVE  /\ log' \in Seq(Event) /\ res.facts \in Seq(Event)
           /\ Len(log) \in Nat /\ Len(res.facts) \in Nat /\ Len(log') \in Nat
           /\ Len(log) <= Len(log')
           /\ \A j \in Positions : j \in Positions' /\ log'[j] = log[j]
           /\ \A j \in 1 .. Len(res.facts) :
                Len(log) + j \in Positions' /\ log'[Len(log) + j] = res.facts[j]
           /\ \A i \in Positions' :
                i \in Positions \/ \E j \in 1 .. Len(res.facts) : i = Len(log) + j
<1>1. /\ TypeOK /\ log' = log \o res.facts /\ res.facts \in Seq(Event)
  BY DEF Inv, Store, Change, Typed
<1>2. /\ log' \in Seq(Event)
      /\ Len(log) \in Nat /\ Len(res.facts) \in Nat
      /\ Len(log') = Len(log) + Len(res.facts)
      /\ \A i \in 1 .. Len(log) : i \in 1 .. Len(log') /\ log'[i] = log[i]
      /\ \A j \in 1 .. Len(res.facts) :
           /\ Len(log) + j \in Len(log) + 1 .. Len(log')
           /\ log'[Len(log) + j] = res.facts[j]
      /\ \A i \in 1 .. Len(log') :
           i \in 1 .. Len(log) \/ \E j \in 1 .. Len(res.facts) : i = Len(log) + j
  BY <1>1, Stored, Zenon
<1>3. \A j \in 1 .. Len(res.facts) : Len(log) + j \in 1 .. Len(log')
  BY <1>2
<1>4. Len(log') \in Nat /\ Len(log) <= Len(log')
  BY <1>2
<1>5. QED
  BY <1>1, <1>2, <1>3, <1>4, Zenon DEF Positions

-----------------------------------------------------------------------------
(* The story of the row, the last words and the runner's copy, when a      *)
(* change is stored.                                                       *)

LEMMA StoryGrows ==
    ASSUME Inv, NEW res, Change(row, res), Store(res)
    PROVE  StoryTold'
<1> DEFINE a == [row |-> row, facts |-> log]
<1>1. /\ log \in Seq(Event) /\ res.facts \in Seq(Event) /\ Story(row, res)
      /\ Story(NoRow, a) /\ a.row = row /\ a.facts = log
  BY DEF Inv, TypeOK, StoryTold, Change, Typed
<1>2. Then(a, res) = [row |-> row', facts |-> log']
  BY DEF Then, Store
<1> HIDE DEF a
<1>3. Story(NoRow, Then(a, res))
  BY <1>1, StoryOn
<1>4. /\ Len(log) \in Nat
      /\ \A j \in Positions : log'[j] = log[j]
      /\ \A j \in 1 .. Len(res.facts) : log'[Len(log) + j] = res.facts[j]
      /\ \A i \in Positions' :
           i \in Positions \/ \E j \in 1 .. Len(res.facts) : i = Len(log) + j
  BY LogGrows, Zenon
<1>5. /\ \A j \in Positions : Plain(log[j])
      /\ \A j \in 1 .. Len(res.facts) : Plain(res.facts[j])
  BY DEF Inv, StoryTold, Change, Fresh
<1>6. \A i \in Positions' : Plain(log'[i])
  BY <1>4, <1>5, Zenon
<1>7. QED
  BY <1>2, <1>3, <1>6 DEF StoryTold, Plain

LEMMA LastWordsGrow ==
    ASSUME Inv, NEW res, Change(row, res), Store(res)
    PROVE  LastWords'
<1>1. /\ Len(log) \in Nat /\ Len(log') \in Nat /\ Len(log) <= Len(log')
      /\ \A j \in Positions : log'[j] = log[j]
      /\ \A j \in 1 .. Len(res.facts) : log'[Len(log) + j] = res.facts[j]
      /\ \A i \in Positions' :
           i \in Positions \/ \E j \in 1 .. Len(res.facts) : i = Len(log) + j
  BY LogGrows, Zenon
<1>2. \A j \in 1 .. Len(res.facts) : res.facts[j].told = {}
  BY DEF Change, Fresh
<1> SUFFICES ASSUME NEW i \in Positions', NEW m \in Members,
                    log'[i].told # {}, Names(log'[i], m),
                    \A j \in i + 1 .. Len(log') : ~Names(log'[j], m)
             PROVE  m \in log'[i].told
  BY DEF LastWords, Names
<1>3. i \in Positions /\ log'[i] = log[i]
  BY <1>1, <1>2
<1>4. \A j \in i + 1 .. Len(log) : j \in i + 1 .. Len(log') /\ j \in Positions
  BY <1>1, <1>3 DEF Positions
<1>5. \A j \in i + 1 .. Len(log) : ~Names(log[j], m)
  BY <1>1, <1>4
<1>6. QED
  BY <1>3, <1>5 DEF Inv, LastWords

(* Whoever gains or loses the objective, and whoever has it when its       *)
(* status changes, is told of some event.                                  *)
LEMMA HolderIsTold ==
    ASSUME NEW o \in Row, NEW res, Change(o, res), NEW m \in Members, NEW l,
           (o.assignee = m /\ o.status = l) # (res.row.assignee = m /\ res.row.status = l)
    PROVE  \E j \in 1 .. Len(res.facts) : m \in Thread(res.row, res.facts[j])
<1>1. res.row \in Row /\ o.status \in Statuses /\ m # Nobody
  BY ObjectiveConstantsOK DEF Change, Typed, Sound, Row
<1>2. CASE res.row.assignee # o.assignee
  <2>1. PICK j \in 1 .. Len(res.facts) : TakesFrom(res.facts[j], o.assignee)
    BY <1>2 DEF Change, HolderLogged
  <2>2. o.assignee = m \/ res.row.assignee = m
    OBVIOUS
  <2>3. m \in Thread(res.row, res.facts[j])
    BY <1>1, <2>1, <2>2 DEF Thread, TakesFrom
  <2>4. QED
    BY <2>3
<1>3. CASE res.row.assignee = o.assignee
  <2>1. res.row.assignee = m /\ res.row.status # o.status
    BY <1>3
  <2>2. /\ o \in Standing(o.status) /\ res.row \notin Standing(o.status)
        /\ Follows(res.facts, Sets(o.status), Resets(o.status), Standing(o.status), o, res.row)
    BY <1>1, <2>1 DEF Standing, Change, Story
  <2>3. \E j \in 1 .. Len(res.facts) : res.facts[j] \in Resets(o.status)
    BY <2>2, Zenon DEF Follows
  <2>4. \A j \in 1 .. Len(res.facts) : m \in Thread(res.row, res.facts[j])
    BY <1>1, <2>1 DEF Thread
  <2>5. QED
    BY <2>3, <2>4
<1>4. QED
  BY <1>2, <1>3

(* The runner's copy needs nothing new where the two lists stay as they    *)
(* are.                                                                    *)
LEMMA PlatesStay ==
    ASSUME Inv, ~Coming, UNCHANGED runnerVars, \A l \in Lists : Listed(l)' <=> Listed(l)
    PROVE  Plates'
BY DEF Inv, Plates, runnerVars

LEMMA PlatesTold ==
    ASSUME Inv, Quiet, NEW res, Change(row, res), Store(res),
           Announce(res), UNCHANGED runnerVars
    PROVE  Plates'
<1>1. CASE Coming'
  BY <1>1 DEF Plates
<1>2. CASE ~Coming'
  <2>1. ~Coming
    BY <1>2, NoFacts DEF Coming, Quiet, runnerVars
  <2>2. /\ Len(res.facts) \in Nat
        /\ \A j \in 1 .. Len(res.facts) : log'[Len(log) + j] = res.facts[j]
        /\ row' = res.row /\ row \in Row
    BY LogGrows, Zenon DEF Store, Inv, TypeOK
  <2>3. /\ Len(outbox') = Len(res.facts)
        /\ \A j \in 1 .. Len(res.facts) : outbox'[j] = Len(log) + j
    BY <2>2 DEF Announce
  <2>4. ASSUME NEW l \in Lists PROVE Listed(l)' <=> Listed(l)
    <3>1. CASE Listed(l) # (res.row.assignee = Self /\ res.row.status = l)
      <4>1. PICK j \in 1 .. Len(res.facts) : Self \in Thread(res.row, res.facts[j])
        BY <2>2, <3>1, HolderIsTold, ObjectiveConstantsOK DEF Listed
      <4>2. Self \in Thread(row', log'[outbox'[j]]) /\ j \in 1 .. Len(outbox')
        BY <2>2, <2>3, <4>1
      <4>3. QED
        BY <1>2, <4>2 DEF Coming, Thread
    <3>2. CASE Listed(l) = (res.row.assignee = Self /\ res.row.status = l)
      BY <2>2, <3>2 DEF Listed
    <3>3. QED
      BY <3>1, <3>2
  <2>5. QED
    BY <2>1, <2>4, PlatesStay
<1>3. QED
  BY <1>1, <1>2

LEMMA PlatesUntold ==
    ASSUME Inv, Quiet, Terminal(row), NEW res, Change(row, res), Store(res),
           UNCHANGED <<outbox, runnerVars>>
    PROVE  Plates'
<1>1. \A l \in Lists : Listed(l)' <=> Listed(l)
  BY DEF Change, FinalKept, Store, Listed
<1>2. Coming' <=> Coming
  BY NoFacts DEF Coming, Quiet, runnerVars
<1>3. QED
  BY <1>1, <1>2, PlatesStay DEF Plates

LEMMA StoredAndAnnounced ==
    ASSUME Inv, Quiet, NEW res, Change(row, res), Store(res), Announce(res),
           req' \in [1 .. MaxRequests -> Request], DOMAIN req' = DOMAIN req,
           \A q \in DOMAIN req : req'[q].route \in Awaiting => req'[q] = req[q],
           UNCHANGED <<halts, lost, runnerVars>>
    PROVE  Inv'
<1>1. /\ Sound(row)' /\ Handovers' /\ EndInLog'
      /\ \A m \in Someone, n \in Nat : n <= Len(log) /\ Held(m, n) => Held(m, n)'
  BY StoreKeeps, Zenon
<1>2. /\ log' \in Seq(Event) /\ res.facts \in Seq(Event)
      /\ Len(log) \in Nat /\ Len(res.facts) \in Nat /\ Len(log') \in Nat
      /\ Len(log) <= Len(log')
      /\ \A j \in Positions : j \in Positions' /\ log'[j] = log[j]
      /\ \A j \in 1 .. Len(res.facts) :
           Len(log) + j \in Positions' /\ log'[Len(log) + j] = res.facts[j]
      /\ \A i \in Positions' :
           i \in Positions \/ \E j \in 1 .. Len(res.facts) : i = Len(log) + j
  BY LogGrows, Zenon
<1>3. /\ outbox' \in Seq(Nat \ {0}) /\ Len(outbox') = Len(res.facts)
      /\ \A j \in 1 .. Len(res.facts) : outbox'[j] = Len(log) + j
  <2>1. \A j \in 1 .. Len(res.facts) : Len(log) + j \in Nat \ {0}
    BY <1>2
  <2>2. QED
    BY <1>2, <2>1 DEF Announce
<1>4. TypeOK'
  BY <1>1, <1>2, <1>3, RunnerKept
<1>5. Untouched'
  BY <1>1 DEF Untouched, Sound
<1>6. Holders'
  BY <1>1, <1>2, HoldersKept
<1>7. OutboxInLog'
  BY <1>2, <1>3 DEF OutboxInLog
<1>8. Silences'
  <2> SUFFICES ASSUME NEW i \in Positions', log'[i].told = {}
               PROVE  Explained(i)'
    BY DEF Silences
  <2>1. CASE i \in Positions
    BY <1>2, <2>1, SilenceKept DEF Quiet
  <2>2. CASE \E j \in 1 .. Len(res.facts) : i = Len(log) + j
    BY <1>3, <2>2 DEF Explained
  <2>3. QED
    BY <1>2, <2>1, <2>2
<1>9. StoryTold' /\ LastWords' /\ Plates'
  BY StoryGrows, LastWordsGrow, PlatesTold
<1>10. QED
  BY <1>1, <1>4, <1>5, <1>6, <1>7, <1>8, <1>9 DEF Inv

(* The watchers' part of a PATCH that is refused.                          *)
LEMMA StoredInSilence ==
    ASSUME Inv, Quiet, Terminal(row), NEW res, Change(row, res), Store(res),
           req' \in [1 .. MaxRequests -> Request], DOMAIN req' = DOMAIN req,
           \A q \in DOMAIN req : req'[q].route \in Awaiting => req'[q] = req[q],
           UNCHANGED <<outbox, halts, lost, runnerVars>>
    PROVE  Inv'
<1>1. /\ Sound(row)' /\ Handovers' /\ EndInLog'
      /\ \A m \in Someone, n \in Nat : n <= Len(log) /\ Held(m, n) => Held(m, n)'
  BY StoreKeeps, Zenon
<1>2. /\ log' \in Seq(Event) /\ res.facts \in Seq(Event)
      /\ Len(log) \in Nat /\ Len(res.facts) \in Nat /\ Len(log') \in Nat
      /\ Len(log) <= Len(log')
      /\ \A j \in Positions : j \in Positions' /\ log'[j] = log[j]
      /\ \A j \in 1 .. Len(res.facts) :
           Len(log) + j \in Positions' /\ log'[Len(log) + j] = res.facts[j]
      /\ \A i \in Positions' :
           i \in Positions \/ \E j \in 1 .. Len(res.facts) : i = Len(log) + j
  BY LogGrows, Zenon
<1>3. outbox' = outbox /\ lost' = lost /\ outbox \in Seq(Nat \ {0})
  BY DEF Inv, TypeOK
<1>4. TypeOK'
  BY <1>1, <1>2, <1>3, RunnerKept
<1>5. Untouched'
  BY <1>1 DEF Untouched, Sound
<1>6. Holders'
  BY <1>1, <1>2, HoldersKept
<1>7. OutboxInLog'
  BY <1>2, <1>3 DEF Inv, OutboxInLog
<1>8. Silences'
  <2> SUFFICES ASSUME NEW i \in Positions', log'[i].told = {}
               PROVE  Explained(i)'
    BY DEF Silences
  <2>1. CASE i \in Positions
    BY <1>2, <1>3, <2>1, SilenceKept
  <2>2. CASE \E k \in 1 .. Len(res.facts) : i = Len(log) + k
    <3>1. PICK k \in 1 .. Len(res.facts) : i = Len(log) + k
      BY <2>2
    <3>2. log'[i].kind \in {"watcher_added", "watcher_removed"}
      BY <1>2, <3>1 DEF Change, FinalKept
    <3>3. PICK j \in Positions : log[j].kind \in {"completed", "cancelled"}
      BY DEF Inv, EndInLog
    <3>4. j \in Positions' /\ log'[j].kind \in {"completed", "cancelled"} /\ j < i
      BY <1>2, <3>1, <3>3 DEF Positions
    <3>5. QED
      BY <3>2, <3>4 DEF Explained
  <2>3. QED
    BY <1>2, <2>1, <2>2
<1>9. StoryTold' /\ LastWords' /\ Plates'
  BY StoryGrows, LastWordsGrow, PlatesUntold
<1>10. QED
  BY <1>1, <1>4, <1>5, <1>6, <1>7, <1>8, <1>9 DEF Inv

(* A step that leaves the objective, its log and the outbox alone.         *)
LEMMA NothingStored ==
    ASSUME Inv, UNCHANGED <<row, log, outbox, halts, lost>>, TypeOK', Holders', Plates',
           row.status = "none" => \A q \in DOMAIN req' : req'[q].route \notin Awaiting
    PROVE  Inv'
<1>1. Untouched' /\ Handovers' /\ EndInLog'
  BY DEF Inv, Untouched, Handovers, EndInLog, Positions
<1>2. OutboxInLog' /\ Silences'
  BY DEF Inv, OutboxInLog, Silences, Explained, Positions
<1>3. StoryTold' /\ LastWords'
  BY DEF Inv, StoryTold, LastWords, Positions, Story, Follows, Plain, Names
<1>4. QED
  BY <1>1, <1>2, <1>3 DEF Inv

LEMMA PlatesUntouched ==
    ASSUME Inv, UNCHANGED <<row, log, outbox, runnerVars>>
    PROVE  Plates'
<1>1. \A l \in Lists : Listed(l)' <=> Listed(l)
  BY DEF Listed
<1>2. Coming' <=> Coming
  BY DEF Coming, runnerVars, Thread
<1>3. QED
  BY <1>1, <1>2, PlatesStay DEF Plates

-----------------------------------------------------------------------------
(* The actions.                                                            *)

(* The first event tells the whole row.                                    *)
LEMMA FirstStory ==
    ASSUME NEW e \in Event, NEW o \in Row, e.kind = "assigned", e.who \in Members,
           e.who = o.assignee, e.also = o.watchers, o.status = "active"
    PROVE  Story(NoRow, [row |-> o, facts |-> <<e>>])
<1>1. /\ NoRow.status = "none" /\ NoRow.assignee = Nobody /\ NoRow.watchers = {}
      /\ Nobody \notin Members
  BY ObjectiveConstantsOK DEF NoRow
<1>2. ASSUME NEW m \in Members
      PROVE  /\ Follows(<<e>>, Gives(m), Takes(m), HeldBy(m), NoRow, o)
             /\ Follows(<<e>>, Adds(m), Drops(m), WatchedBy(m), NoRow, o)
             /\ Follows(<<e>>, Drops(m), Adds(m), UnwatchedBy(m), NoRow, o)
  <2>1. (e \in Gives(m) => o \in HeldBy(m)) /\ NoRow \notin HeldBy(m)
    BY <1>1 DEF Gives, HeldBy
  <2>2. (e \in Adds(m) => o \in WatchedBy(m)) /\ NoRow \notin WatchedBy(m)
    BY <1>1 DEF Adds, WatchedBy
  <2>3. e \notin Drops(m) /\ (e \notin Adds(m) => o \in UnwatchedBy(m))
    BY DEF Drops, Removes, Adds, UnwatchedBy
  <2>4. QED
    BY <2>1, <2>2, <2>3, FollowsOne, Zenon
<1>3. ASSUME NEW s \in Statuses
      PROVE  Follows(<<e>>, Sets(s), Resets(s), Standing(s), NoRow, o)
  <2>1. StatusAfter(e.kind) = "active" /\ e.kind \in StatusKinds
    BY DEF StatusAfter, StatusKinds
  <2>2. e \in Sets(s) => o \in Standing(s)
    BY <2>1 DEF Sets, Standing
  <2>3. NoRow \in Standing(s) => e \in Resets(s)
    BY <1>1, <2>1 DEF Resets, Standing
  <2>4. QED
    BY <2>2, <2>3, FollowsOne, Zenon
<1>4. QED
  BY <1>2, <1>3, Zenon DEF Story

(* Create and CreateFails.                                                 *)
LEMMA CreateInv ==
    ASSUME Inv, NEW m \in Members, NEW a \in Members, NEW ws \in SUBSET Followers,
           Create(m, a, ws) \/ CreateFails(m, a, ws)
    PROVE  Inv'
<1> DEFINE others == ws \ {a, m}
           e == Fact("assigned", m, a, Nobody, others)
<1>1. /\ row.status = "none" /\ log = <<>> /\ outbox = <<>> /\ TypeOK
      /\ \A r \in DOMAIN req : req[r].route \notin Awaiting
      /\ UNCHANGED <<req, halts, timer, fetch, plate>>
      /\ Store(Created(m, a, ws))
  BY DEF Create, CreateFails, Inv, Untouched, Quiet, runnerVars
<1>2. e \in Event /\ e.kind = "assigned"
  BY ObjectiveConstantsOK DEF Fact, Event, Kinds, Someone
<1>3. /\ row' \in Row /\ row'.status = "active"
      /\ row'.assignee = a /\ row'.originator = m
  BY <1>1, ObjectiveConstantsOK DEF Store, Created, Row, Statuses, Someone
<1>4. log' = <<>> \o <<e>>
  BY <1>1 DEF Store, Created
<1>13. \/ outbox' = [i \in 1 .. Len(<<e>>) |-> Len(<<>>) + i]
          /\ UNCHANGED <<lost, excused>>
       \/ outbox' = <<>> /\ lost' = {1} /\ excused' = (excused \/ a = Self)
  <2>1. CASE Create(m, a, ws)
    BY <1>1, <2>1 DEF Create, Announce, Created, runnerVars
  <2>2. CASE CreateFails(m, a, ws)
    BY <1>1, <2>2 DEF CreateFails
  <2>3. QED
    BY <2>1, <2>2
<1>10. /\ e.who = a /\ e.also = others /\ row'.watchers = others /\ e.told = {}
       /\ Plain(e)
  <2>1. e.who = a /\ e.also = others /\ e.told = {}
    BY DEF Fact
  <2>2. row'.watchers = others
    BY <1>1 DEF Store, Created
  <2>3. Plain(e)
    BY PlainFact, ObjectiveConstantsOK
  <2>4. QED
    BY <2>1, <2>2, <2>3
<1> HIDE DEF e
<1>5. /\ log' \in Seq(Event) /\ Len(log') = 1 /\ log'[1] = e /\ 1 .. Len(log') = {1}
  BY <1>2, <1>4
<1>14. \/ /\ outbox' \in Seq(Nat \ {0}) /\ Len(outbox') = 1 /\ outbox'[1] = 1
          /\ UNCHANGED <<lost, excused>>
       \/ /\ outbox' \in Seq(Nat \ {0}) /\ 1 .. Len(outbox') = {} /\ lost' = {1}
          /\ excused' = (excused \/ a = Self)
  <2>1. CASE /\ outbox' = [i \in 1 .. Len(<<e>>) |-> Len(<<>>) + i]
             /\ UNCHANGED <<lost, excused>>
    BY <2>1
  <2>2. CASE outbox' = <<>> /\ lost' = {1} /\ excused' = (excused \/ a = Self)
    BY <2>2
  <2>3. QED
    BY <1>13, <2>1, <2>2
<1>6. TypeOK'
  <2>1. excused' \in BOOLEAN
    BY <1>1, <1>13, Zenon DEF TypeOK
  <2>2. lost' \in SUBSET (Nat \ {0})
    <3>1. lost' = lost \/ lost' = {1}
      BY <1>13
    <3>2. {1} \in SUBSET (Nat \ {0}) /\ lost \in SUBSET (Nat \ {0})
      BY <1>1 DEF TypeOK
    <3>3. QED
      BY <3>1, <3>2, Zenon
  <2>3. outbox' \in Seq(Nat \ {0})
    BY <1>14
  <2>4. QED
    BY <1>1, <1>3, <1>5, <2>1, <2>2, <2>3 DEF TypeOK
<1>7. Untouched' /\ EndInLog' /\ Holders'
  BY <1>1, <1>3 DEF Untouched, EndInLog, Holders, Terminal, Final, Awaiting
<1>8. Handovers' /\ OutboxInLog' /\ Silences'
  BY <1>2, <1>5, <1>14
  DEF Handovers, OutboxInLog, Silences, Explained, Positions, TakesFrom
<1>9. StoryTold' /\ LastWords'
  <2>1. log' = <<e>>
    BY <1>2, <1>4
  <2>2. Story(NoRow, [row |-> row', facts |-> <<e>>])
    BY <1>2, <1>3, <1>10, FirstStory
  <2>3. StoryTold'
    BY <1>5, <1>10, <2>1, <2>2 DEF StoryTold, Positions, Plain
  <2>4. QED
    BY <1>5, <1>10, <2>3 DEF LastWords, Positions
<1>11. Plates'
  <2>1. CASE Coming'
    BY <2>1 DEF Plates
  <2>2. CASE ~Coming'
    <3>1. a # Self /\ ~excused
      <4>1. a \in Thread(row', log'[1])
        BY <1>3, <1>5, ObjectiveConstantsOK DEF Thread
      <4>2. ~excused' /\ \A k \in 1 .. Len(outbox') : Self \notin Thread(row', log'[outbox'[k]])
        BY <2>2 DEF Coming, Thread
      <4>3. CASE Len(outbox') = 1 /\ outbox'[1] = 1 /\ UNCHANGED <<lost, excused>>
        <5>1. 1 \in 1 .. Len(outbox')
          BY <4>3
        <5>2. QED
          BY <4>1, <4>2, <4>3, <5>1, Zenon
      <4>4. CASE excused' = (excused \/ a = Self)
        BY <4>2, <4>4, Zenon
      <4>5. QED
        BY <1>14, <4>3, <4>4, Zenon
    <3>2. ~Coming
      BY <1>1, <2>2, <3>1, NoFacts DEF Coming
    <3>3. UNCHANGED runnerVars
      BY <1>1, <1>14, <3>1, <2>2 DEF runnerVars, Coming, TypeOK
    <3>4. \A l \in Lists : ~Listed(l) /\ ~Listed(l)'
      BY <1>1, <1>3, <3>1 DEF Listed, Lists
    <3>5. QED
      BY <3>2, <3>3, <3>4, PlatesStay
  <2>3. QED
    BY <2>1, <2>2
<1>12. QED
  BY <1>6, <1>7, <1>8, <1>9, <1>11 DEF Inv

LEMMA ReadsInv ==
    ASSUME Inv, NEW r \in 1 .. MaxRequests, NEW m \in Members, NEW route \in Awaiting,
           Reads(r, m, route), route = "complete" => m = row.assignee
    PROVE  Inv'
<1> DEFINE new == [route |-> route, actor |-> m, seen |-> row.assignee, at |-> Len(log)]
<1>1. /\ TypeOK /\ row.status # "none" /\ Len(log) \in Nat
      /\ req' = [req EXCEPT ![r] = new]
      /\ UNCHANGED <<row, log, outbox, halts, lost, runnerVars>>
  BY DEF Inv, TypeOK, Reads, storeVars
<1>2. new \in Request /\ new.actor = m /\ new.at = Len(log) /\ new.route = route
  BY <1>1 DEF TypeOK, Row, Request, Someone, Awaiting
<1> HIDE DEF new
<1>3. TypeOK'
  BY <1>1, <1>2 DEF TypeOK, runnerVars
<1>4. Holders'
  <2> SUFFICES ASSUME NEW q \in DOMAIN req, req'[q].route = "complete"
               PROVE  (req[q].at <= Len(log) /\ Held(req[q].actor, req[q].at))'
    BY <1>1 DEF Holders
  <2>1. CASE q = r
    <3>1. req'[q] = new
      BY <1>1, <2>1 DEF TypeOK
    <3>2. req'[q].at = Len(log) /\ req'[q].actor = row.assignee
      BY <1>2, <3>1
    <3>3. QED
      BY <1>1, <3>2 DEF Held
  <2>2. CASE q # r
    <3>1. req'[q] = req[q]
      BY <1>1, <2>2 DEF TypeOK
    <3>2. req[q].at <= Len(log) /\ Held(req[q].actor, req[q].at)
      BY <3>1 DEF Inv, Holders
    <3>3. QED
      BY <1>1, <3>1, <3>2 DEF Held
  <2>3. QED
    BY <2>1, <2>2
<1>5. QED
  BY <1>1, <1>3, <1>4, NothingStored, PlatesUntouched

(* What every route that has its body starts from.                         *)
LEMMA Arrived ==
    ASSUME Inv, NEW r \in 1 .. MaxRequests, req[r].route \in Awaiting
    PROVE  /\ Sound(row) /\ req[r].actor \in Members
           /\ Len(log) \in Nat /\ TypeOK
BY LenProperties DEF Inv, TypeOK, Untouched, Sound

LEMMA RefusedInv ==
    ASSUME Inv, NEW r \in 1 .. MaxRequests, req[r].route \in Awaiting, Over(r),
           UNCHANGED <<row, log, outbox, halts, lost, runnerVars>>
    PROVE  Inv'
<1>1. Sound(row) /\ Len(log) \in Nat /\ TypeOK
  BY Arrived
<1>2. /\ req' \in [1 .. MaxRequests -> Request] /\ DOMAIN req' = DOMAIN req
      /\ \A q \in DOMAIN req : req'[q].route \in Awaiting => req'[q] = req[q]
  BY <1>1, Overs, Zenon
<1>3. TypeOK'
  BY <1>1, <1>2 DEF TypeOK, runnerVars
<1>4. Holders'
  <2>1. \A m \in Someone, n \in Nat : n <= Len(log) /\ Held(m, n) => Held(m, n)'
    BY DEF Held
  <2>2. Len(log') \in Nat /\ Len(log) <= Len(log')
    BY <1>1
  <2>3. QED
    BY <1>1, <1>2, <2>1, <2>2, HoldersKept
<1>5. QED
  BY <1>1, <1>3, <1>4, NothingStored, PlatesUntouched DEF Sound

LEMMA EndInv ==
    ASSUME Inv, NEW r \in 1 .. MaxRequests, NEW route \in Awaiting, NEW status \in Final,
           End(r, route, status)
    PROVE  Inv'
<1>1. /\ Quiet /\ req[r].route \in Awaiting /\ Over(r)
      /\ UNCHANGED <<halts, lost, runnerVars>>
  BY DEF End
<1>2. Sound(row) /\ req[r].actor \in Members /\ TypeOK
  BY <1>1, Arrived
<1>3. CASE Terminal(row)
  BY <1>1, <1>3, RefusedInv DEF End, storeVars
<1>4. CASE ~Terminal(row)
  <2> DEFINE res == Ended(row, status, req[r].actor)
  <2>1. Change(row, res) /\ Store(res) /\ Announce(res)
    BY <1>2, <1>4, EndedChanges DEF End
  <2>2. /\ req' \in [1 .. MaxRequests -> Request] /\ DOMAIN req' = DOMAIN req
        /\ \A q \in DOMAIN req : req'[q].route \in Awaiting => req'[q] = req[q]
    BY <1>1, <1>2, Overs, Zenon
  <2> HIDE DEF res
  <2>3. QED
    BY <1>1, <2>1, <2>2, StoredAndAnnounced
<1>5. QED
  BY <1>3, <1>4

(* What a PATCH makes of the objective when it refuses nothing, and when   *)
(* it refuses the status.                                                  *)
LEMMA PatchChanges ==
    ASSUME Inv, NEW r \in 1 .. MaxRequests, NEW to \in Someone, NEW add \in Someone,
           NEW remove \in Someone, NEW status \in {"none"} \cup Lists,
           Patch(r, to, add, remove, status)
    PROVE  /\ Quiet /\ req[r].route \in Awaiting /\ Over(r)
           /\ UNCHANGED <<halts, lost, runnerVars>>
           /\ \/ UNCHANGED <<storeVars, outbox>>
              \/ \E res : /\ Terminal(row) /\ Change(row, res) /\ Store(res)
                          /\ UNCHANGED outbox
              \/ \E res : /\ Change(row, res) /\ Store(res) /\ Announce(res)
                          /\ ~Terminal(row) => res.row.status # "done"
<1> DEFINE actor == req[r].actor
           moved == Moves(r, to)
           first == IF moved THEN Reassigned(row, to, actor) ELSE Nothing(row)
           second == Watched(first.row, add, remove, actor)
           third == IF status = "none" THEN Nothing(second.row)
                      ELSE Updated(second.row, status, actor)
           all == [row |-> third.row,
                   facts |-> first.facts \o second.facts \o third.facts]
<1>1. /\ Quiet /\ req[r].route \in Awaiting /\ Over(r)
      /\ UNCHANGED <<halts, lost, runnerVars>>
  BY DEF Patch, Awaiting
<1>2. Sound(row) /\ actor \in Members /\ TypeOK
  BY <1>1, Arrived
<1>3. \/ UNCHANGED <<storeVars, outbox>>
      \/ /\ ~moved /\ status # "none" /\ Terminal(row)
         /\ Store(second) /\ UNCHANGED outbox
      \/ /\ moved => ~Terminal(row) /\ to # row.assignee
         /\ status # "none" => ~Terminal(row)
         /\ Store(all) /\ Announce(all)
  BY DEF Patch
<1>4. CASE /\ ~moved /\ Terminal(row) /\ Store(second) /\ UNCHANGED outbox
  <2>1. second = Watched(row, add, remove, actor)
    BY <1>4 DEF Nothing
  <2>2. Change(row, second)
    BY <1>2, <2>1, WatchedChanges, Zenon
  <2>3. QED
    BY <1>1, <1>4, <2>2
<1>5. CASE /\ moved => ~Terminal(row) /\ to # row.assignee
           /\ status # "none" => ~Terminal(row)
           /\ Store(all) /\ Announce(all)
  <2>1. Change(row, first) /\ first.row.status = row.status
    <3>1. CASE moved
      <4>1. to \in Members
        BY <3>1 DEF Moves, Someone
      <4>2. Change(row, Reassigned(row, to, actor))
        BY <1>2, <1>5, <3>1, <4>1, ReassignedChanges
      <4>3. Reassigned(row, to, actor).row.status = row.status
        BY <1>2 DEF Reassigned, Sound, Row
      <4>4. QED
        BY <3>1, <4>2, <4>3
    <3>2. CASE ~moved
      <4>1. Change(row, Nothing(row)) /\ Nothing(row).row.status = row.status
        BY <1>2, NothingChanges DEF Nothing
      <4>2. QED
        BY <3>2, <4>1
    <3>3. QED
      BY <3>1, <3>2
  <2> HIDE DEF moved, first
  <2>2. Sound(first.row)
    BY <2>1 DEF Change, Typed
  <2>3. Change(first.row, second) /\ second.row.status = first.row.status
    <3>1. Change(first.row, second)
      BY <1>2, <2>2, WatchedChanges, Zenon
    <3>2. QED
      BY <2>2, <3>1 DEF Watched, Sound, Row
  <2> HIDE DEF second
  <2>4. Sound(second.row)
    BY <2>3 DEF Change, Typed
  <2>5. Change(second.row, third) /\ (~Terminal(row) => third.row.status # "done")
    <3>1. CASE status = "none"
      <4>1. Change(second.row, Nothing(second.row)) /\ Nothing(second.row).row = second.row
        BY <2>4, NothingChanges DEF Nothing
      <4>2. QED
        BY <2>1, <2>3, <3>1, <4>1 DEF Terminal, Final
    <3>2. CASE status # "none"
      <4>1. status \in Lists /\ ~Terminal(second.row)
        BY <1>5, <2>1, <2>3, <3>2 DEF Terminal
      <4>2. Change(second.row, Updated(second.row, status, actor))
        BY <1>2, <2>4, <4>1, UpdatedChanges
      <4>3. Updated(second.row, status, actor).row.status = status
        BY <2>4 DEF Updated, Sound, Row
      <4>4. QED
        BY <3>2, <4>1, <4>2, <4>3 DEF Lists
    <3>3. QED
      BY <3>1, <3>2
  <2> HIDE DEF third, actor
  <2>6. Change(row, Then(first, second)) /\ row \in Row
    BY <1>2, <2>1, <2>3, Compose DEF Sound
  <2>7. Then(first, second).row = second.row
    BY DEF Then
  <2>8. Change(row, Then(Then(first, second), third))
    BY <2>5, <2>6, <2>7, Compose
  <2>9. Then(Then(first, second), third) = all
    BY DEF Then
  <2>10. all.row = third.row
    OBVIOUS
  <2> HIDE DEF all
  <2>11. QED
    BY <1>1, <1>5, <2>5, <2>8, <2>9, <2>10
<1>6. QED
  BY <1>1, <1>3, <1>4, <1>5

LEMMA PatchInv ==
    ASSUME Inv, NEW r \in 1 .. MaxRequests, NEW to \in Someone, NEW add \in Someone,
           NEW remove \in Someone, NEW status \in {"none"} \cup Lists,
           Patch(r, to, add, remove, status)
    PROVE  Inv'
<1>1. /\ Quiet /\ req[r].route \in Awaiting /\ Over(r)
      /\ UNCHANGED <<halts, lost, runnerVars>>
      /\ \/ UNCHANGED <<storeVars, outbox>>
         \/ \E res : /\ Terminal(row) /\ Change(row, res) /\ Store(res)
                     /\ UNCHANGED outbox
         \/ \E res : /\ Change(row, res) /\ Store(res) /\ Announce(res)
                     /\ ~Terminal(row) => res.row.status # "done"
  BY PatchChanges, Zenon
<1>2. TypeOK
  BY DEF Inv
<1>3. /\ req' \in [1 .. MaxRequests -> Request] /\ DOMAIN req' = DOMAIN req
      /\ \A q \in DOMAIN req : req'[q].route \in Awaiting => req'[q] = req[q]
  BY <1>1, <1>2, Overs, Zenon
<1>4. CASE UNCHANGED <<storeVars, outbox>>
  BY <1>1, <1>4, RefusedInv DEF storeVars
<1>5. CASE \E res : Terminal(row) /\ Change(row, res) /\ Store(res) /\ UNCHANGED outbox
  BY <1>1, <1>3, <1>5, StoredInSilence
<1>6. CASE \E res : Change(row, res) /\ Store(res) /\ Announce(res)
  BY <1>1, <1>3, <1>6, StoredAndAnnounced
<1>7. QED
  BY <1>1, <1>4, <1>5, <1>6

(* Publication tells someone, if only the actor, and changes nothing else. *)
LEMMA Published ==
    ASSUME Inv, Publish
    PROVE  \E i \in Positions, told \in SUBSET Members :
             /\ i = Head(outbox) /\ told # {}
             /\ log' = [log EXCEPT ![i].told = told]
<1> DEFINE i == Head(outbox)
           told == Thread(row, log[i]) \cup {log[i].actor}
<1>1. /\ outbox # <<>> /\ TypeOK /\ row.status # "none"
  BY DEF Publish, Inv, Untouched
<1>2. outbox \in Seq(Nat \ {0}) /\ 1 \in 1 .. Len(outbox) /\ i = outbox[1]
  BY <1>1 DEF TypeOK
<1>3. i \in Positions
  BY <1>2 DEF Inv, OutboxInLog
<1>4. log[i] \in Event
  BY <1>1, <1>3 DEF TypeOK, Positions
<1>5. told \in SUBSET Members /\ told # {}
  <2>1. /\ Thread(row, log[i]) \subseteq Members
        /\ log[i].actor \in Members
    BY <1>1, <1>4, ObjectiveConstantsOK DEF TypeOK, Thread, Row, Event, Someone
  <2>2. QED
    BY <2>1
<1>6. log' = [log EXCEPT ![i].told = told]
  BY DEF Publish
<1> HIDE DEF i, told
<1>7. QED
  BY <1>3, <1>5, <1>6 DEF i

LEMMA PublishKeepsLog ==
    ASSUME Inv, Publish
    PROVE  /\ log' \in Seq(Event) /\ Len(log') = Len(log) /\ Len(log) \in Nat
           /\ log'[Head(outbox)].told # {}
           /\ \A i \in Positions :
                /\ log'[i].kind = log[i].kind /\ log'[i].who = log[i].who
                /\ log'[i].from = log[i].from
                /\ i # Head(outbox) => log'[i].told = log[i].told
<1>1. PICK i \in Positions, told \in SUBSET Members :
        i = Head(outbox) /\ told # {} /\ log' = [log EXCEPT ![i].told = told]
  BY Published
<1>2. log \in Seq(Event) /\ Len(log) \in Nat /\ \A k \in Positions : log[k] \in Event
  BY DEF Inv, TypeOK, Positions
<1>3. [log[i] EXCEPT !.told = told] \in Event
  BY <1>1, <1>2 DEF Event
<1>4. log' = [log EXCEPT ![i] = [log[i] EXCEPT !.told = told]]
  BY <1>1
<1>5. log' \in Seq(Event) /\ Len(log') = Len(log)
  BY <1>2, <1>3, <1>4 DEF Positions
<1>6. log'[i] = [log[i] EXCEPT !.told = told]
      /\ \A k \in Positions : k # i => log'[k] = log[k]
  BY <1>2, <1>4 DEF Positions
<1>7. QED
  BY <1>1, <1>2, <1>5, <1>6 DEF Event

(* Whom the latest event about a member names is in the thread.            *)
LEMMA NamedAreInThread ==
    ASSUME Inv, row.status # "none", NEW i \in Positions, NEW m \in Members,
           Names(log[i], m), \A j \in i + 1 .. Len(log) : ~Names(log[j], m)
    PROVE  m \in Thread(row, log[i])
<1>1. /\ TypeOK /\ log[i] \in Event /\ Plain(log[i]) /\ m # Nobody
      /\ row \in Row
  BY ObjectiveConstantsOK DEF Inv, TypeOK, StoryTold, Positions
<1>2. /\ Follows(log, Gives(m), Takes(m), HeldBy(m), NoRow, row)
      /\ Follows(log, Adds(m), Drops(m), WatchedBy(m), NoRow, row)
  BY DEF Inv, StoryTold, Story
<1>3. \A j \in i + 1 .. Len(log) : log[j] \notin Takes(m) /\ log[j] \notin Drops(m)
  BY DEF Takes, TakesFrom, Drops, Removes, Names
<1>4. log[i] \in Gives(m) => m = row.assignee
  <2> SUFFICES ASSUME log[i] \in Gives(m) PROVE m = row.assignee
    OBVIOUS
  <2>1. row \in HeldBy(m)
    BY <1>2, <1>3, Zenon DEF Follows, Positions
  <2>2. QED
    BY <2>1 DEF HeldBy
<1>5. log[i] \in Adds(m) => m \in row.watchers
  <2> SUFFICES ASSUME log[i] \in Adds(m) PROVE m \in row.watchers
    OBVIOUS
  <2>1. row \in WatchedBy(m)
    BY <1>2, <1>3, Zenon DEF Follows, Positions
  <2>2. QED
    BY <2>1 DEF WatchedBy
<1>6. CASE m = log[i].from
  BY <1>1, <1>6 DEF Plain, Thread
<1>7. CASE m = log[i].who
  <2>1. log[i].kind \in {"assigned", "reassigned", "watcher_added", "watcher_removed"}
    BY <1>1, <1>7 DEF Plain
  <2>2. CASE log[i].kind \in {"assigned", "reassigned"}
    <3>1. log[i] \in Gives(m)
      BY <1>1, <1>7, <2>2 DEF Gives
    <3>2. QED
      BY <1>1, <1>4, <3>1 DEF Thread
  <2>3. CASE log[i].kind = "watcher_added"
    <3>1. log[i] \in Adds(m)
      BY <1>1, <1>7, <2>3 DEF Adds
    <3>2. QED
      BY <1>1, <1>5, <3>1 DEF Thread
  <2>4. CASE log[i].kind = "watcher_removed"
    BY <1>1, <1>7, <2>4 DEF Thread
  <2>5. QED
    BY <2>1, <2>2, <2>3, <2>4
<1>8. CASE m \in log[i].also
  <2>1. log[i].kind = "assigned"
    BY <1>1, <1>8 DEF Plain
  <2>2. log[i] \in Adds(m)
    BY <1>1, <1>8, <2>1 DEF Adds
  <2>3. QED
    BY <1>1, <1>5, <2>2 DEF Thread
<1>9. QED
  BY <1>6, <1>7, <1>8 DEF Names

(* What publication writes into the log.                                   *)
LEMMA PublishWrites ==
    ASSUME Inv, Publish
    PROVE  /\ Head(outbox) \in Positions /\ log' \in Seq(Event) /\ Len(log') = Len(log)
           /\ Len(log) \in Nat
           /\ \A i \in Positions : i # Head(outbox) => log'[i] = log[i]
           /\ \A i \in Positions :
                /\ log[i] \in Event /\ log'[i] \in Event
                /\ log'[i].kind = log[i].kind /\ log'[i].who = log[i].who
                /\ log'[i].from = log[i].from /\ log'[i].also = log[i].also
           /\ log'[Head(outbox)].told
                = Thread(row, log[Head(outbox)]) \cup {log[Head(outbox)].actor}
<1> DEFINE i == Head(outbox)
           told == Thread(row, log[i]) \cup {log[i].actor}
<1>1. /\ log \in Seq(Event) /\ Len(log) \in Nat /\ \A k \in Positions : log[k] \in Event
  BY LenProperties DEF Inv, TypeOK, Positions
<1>2. PICK n \in Positions, t \in SUBSET Members :
        n = i /\ t # {} /\ log' = [log EXCEPT ![n].told = t]
  BY Published
<1>3. log' = [log EXCEPT ![i].told = told] /\ i \in Positions
  BY <1>2 DEF Publish
<1>4. /\ told \in SUBSET Members
  <2>1. row.status # "none" /\ row \in Row
    BY DEF Publish, Inv, Untouched, TypeOK
  <2>2. row.assignee \in Someone /\ row.originator \in Someone /\ row.watchers \in SUBSET Members
    BY <2>1 DEF Row
  <2>3. log[i] \in Event
    BY <1>1, <1>3
  <2>4. Thread(row, log[i]) \subseteq Members /\ log[i].actor \in Members
    BY <2>2, <2>3, ObjectiveConstantsOK DEF Thread, Event, Someone
  <2>5. QED
    BY <2>4
<1> HIDE DEF i, told
<1>5. [log[i] EXCEPT !.told = told] \in Event
  BY <1>1, <1>3, <1>4 DEF Event
<1>6. log' = [log EXCEPT ![i] = [log[i] EXCEPT !.told = told]]
  BY <1>3
<1>7. log' \in Seq(Event) /\ Len(log') = Len(log)
  BY <1>1, <1>3, <1>5, <1>6 DEF Positions
<1>8. log'[i] = [log[i] EXCEPT !.told = told]
      /\ \A k \in Positions : k # i => log'[k] = log[k]
  BY <1>1, <1>3, <1>6 DEF Positions
<1>9. /\ log'[i].told = told /\ log'[i].kind = log[i].kind /\ log'[i].who = log[i].who
      /\ log'[i].from = log[i].from /\ log'[i].also = log[i].also
  BY <1>1, <1>3, <1>8 DEF Event
<1>10. ASSUME NEW k \in Positions
       PROVE  /\ log[k] \in Event /\ log'[k] \in Event
              /\ log'[k].kind = log[k].kind /\ log'[k].who = log[k].who
              /\ log'[k].from = log[k].from /\ log'[k].also = log[k].also
  <2>1. CASE k = i
    BY <1>1, <1>5, <1>8, <1>9, <2>1
  <2>2. CASE k # i
    BY <1>1, <1>8, <2>2
  <2>3. QED
    BY <2>1, <2>2
<1>11. QED
  BY <1>1, <1>3, <1>7, <1>8, <1>9, <1>10, Zenon DEF i, told

(* An event that says the same counts the same.                            *)
LEMMA FollowsSame ==
    ASSUME NEW f, NEW g, Len(g) = Len(f), Len(f) \in Nat, NEW On, NEW Off, NEW S,
           NEW o, NEW p, Follows(f, On, Off, S, o, p),
           \A i \in 1 .. Len(f) :
             (g[i] \in On <=> f[i] \in On) /\ (g[i] \in Off <=> f[i] \in Off)
    PROVE  Follows(g, On, Off, S, o, p)
<1>1. \A i \in 1 .. Len(f) : \A j \in i + 1 .. Len(f) : j \in 1 .. Len(f)
  OBVIOUS
<1>2. ASSUME NEW i \in 1 .. Len(g), g[i] \in On, \A j \in i + 1 .. Len(g) : g[j] \notin Off
      PROVE  p \in S
  BY <1>1, <1>2 DEF Follows
<1>3. ASSUME o \in S, \A j \in 1 .. Len(g) : g[j] \notin Off
      PROVE  p \in S
  BY <1>3 DEF Follows
<1>4. QED
  BY <1>2, <1>3 DEF Follows

(* The first event of the outbox is done with: pushed, or dropped.         *)
LEMMA PlatesPassOn ==
    ASSUME Inv, outbox # <<>>, outbox' = Tail(outbox), UNCHANGED <<row, fetch, plate>>,
           timer' \/ excused'
             <=> timer \/ excused \/ Self \in Thread(row, log[Head(outbox)])
                                            \cup {log[Head(outbox)].actor},
           \A i \in Positions :
             /\ log'[i].kind = log[i].kind /\ log'[i].who = log[i].who
             /\ log'[i].from = log[i].from
    PROVE  Plates'
<1>1. CASE Coming'
  BY <1>1 DEF Plates
<1>2. CASE ~Coming'
  <2>1. ~timer /\ ~excused /\ Self \notin Thread(row, log[Head(outbox)])
    BY <1>2 DEF Coming
  <2>2. /\ Len(outbox) \in Nat /\ Len(outbox') = Len(outbox) - 1
        /\ \A k \in 1 .. Len(outbox') : outbox'[k] = outbox[k + 1]
        /\ outbox[1] = Head(outbox)
    BY HeadTailProperties DEF Inv, TypeOK
  <2>3. ASSUME NEW k \in 1 .. Len(outbox), Self \in Thread(row, log[outbox[k]])
        PROVE  FALSE
    <3>1. k # 1
      BY <2>1, <2>2, <2>3
    <3>2. k - 1 \in 1 .. Len(outbox') /\ (k - 1) + 1 = k
      BY <2>2, <3>1
    <3>3. outbox'[k - 1] = outbox[k]
      BY <2>2, <3>2
    <3>4. outbox[k] \in Positions
      BY DEF Inv, OutboxInLog
    <3>5. Thread(row, log'[outbox[k]]) = Thread(row, log[outbox[k]])
      BY <3>4 DEF Thread
    <3>6. Self \in Thread(row', log'[outbox'[k - 1]])
      BY <2>3, <3>3, <3>5
    <3>7. QED
      BY <1>2, <3>2, <3>6 DEF Coming, Thread
  <2>4. ~Coming
    BY <2>1, <2>3 DEF Coming
  <2>5. \A l \in Lists : Listed(l)' <=> Listed(l)
    BY DEF Listed
  <2>6. QED
    BY <2>4, <2>5 DEF Inv, Plates
<1>3. QED
  BY <1>1, <1>2

LEMMA SilencePassesOn ==
    ASSUME Inv, outbox # <<>>, outbox' = Tail(outbox), Len(log) \in Nat,
           Len(log') = Len(log), lost \subseteq lost',
           log'[Head(outbox)].told # {} \/ Head(outbox) \in lost',
           \A i \in Positions :
             /\ log'[i].kind = log[i].kind
             /\ i # Head(outbox) => log'[i].told = log[i].told
    PROVE  outbox' \in Seq(Nat \ {0}) /\ OutboxInLog' /\ Silences'
<1>1. /\ outbox' \in Seq(Nat \ {0}) /\ Len(outbox) \in Nat
      /\ Len(outbox') = Len(outbox) - 1
      /\ \A k \in 1 .. Len(outbox') : outbox'[k] = outbox[k + 1]
      /\ outbox[1] = Head(outbox)
  BY HeadTailProperties DEF Inv, TypeOK
<1>2. OutboxInLog'
  <2>1. \A k \in 1 .. Len(outbox') : k + 1 \in 1 .. Len(outbox)
    BY <1>1
  <2>2. QED
    BY <1>1, <2>1 DEF Inv, OutboxInLog, Positions
<1>3. Silences'
  <2> SUFFICES ASSUME NEW i \in Positions, log'[i].told = {}
               PROVE  Explained(i)'
    BY DEF Silences, Positions
  <2>1. CASE i = Head(outbox)
    BY <2>1 DEF Explained
  <2>2. CASE i # Head(outbox)
    <3>1. Explained(i)
      BY <2>2 DEF Inv, Silences
    <3>2. CASE \E k \in 1 .. Len(outbox) : outbox[k] = i
      <4>1. PICK k \in 1 .. Len(outbox) : outbox[k] = i
        BY <3>2
      <4>2. k # 1
        BY <1>1, <2>2, <4>1
      <4>3. k - 1 \in 1 .. Len(outbox') /\ (k - 1) + 1 = k
        BY <1>1, <4>1, <4>2
      <4>4. outbox'[k - 1] = i
        BY <1>1, <4>1, <4>3
      <4>5. QED
        BY <4>3, <4>4 DEF Explained
    <3>3. CASE i \in lost
      BY <3>3 DEF Explained
    <3>4. CASE /\ log[i].kind \in {"watcher_added", "watcher_removed"}
               /\ \E j \in Positions : log[j].kind \in {"completed", "cancelled"} /\ j < i
      BY <3>4 DEF Explained, Positions
    <3>5. QED
      BY <3>1, <3>2, <3>3, <3>4 DEF Explained
  <2>3. QED
    BY <2>1, <2>2
<1>4. QED
  BY <1>1, <1>2, <1>3

LEMMA PublishTells ==
    ASSUME Inv, Publish
    PROVE  StoryTold' /\ LastWords' /\ Plates'
<1>1. /\ Head(outbox) \in Positions /\ log' \in Seq(Event) /\ Len(log') = Len(log)
      /\ Len(log) \in Nat
      /\ \A i \in Positions : i # Head(outbox) => log'[i] = log[i]
      /\ \A i \in Positions :
           /\ log[i] \in Event /\ log'[i] \in Event
           /\ log'[i].kind = log[i].kind /\ log'[i].who = log[i].who
           /\ log'[i].from = log[i].from /\ log'[i].also = log[i].also
      /\ log'[Head(outbox)].told
           = Thread(row, log[Head(outbox)]) \cup {log[Head(outbox)].actor}
  BY PublishWrites, Zenon
<1>2. /\ row' = row /\ UNCHANGED <<fetch, plate, excused>> /\ row.status # "none"
      /\ outbox' = Tail(outbox) /\ outbox # <<>>
      /\ timer' = (timer \/ Self \in Thread(row, log[Head(outbox)])
                              \cup {log[Head(outbox)].actor})
  BY DEF Publish, Inv, Untouched
<1>3. \A i \in 1 .. Len(log) :
        /\ \A m \in Members :
             /\ log'[i] \in Gives(m) <=> log[i] \in Gives(m)
             /\ log'[i] \in Takes(m) <=> log[i] \in Takes(m)
             /\ log'[i] \in Adds(m) <=> log[i] \in Adds(m)
             /\ log'[i] \in Drops(m) <=> log[i] \in Drops(m)
        /\ \A s \in Statuses :
             /\ log'[i] \in Sets(s) <=> log[i] \in Sets(s)
             /\ log'[i] \in Resets(s) <=> log[i] \in Resets(s)
  <2> SUFFICES ASSUME NEW i \in 1 .. Len(log)
               PROVE  /\ \A m \in Members :
                           /\ log'[i] \in Gives(m) <=> log[i] \in Gives(m)
                           /\ log'[i] \in Takes(m) <=> log[i] \in Takes(m)
                           /\ log'[i] \in Adds(m) <=> log[i] \in Adds(m)
                           /\ log'[i] \in Drops(m) <=> log[i] \in Drops(m)
                      /\ \A s \in Statuses :
                           /\ log'[i] \in Sets(s) <=> log[i] \in Sets(s)
                           /\ log'[i] \in Resets(s) <=> log[i] \in Resets(s)
    OBVIOUS
  <2>1. /\ log[i] \in Event /\ log'[i] \in Event
        /\ log'[i].kind = log[i].kind /\ log'[i].who = log[i].who
        /\ log'[i].from = log[i].from /\ log'[i].also = log[i].also
    BY <1>1 DEF Positions
  <2>2. QED
    BY <2>1 DEF Gives, Takes, TakesFrom, Adds, Drops, Removes, Sets, Resets
<1>4. StoryTold'
  <2>1. /\ \A m \in Members :
             /\ Follows(log, Gives(m), Takes(m), HeldBy(m), NoRow, row)
             /\ Follows(log, Adds(m), Drops(m), WatchedBy(m), NoRow, row)
             /\ Follows(log, Drops(m), Adds(m), UnwatchedBy(m), NoRow, row)
        /\ \A s \in Statuses : Follows(log, Sets(s), Resets(s), Standing(s), NoRow, row)
        /\ \A i \in Positions : Plain(log[i])
    BY DEF Inv, StoryTold, Story
  <2>2. ASSUME NEW m \in Members
        PROVE  /\ Follows(log', Gives(m), Takes(m), HeldBy(m), NoRow, row)
               /\ Follows(log', Adds(m), Drops(m), WatchedBy(m), NoRow, row)
               /\ Follows(log', Drops(m), Adds(m), UnwatchedBy(m), NoRow, row)
    BY <1>1, <1>3, <2>1, FollowsSame, Zenon
  <2>3. ASSUME NEW s \in Statuses
        PROVE  Follows(log', Sets(s), Resets(s), Standing(s), NoRow, row)
    BY <1>1, <1>3, <2>1, FollowsSame, Zenon
  <2>4. \A i \in Positions : Plain(log'[i])
    BY <1>1, <2>1 DEF Plain
  <2>5. Story(NoRow, [row |-> row, facts |-> log'])
    BY <2>2, <2>3, Zenon DEF Story
  <2>6. QED
    BY <1>1, <1>2, <2>4, <2>5 DEF StoryTold, Positions, Plain
<1>5. LastWords'
  <2> SUFFICES ASSUME NEW i \in Positions, NEW m \in Members,
                      log'[i].told # {}, Names(log'[i], m),
                      \A j \in i + 1 .. Len(log) : ~Names(log'[j], m)
               PROVE  m \in log'[i].told
    BY <1>1 DEF LastWords, Positions, Names
  <2>1. \A j \in i + 1 .. Len(log) : j \in Positions
    BY <1>1 DEF Positions
  <2>2. Names(log[i], m) /\ \A j \in i + 1 .. Len(log) : ~Names(log[j], m)
    BY <1>1, <2>1 DEF Names
  <2>3. CASE i = Head(outbox)
    <3>1. m \in Thread(row, log[i])
      BY <1>2, <2>2, NamedAreInThread
    <3>2. QED
      BY <1>1, <2>3, <3>1
  <2>4. CASE i # Head(outbox)
    BY <1>1, <2>2, <2>4 DEF Inv, LastWords
  <2>5. QED
    BY <2>3, <2>4
<1>6. Plates'
  <2>1. timer' \/ excused'
          <=> timer \/ excused \/ Self \in Thread(row, log[Head(outbox)])
                                         \cup {log[Head(outbox)].actor}
    BY <1>2
  <2>2. QED
    BY <1>1, <1>2, <2>1, PlatesPassOn
<1>7. QED
  BY <1>4, <1>5, <1>6

LEMMA PublishInv == Inv /\ Publish => Inv'
<1> SUFFICES ASSUME Inv, Publish PROVE Inv'
  OBVIOUS
<1>1. /\ log' \in Seq(Event) /\ Len(log') = Len(log) /\ Len(log) \in Nat
      /\ log'[Head(outbox)].told # {}
      /\ \A i \in Positions :
           /\ log'[i].kind = log[i].kind /\ log'[i].who = log[i].who
           /\ log'[i].from = log[i].from
           /\ i # Head(outbox) => log'[i].told = log[i].told
  BY PublishKeepsLog, Zenon
<1>2. /\ outbox \in Seq(Nat \ {0}) /\ outbox # <<>> /\ outbox' = Tail(outbox)
      /\ UNCHANGED <<row, req, halts, lost, fetch, plate, excused>>
      /\ timer' \in BOOLEAN /\ row.status # "none"
  BY DEF Inv, TypeOK, Publish, Untouched
<1>3. outbox' \in Seq(Nat \ {0}) /\ OutboxInLog' /\ Silences'
  BY <1>1, <1>2, SilencePassesOn
<1>4. TypeOK'
  BY <1>1, <1>2, <1>3 DEF Inv, TypeOK
<1>5. Untouched'
  BY <1>2 DEF Untouched
<1>6. Handovers' /\ EndInLog'
  <2>1. \A i \in Positions, m \in Someone : TakesFrom(log[i], m) <=> TakesFrom(log'[i], m)
    BY <1>1 DEF TakesFrom
  <2>2. \A i \in Positions, m \in Someone : Removes(log[i], m) <=> Removes(log'[i], m)
    BY <1>1 DEF Removes
  <2>3. \A i \in Positions : \A j \in i + 1 .. Len(log) : j \in Positions
    BY <1>1 DEF Positions
  <2>4. Handovers'
    BY <1>1, <1>2, <2>1, <2>2, <2>3 DEF Inv, Handovers, Positions
  <2>5. EndInLog'
    BY <1>1, <1>2 DEF Inv, EndInLog, Positions
  <2>6. QED
    BY <2>4, <2>5
<1>7. Holders'
  <2>1. ASSUME NEW m \in Someone, NEW n \in Nat, Held(m, n)
        PROVE  Held(m, n)'
    <3>1. \A k \in n + 1 .. Len(log) : k \in Positions
      BY <1>1 DEF Positions
    <3>2. \A k \in n + 1 .. Len(log) : TakesFrom(log[k], m) => TakesFrom(log'[k], m)
      BY <1>1, <3>1 DEF TakesFrom
    <3>3. QED
      BY <1>1, <1>2, <2>1, <3>2 DEF Held
  <2>2. QED
    BY <1>1, <1>2, <2>1, HoldersKept
<1>8. StoryTold' /\ LastWords' /\ Plates'
  BY PublishTells
<1>9. QED
  BY <1>3, <1>4, <1>5, <1>6, <1>7, <1>8 DEF Inv

LEMMA PublishFailsInv == Inv /\ PublishFails => Inv'
<1> SUFFICES ASSUME Inv, PublishFails PROVE Inv'
  OBVIOUS
<1>1. /\ TypeOK /\ UNCHANGED <<row, log, req, halts, timer, fetch, plate>>
      /\ outbox # <<>> /\ outbox' = Tail(outbox) /\ lost' = lost \cup {Head(outbox)}
      /\ row.status # "none" /\ Len(log) \in Nat
  BY LenProperties DEF Inv, TypeOK, PublishFails, storeVars, Untouched
<1>2. excused' = (excused \/ Self \in Thread(row, log[Head(outbox)])
                                   \cup {log[Head(outbox)].actor})
  BY DEF PublishFails
<1>3. Head(outbox) \in Nat \ {0}
  BY <1>1, HeadTailProperties DEF TypeOK
<1>4. outbox' \in Seq(Nat \ {0}) /\ OutboxInLog' /\ Silences'
  BY <1>1, SilencePassesOn
<1>5. TypeOK'
  <2>1. excused' \in BOOLEAN /\ lost' \in SUBSET (Nat \ {0})
    BY <1>1, <1>2, <1>3 DEF TypeOK
  <2>2. QED
    BY <1>1, <1>4, <2>1 DEF TypeOK
<1>6. Untouched' /\ Handovers' /\ EndInLog' /\ Holders'
  BY <1>1 DEF Inv, Untouched, Handovers, EndInLog, Holders, Held, Positions
<1>7. StoryTold' /\ LastWords'
  BY <1>1 DEF Inv, StoryTold, LastWords, Positions, Story, Follows, Plain, Names
<1>8. Plates'
  BY <1>1, <1>2, PlatesPassOn
<1>9. QED
  BY <1>4, <1>5, <1>6, <1>7, <1>8 DEF Inv

LEMMA HaltInv == Inv /\ Halt => Inv'
<1> SUFFICES ASSUME Inv, Halt PROVE Inv'
  OBVIOUS
<1>1. /\ TypeOK /\ UNCHANGED <<row, log, timer, plate>> /\ outbox' = <<>>
      /\ halts < MaxHalts /\ halts' = halts + 1 /\ excused' = TRUE
      /\ lost' = lost \cup {outbox[k] : k \in DOMAIN outbox}
      /\ fetch' \in {Unasked, fetch} /\ row.status # "none"
  BY DEF Inv, Halt, storeVars, Untouched
<1>2. [NoRequest EXCEPT !.route = "over"] \in Request
      /\ [NoRequest EXCEPT !.route = "over"].route \notin Awaiting
  BY DEF NoRequest, Request, Someone, Awaiting
<1>3. /\ req' \in [1 .. MaxRequests -> Request]
      /\ \A r \in DOMAIN req' : req'[r].route \notin Awaiting
  BY <1>1, <1>2 DEF Halt, TypeOK, Awaiting
<1>4. /\ halts' \in 0 .. MaxHalts /\ lost' \in SUBSET (Nat \ {0})
      /\ DOMAIN outbox = 1 .. Len(outbox)
  <2>1. halts' \in 0 .. MaxHalts
    BY <1>1, ObjectiveConstantsOK DEF TypeOK
  <2>2. /\ DOMAIN outbox = 1 .. Len(outbox)
        /\ \A k \in 1 .. Len(outbox) : outbox[k] \in Nat \ {0}
    BY <1>1 DEF TypeOK
  <2>3. lost \in SUBSET (Nat \ {0})
    BY <1>1 DEF TypeOK
  <2>4. lost' \in SUBSET (Nat \ {0})
    BY <1>1, <2>2, <2>3, Zenon
  <2>5. QED
    BY <2>1, <2>2, <2>4
<1>5. outbox' \in Seq(Nat \ {0}) /\ 1 .. Len(outbox') = {}
  BY <1>1
<1>6. Unasked \in [Lists -> Answers]
  BY DEF Unasked, Answers
<1>7. TypeOK'
  BY <1>1, <1>3, <1>4, <1>5, <1>6 DEF TypeOK
<1>8. Untouched' /\ Handovers' /\ EndInLog' /\ Holders'
  BY <1>1, <1>3 DEF Inv, Untouched, Handovers, EndInLog, Holders, Positions, Awaiting
<1>9. OutboxInLog' /\ Silences'
  <2>1. ASSUME NEW i \in Positions, Explained(i) PROVE Explained(i)'
    BY <1>1, <1>4, <2>1 DEF Explained, Positions
  <2>2. QED
    BY <1>1, <1>5, <2>1 DEF Inv, OutboxInLog, Silences, Positions
<1>10. StoryTold' /\ LastWords'
  BY <1>1 DEF Inv, StoryTold, LastWords, Positions, Story, Follows, Plain, Names
<1>11. Plates'
  BY <1>1 DEF Plates, Coming
<1>12. QED
  BY <1>7, <1>8, <1>9, <1>10, <1>11 DEF Inv

(* The runner's tracker touches nothing the invariant is about but types.  *)
LEMMA TrackerInv ==
    ASSUME Inv, UNCHANGED <<storeVars, req, outbox, halts, lost>>,
           timer' \in BOOLEAN, fetch' \in [Lists -> Answers],
           plate' \in BOOLEAN, excused' \in BOOLEAN, Plates'
    PROVE  Inv'
<1>1. TypeOK' /\ UNCHANGED <<row, log, req, outbox, halts, lost>>
  BY DEF Inv, TypeOK, storeVars
<1>2. Holders'
  BY <1>1 DEF Inv, Holders, Held
<1>3. row.status = "none" => \A q \in DOMAIN req' : req'[q].route \notin Awaiting
  BY <1>1 DEF Inv, Untouched
<1>4. QED
  BY <1>1, <1>2, <1>3, NothingStored

LEMMA TrackerPlates ==
    ASSUME Inv, \/ TimerFires \/ Refresh \/ FetchFails
                \/ \E l \in Lists : ReadList(l)
    PROVE  Plates'
<1>1. /\ UNCHANGED <<row, log, outbox>> /\ fetch \in [Lists -> Answers]
      /\ "active" \in Lists /\ Unasked["active"] = "idle"
      /\ \A l \in Lists : Listed(l)' <=> Listed(l)
  BY DEF Inv, TypeOK, TimerFires, Refresh, FetchFails, ReadList, storeVars, Listed,
         Lists, Unasked
<1>2. CASE excused'
  BY <1>2 DEF Plates, Coming
<1>3. CASE TimerFires /\ ~excused'
  <2>1. fetch' = [l \in Lists |-> "asked"]
    BY <1>3 DEF TimerFires
  <2>2. fetch' # Unasked /\ \A l \in Lists : fetch'[l] = "asked"
    BY <1>1, <2>1
  <2>3. QED
    BY <2>2 DEF Plates
<1>4. ASSUME UNCHANGED <<timer, excused>>, Coming
      PROVE  Plates'
  <2>1. Coming'
    BY <1>1, <1>4 DEF Coming, Thread
  <2>2. QED
    BY <2>1 DEF Plates
<1>5. CASE Refresh /\ ~Coming
  <2>1. /\ \A l \in Lists : fetch[l] \in {"in", "out"}
        /\ plate' = (\E l \in Lists : fetch[l] = "in") /\ fetch' = Unasked
    BY <1>5 DEF Refresh
  <2>2. fetch # Unasked
    BY <1>1, <2>1
  <2>3. \A l \in Lists : fetch[l] = "in" <=> Listed(l)
    BY <1>5, <2>1, <2>2 DEF Inv, Plates
  <2>4. plate' <=> \E l \in Lists : Listed(l)'
    BY <1>1, <2>1, <2>3
  <2>5. QED
    BY <2>1, <2>4 DEF Plates
<1>6. ASSUME NEW l \in Lists, ReadList(l), ~Coming
      PROVE  Plates'
  <2>1. /\ fetch[l] = "asked"
        /\ fetch' = [fetch EXCEPT ![l] = IF Listed(l) THEN "in" ELSE "out"]
    BY <1>6 DEF ReadList, Listed
  <2>2. /\ fetch'[l] = (IF Listed(l) THEN "in" ELSE "out")
        /\ \A k \in Lists : k # l => fetch'[k] = fetch[k]
    BY <1>1, <2>1
  <2>3. Unasked[l] = "idle"
    BY DEF Unasked
  <2>4. fetch # Unasked /\ fetch' # Unasked
    BY <2>1, <2>2, <2>3
  <2>5. \A k \in Lists : /\ fetch[k] # "idle"
                         /\ fetch[k] = "in" => Listed(k)
                         /\ fetch[k] = "out" => ~Listed(k)
    BY <1>6, <2>4 DEF Inv, Plates
  <2>6. \A k \in Lists : /\ fetch'[k] # "idle"
                         /\ fetch'[k] = "in" => Listed(k)'
                         /\ fetch'[k] = "out" => ~Listed(k)'
    <3>1. ASSUME NEW k \in Lists
          PROVE  /\ fetch'[k] # "idle"
                 /\ fetch'[k] = "in" => Listed(k)
                 /\ fetch'[k] = "out" => ~Listed(k)
      BY <2>2, <2>5
    <3>2. QED
      BY <1>1, <3>1
  <2>7. QED
    BY <2>4, <2>6 DEF Plates
<1>7. CASE TimerFires
  BY <1>2, <1>3, <1>7
<1>8. CASE FetchFails
  BY <1>2, <1>8 DEF FetchFails
<1>9. CASE Refresh
  BY <1>4, <1>5, <1>9 DEF Refresh
<1>10. ASSUME NEW l \in Lists, ReadList(l)
       PROVE  Plates'
  BY <1>4, <1>6, <1>10 DEF ReadList
<1>11. QED
  BY <1>7, <1>8, <1>9, <1>10

LEMMA NextInv == Inv /\ [Next]_vars => Inv'
<1> SUFFICES ASSUME Inv, [Next]_vars PROVE Inv'
  OBVIOUS
<1>1. TypeOK
  BY DEF Inv
<1>2. ASSUME NEW m \in Members, NEW a \in Members, NEW ws \in SUBSET Followers,
             Create(m, a, ws) \/ CreateFails(m, a, ws)
      PROVE  Inv'
  BY <1>2, CreateInv
<1>3. ASSUME NEW r \in 1 .. MaxRequests, NEW m \in Members,
             ReadPatch(r, m) \/ ReadComplete(r, m) \/ ReadCancel(r, m)
      PROVE  Inv'
  BY <1>3, ReadsInv DEF ReadPatch, ReadComplete, ReadCancel, Awaiting
<1>4. ASSUME NEW r \in 1 .. MaxRequests, NEW to \in Someone, NEW who \in Someone,
             NEW status \in {"none"} \cup Lists,
             Patch(r, to, who, Nobody, status) \/ Patch(r, to, Nobody, who, status)
      PROVE  Inv'
  <2>1. Nobody \in Someone
    BY DEF Someone
  <2>2. QED
    BY <1>4, <2>1, PatchInv
<1>5. ASSUME NEW r \in 1 .. MaxRequests, Complete(r) \/ Cancel(r)
      PROVE  Inv'
  BY <1>5, EndInv DEF Complete, Cancel, Awaiting, Final
<1>6. ASSUME NEW r \in 1 .. MaxRequests, Refuse(r)
      PROVE  Inv'
  BY <1>6, RefusedInv DEF Refuse, storeVars
<1>7. CASE Publish \/ PublishFails
  BY <1>7, PublishInv, PublishFailsInv
<1>8. CASE Halt
  BY <1>8, HaltInv
<1>9. CASE TimerFires
  <2>1. [l \in Lists |-> "asked"] \in [Lists -> Answers]
    BY DEF Answers
  <2>2. QED
    BY <1>1, <1>9, <2>1, TrackerInv, TrackerPlates DEF TypeOK, TimerFires
<1>10. CASE Refresh \/ FetchFails
  <2>1. Unasked \in [Lists -> Answers]
    BY DEF Unasked, Answers
  <2>2. QED
    BY <1>1, <1>10, <2>1, TrackerInv, TrackerPlates DEF TypeOK, Refresh, FetchFails
<1>11. ASSUME NEW l \in Lists, ReadList(l)
       PROVE  Inv'
  <2>1. fetch' \in [Lists -> Answers]
    BY <1>1, <1>11 DEF TypeOK, ReadList, Answers
  <2>2. QED
    BY <1>1, <1>11, <2>1, TrackerInv, TrackerPlates DEF TypeOK, ReadList
<1>12. CASE UNCHANGED vars
  <2>1. Plates'
    BY <1>12, PlatesUntouched DEF vars, storeVars
  <2>2. QED
    BY <1>1, <1>12, <2>1, TrackerInv DEF TypeOK, vars, runnerVars
<1>13. QED
  BY <1>2, <1>3, <1>4, <1>5, <1>6, <1>7, <1>8, <1>9, <1>10, <1>11, <1>12 DEF Next

LEMMA Invariance == Spec => []Inv
BY InitInv, NextInv, PTL DEF Spec

-----------------------------------------------------------------------------
(* The theorems.                                                           *)

(* Every reachable state of the objective, its log, its requests and the   *)
(* runner's copy is well typed; an objective that exists has an assignee   *)
(* and an originator (core/src/objectives.ts).                             *)
THEOREM ObjectivesTypeCorrect == Spec => []TypeOK
<1>1. Inv => TypeOK
  BY DEF Inv
<1>2. QED
  BY <1>1, Invariance, PTL

(* However often an objective is handed on, whoever it was taken from is   *)
(* in its thread until removed by name (reassign).                         *)
THEOREM HandoversAlwaysKeepTheThread == Spec => []HandoversKeepTheThread
<1>1. Inv => HandoversKeepTheThread
  <2> SUFFICES ASSUME Inv, NEW i \in DOMAIN log, log[i].kind = "reassigned"
               PROVE  \/ InThread(row, log[i].from)
                      \/ \E j \in i + 1 .. Len(log) : Leaves(j, log[i].from)
    BY DEF HandoversKeepTheThread, InThread
  <2>1. i \in Positions
    BY DEF Inv, TypeOK, Positions
  <2>2. log[i] \in Event
    BY <2>1 DEF Inv, TypeOK, Positions
  <2>3. log[i].from \in Someone
    BY <2>2 DEF Event
  <2>4. QED
    BY <2>1, <2>3 DEF Inv, Handovers, TakesFrom, Removes, Leaves
<1>2. QED
  BY <1>1, Invariance, PTL

(* Whatever is not published is explained: its push threw, the process     *)
(* ended before it, its POST failed behind its own transaction, or it is a *)
(* PATCH refused in its last part (publishObjectiveEvent and its callers). *)
THEOREM SilenceAlwaysExplained == Spec => []SilenceIsExplained
<1>1. Inv => SilenceIsExplained
  <2> SUFFICES ASSUME Inv, NEW i \in DOMAIN log, log[i].told = {}
               PROVE  \/ \E k \in DOMAIN outbox : outbox[k] = i
                      \/ i \in lost
                      \/ /\ log[i].kind \in {"watcher_added", "watcher_removed"}
                         /\ \E j \in 1 .. i - 1 : log[j].kind \in {"completed", "cancelled"}
    BY DEF SilenceIsExplained
  <2>1. /\ i \in Positions /\ Len(log) \in Nat /\ DOMAIN outbox = 1 .. Len(outbox)
    BY DEF Inv, TypeOK, Positions
  <2>2. Explained(i)
    BY <2>1 DEF Inv, Silences
  <2>3. \A j \in Positions : j < i => j \in 1 .. i - 1
    BY <2>1 DEF Positions
  <2>4. QED
    BY <2>1, <2>2, <2>3 DEF Explained
<1>2. QED
  BY <1>1, Invariance, PTL

(* The audit log alone tells who has the objective, its status and its     *)
(* watchers (every store call writes its rows and its events together).    *)
THEOREM LogAlwaysExplainsRow == Spec => []LogExplainsRow
<1>1. Inv => LogExplainsRow
  <2> SUFFICES ASSUME Inv, NEW i \in DOMAIN log
               PROVE  /\ Latest(i, {"assigned", "reassigned"}) => row.assignee = log[i].who
                      /\ Latest(i, StatusKinds) => row.status = StatusAfter(log[i].kind)
                      /\ \A m \in Members :
                           /\ Joins(i, m) /\ (\A j \in i + 1 .. Len(log) : ~Leaves(j, m))
                                => m \in row.watchers
                           /\ Leaves(i, m) /\ (\A j \in i + 1 .. Len(log) : ~Joins(j, m))
                                => m \notin row.watchers
    BY DEF LogExplainsRow
  <2>1. /\ i \in Positions /\ i \in 1 .. Len(log) /\ Len(log) \in Nat
        /\ \A k \in Positions : log[k] \in Event
        /\ log[i] \in Event /\ Plain(log[i])
    BY LenProperties DEF Inv, TypeOK, Positions, StoryTold
  <2>2. \A j \in i + 1 .. Len(log) : log[j] \in Event
    BY <2>1 DEF Positions
  <2>3. /\ \A m \in Members :
             /\ Follows(log, Gives(m), Takes(m), HeldBy(m), NoRow, row)
             /\ Follows(log, Adds(m), Drops(m), WatchedBy(m), NoRow, row)
             /\ Follows(log, Drops(m), Adds(m), UnwatchedBy(m), NoRow, row)
        /\ \A s \in Statuses : Follows(log, Sets(s), Resets(s), Standing(s), NoRow, row)
    BY DEF Inv, StoryTold, Story
  <2>4. Latest(i, {"assigned", "reassigned"}) => row.assignee = log[i].who
    <3> SUFFICES ASSUME Latest(i, {"assigned", "reassigned"})
                 PROVE  row.assignee = log[i].who
      OBVIOUS
    <3>1. log[i].kind \in {"assigned", "reassigned"}
          /\ \A j \in i + 1 .. Len(log) : log[j].kind # "reassigned"
      BY DEF Latest
    <3>2. PICK m \in Members : m = log[i].who
      BY <2>1, <3>1 DEF Plain, Event, Someone
    <3>3. log[i] \in Gives(m) /\ \A j \in i + 1 .. Len(log) : log[j] \notin Takes(m)
      BY <2>1, <3>1, <3>2 DEF Gives, Takes, TakesFrom
    <3>4. row \in HeldBy(m)
      BY <2>1, <2>3, <3>3, Zenon DEF Follows
    <3>5. QED
      BY <3>2, <3>4 DEF HeldBy
  <2>5. Latest(i, StatusKinds) => row.status = StatusAfter(log[i].kind)
    <3> SUFFICES ASSUME Latest(i, StatusKinds)
                 PROVE  row.status = StatusAfter(log[i].kind)
      OBVIOUS
    <3>1. log[i].kind \in StatusKinds
          /\ \A j \in i + 1 .. Len(log) : log[j].kind \notin StatusKinds
      BY DEF Latest
    <3>2. PICK s \in Statuses : s = StatusAfter(log[i].kind)
      BY <3>1 DEF StatusKinds, StatusAfter, Statuses, Final
    <3>3. log[i] \in Sets(s) /\ \A j \in i + 1 .. Len(log) : log[j] \notin Resets(s)
      BY <2>1, <3>1, <3>2 DEF Sets, Resets
    <3>4. row \in Standing(s)
      BY <2>1, <2>3, <3>3, Zenon DEF Follows
    <3>5. QED
      BY <3>2, <3>4 DEF Standing
  <2>6. ASSUME NEW m \in Members, Joins(i, m), \A j \in i + 1 .. Len(log) : ~Leaves(j, m)
        PROVE  m \in row.watchers
    <3>1. log[i] \in Adds(m) /\ \A j \in i + 1 .. Len(log) : log[j] \notin Drops(m)
      BY <2>1, <2>6 DEF Adds, Drops, Joins, Leaves, Removes
    <3>2. row \in WatchedBy(m)
      BY <2>1, <2>3, <3>1, Zenon DEF Follows
    <3>3. QED
      BY <3>2 DEF WatchedBy
  <2>7. ASSUME NEW m \in Members, Leaves(i, m), \A j \in i + 1 .. Len(log) : ~Joins(j, m)
        PROVE  m \notin row.watchers
    <3>1. log[i] \in Drops(m) /\ \A j \in i + 1 .. Len(log) : log[j] \notin Adds(m)
      BY <2>1, <2>7 DEF Adds, Drops, Joins, Leaves, Removes
    <3>2. row \in UnwatchedBy(m)
      BY <2>1, <2>3, <3>1, Zenon DEF Follows
    <3>3. QED
      BY <3>2 DEF UnwatchedBy
  <2>8. QED
    BY <2>4, <2>5, <2>6, <2>7
<1>2. QED
  BY <1>1, Invariance, PTL

(* Whom the latest published event about a member names is told of it,     *)
(* also where the event takes the member out of the thread                 *)
(* (publishObjectiveEvent, objectiveThreadMembers).                        *)
THEOREM LastWordAlwaysReaches == Spec => []LastWordReachesThem
<1>1. Inv => LastWordReachesThem
  <2> SUFFICES ASSUME Inv, NEW i \in DOMAIN log, NEW m \in Members,
                      log[i].told # {}, Concerns(i, m),
                      \A j \in i + 1 .. Len(log) : ~Concerns(j, m)
               PROVE  m \in log[i].told
    BY DEF LastWordReachesThem
  <2>1. i \in Positions
    BY DEF Inv, TypeOK, Positions
  <2>2. Names(log[i], m) /\ \A j \in i + 1 .. Len(log) : ~Names(log[j], m)
    BY DEF Names, Concerns
  <2>3. QED
    BY <2>1, <2>2 DEF Inv, LastWords
<1>2. QED
  BY <1>1, Invariance, PTL

(* Once nothing is on its way, the runner's copy is what the row says,     *)
(* unless its last refetch was swallowed or failed, or news were lost:     *)
(* with the process, in a push that threw, or in a POST that failed        *)
(* (objectives-tracker.ts, publishObjectiveEvent).                         *)
THEOREM PlateStaysTrue == Spec => []PlateIsTrue
<1>1. Inv => PlateIsTrue
  <2> SUFFICES ASSUME Inv, outbox = <<>>, ~timer, fetch = Unasked, ~excused
               PROVE  plate <=> row.assignee = Self /\ row.status \in Lists
    BY DEF PlateIsTrue
  <2>1. ~Coming
    BY NoFacts DEF Coming
  <2>2. plate <=> \E l \in Lists : Listed(l)
    BY <2>1 DEF Inv, Plates
  <2>3. QED
    BY <2>2 DEF Listed
<1>2. QED
  BY <1>1, Invariance, PTL

(* The body of TerminalIsFinal.                                            *)
FinalStep ==
    Terminal(row) =>
         /\ row'.status = row.status /\ row'.assignee = row.assignee
         /\ \A i \in Len(log) + 1 .. Len(log') :
              log'[i].kind \in {"watcher_added", "watcher_removed"}

(* The body of CompletedByItsHolder.                                       *)
HolderStep ==
    \A i \in Len(log) + 1 .. Len(log') : log'[i].kind = "completed" =>
         \/ log'[i].actor = row.assignee
         \/ \E r \in 1 .. MaxRequests :
              /\ req[r].route = "complete" /\ req[r].actor = log'[i].actor
              /\ \E k \in req[r].at + 1 .. Len(log) :
                   log[k].kind = "reassigned" /\ log[k].from = log'[i].actor

LEMMA QuietStep ==
    ASSUME Inv, row' = row, Len(log') = Len(log)
    PROVE  FinalStep /\ HolderStep
<1>1. Len(log) \in Nat /\ Len(log) + 1 .. Len(log') = {}
  BY LenProperties DEF Inv, TypeOK
<1>2. QED
  BY <1>1 DEF FinalStep, HolderStep

LEMMA NewFacts ==
    ASSUME Inv, NEW res, Change(row, res), Store(res)
    PROVE  /\ row' = res.row
           /\ \A i \in Len(log) + 1 .. Len(log') :
                \E j \in 1 .. Len(res.facts) : log'[i] = res.facts[j]
<1>1. /\ Len(log) \in Nat /\ Len(log') \in Nat
      /\ \A j \in 1 .. Len(res.facts) :
           Len(log) + j \in Positions' /\ log'[Len(log) + j] = res.facts[j]
      /\ \A i \in Positions' :
           i \in Positions \/ \E j \in 1 .. Len(res.facts) : i = Len(log) + j
  BY LogGrows, Zenon
<1>2. \A i \in Len(log) + 1 .. Len(log') : i \in Positions' /\ i \notin Positions
  BY <1>1 DEF Positions
<1>3. QED
  BY <1>1, <1>2, Zenon DEF Store

LEMMA StoreFinal ==
    ASSUME Inv, NEW res, Change(row, res), Store(res)
    PROVE  FinalStep
BY NewFacts DEF FinalStep, Change, FinalKept

LEMMA PatchSteps ==
    ASSUME Inv, NEW r \in 1 .. MaxRequests, NEW to \in Someone, NEW add \in Someone,
           NEW remove \in Someone, NEW status \in {"none"} \cup Lists,
           Patch(r, to, add, remove, status)
    PROVE  FinalStep /\ HolderStep
<1>1. \/ UNCHANGED <<storeVars, outbox>>
      \/ \E res : /\ Terminal(row) /\ Change(row, res) /\ Store(res)
                  /\ UNCHANGED outbox
      \/ \E res : /\ Change(row, res) /\ Store(res) /\ Announce(res)
                  /\ ~Terminal(row) => res.row.status # "done"
  BY PatchChanges, Zenon
<1>2. CASE UNCHANGED <<storeVars, outbox>>
  BY <1>2, QuietStep DEF storeVars
<1>3. ASSUME NEW res, Change(row, res), Store(res),
             ~Terminal(row) => res.row.status # "done"
      PROVE  FinalStep /\ HolderStep
  <2>1. \A j \in 1 .. Len(res.facts) : res.facts[j].kind # "completed"
    BY <1>3 DEF Change, CompletionLogged
  <2>2. HolderStep
    BY <1>3, <2>1, NewFacts DEF HolderStep
  <2>3. QED
    BY <1>3, <2>2, StoreFinal
<1>4. QED
  BY <1>1, <1>2, <1>3

LEMMA EndSteps ==
    ASSUME Inv, NEW r \in 1 .. MaxRequests, NEW route \in Awaiting, NEW status \in Final,
           End(r, route, status), route = "complete" \/ status = "cancelled"
    PROVE  FinalStep /\ HolderStep
<1>1. req[r].route = route
  BY DEF End
<1>2. Sound(row) /\ req[r].actor \in Members /\ TypeOK
  BY <1>1, Arrived
<1>3. CASE Terminal(row)
  BY <1>3, QuietStep DEF End, storeVars
<1>4. CASE ~Terminal(row)
  <2> DEFINE res == Ended(row, status, req[r].actor)
  <2>1. /\ Change(row, res) /\ Store(res) /\ res.row.status = status
        /\ Len(res.facts) = 1 /\ res.facts[1].actor = req[r].actor
    <3>1. res.row.status = status
      BY <1>2 DEF Ended, Sound, Row
    <3>2. QED
      BY <1>2, <1>4, <3>1, EndedChanges DEF End
  <2> HIDE DEF res
  <2>2. FinalStep
    BY <2>1, StoreFinal
  <2>3. CASE status = "cancelled"
    <3>1. \A j \in 1 .. Len(res.facts) : res.facts[j].kind # "completed"
      BY <2>1, <2>3 DEF Change, CompletionLogged
    <3>2. HolderStep
      BY <2>1, <3>1, NewFacts DEF HolderStep
    <3>3. QED
      BY <2>2, <3>2
  <2>4. CASE route = "complete"
    <3> SUFFICES ASSUME NEW i \in Len(log) + 1 .. Len(log')
                 PROVE  \/ log'[i].actor = row.assignee
                        \/ /\ req[r].actor = log'[i].actor
                           /\ \E k \in req[r].at + 1 .. Len(log) :
                                TakesFrom(log[k], log'[i].actor)
      BY <1>1, <2>2, <2>4 DEF HolderStep, TakesFrom
    <3>1. log'[i].actor = req[r].actor
      <4>1. \E j \in 1 .. Len(res.facts) : log'[i] = res.facts[j]
        BY <2>1, NewFacts
      <4>2. QED
        BY <2>1, <4>1
    <3>2. Held(req[r].actor, req[r].at)
      BY <1>1, <1>2, <2>4 DEF Inv, Holders, TypeOK
    <3>3. QED
      BY <3>1, <3>2 DEF Held
  <2>5. QED
    BY <2>3, <2>4
<1>5. QED
  BY <1>3, <1>4

LEMMA Steps == Inv /\ [Next]_vars => FinalStep /\ HolderStep
<1> SUFFICES ASSUME Inv, [Next]_vars PROVE FinalStep /\ HolderStep
  OBVIOUS
<1>1. ASSUME NEW m \in Members, NEW a \in Members, NEW ws \in SUBSET Followers,
             Create(m, a, ws) \/ CreateFails(m, a, ws)
      PROVE  FinalStep /\ HolderStep
  <2> DEFINE e == Fact("assigned", m, a, Nobody, ws \ {a, m})
  <2>1. row.status = "none" /\ log = <<>> /\ Store(Created(m, a, ws))
    BY <1>1 DEF Create, CreateFails, Inv, Untouched
  <2>2. log' = <<>> \o <<e>> /\ e.kind = "assigned" /\ e \in Event
    BY <1>1, <2>1, ObjectiveConstantsOK
    DEF Store, Created, Fact, Event, Kinds, Someone
  <2> HIDE DEF e
  <2>3. Len(log) + 1 .. Len(log') = {1} /\ log'[1].kind = "assigned"
    BY <2>1, <2>2
  <2>4. QED
    BY <2>1, <2>3 DEF FinalStep, HolderStep, Terminal, Final
<1>2. ASSUME NEW r \in 1 .. MaxRequests, NEW m \in Members,
             ReadPatch(r, m) \/ ReadComplete(r, m) \/ ReadCancel(r, m)
      PROVE  FinalStep /\ HolderStep
  BY <1>2, QuietStep DEF ReadPatch, ReadComplete, ReadCancel, Reads, storeVars
<1>3. ASSUME NEW r \in 1 .. MaxRequests, NEW to \in Someone, NEW who \in Someone,
             NEW status \in {"none"} \cup Lists,
             Patch(r, to, who, Nobody, status) \/ Patch(r, to, Nobody, who, status)
      PROVE  FinalStep /\ HolderStep
  <2>1. Nobody \in Someone
    BY DEF Someone
  <2>2. QED
    BY <1>3, <2>1, PatchSteps
<1>4. ASSUME NEW r \in 1 .. MaxRequests, Complete(r) \/ Cancel(r)
      PROVE  FinalStep /\ HolderStep
  BY <1>4, EndSteps DEF Complete, Cancel, Awaiting, Final
<1>5. CASE Publish
  BY <1>5, PublishKeepsLog, QuietStep DEF Publish
<1>6. ASSUME UNCHANGED storeVars
      PROVE  FinalStep /\ HolderStep
  BY <1>6, QuietStep DEF storeVars
<1>7. ASSUME NEW r \in 1 .. MaxRequests, Refuse(r)
      PROVE  FinalStep /\ HolderStep
  BY <1>6, <1>7 DEF Refuse
<1>8. CASE \/ PublishFails \/ Halt \/ TimerFires \/ Refresh \/ FetchFails
           \/ UNCHANGED vars
  BY <1>6, <1>8 DEF PublishFails, Halt, TimerFires, Refresh, FetchFails, vars, storeVars
<1>9. ASSUME NEW l \in Lists, ReadList(l)
      PROVE  FinalStep /\ HolderStep
  BY <1>6, <1>9 DEF ReadList
<1>10. QED
  BY <1>1, <1>2, <1>3, <1>4, <1>5, <1>7, <1>8, <1>9 DEF Next

(* An objective that is done or cancelled keeps its status and assignee,   *)
(* however many requests that had read it before are still to come (the    *)
(* store's own checks in update, complete, cancel and reassign).           *)
THEOREM TerminalForGood == Spec => TerminalIsFinal
<1>1. Inv /\ [Next]_vars => [FinalStep]_vars
  BY Steps
<1>2. QED
  BY <1>1, Invariance, PTL DEF Spec, TerminalIsFinal, FinalStep

(* Who completes an objective holds it, or held it when the request came   *)
(* in (POST /objectives/:id/complete).                                     *)
THEOREM CompletedByAHolder == Spec => CompletedByItsHolder
<1>1. Inv /\ [Next]_vars => [HolderStep]_vars
  BY Steps
<1>2. QED
  BY <1>1, Invariance, PTL DEF Spec, CompletedByItsHolder, HolderStep

=============================================================================
