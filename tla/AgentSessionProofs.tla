------------------------- MODULE AgentSessionProofs -------------------------
(***************************************************************************)
(* Proofs about AgentSession: the types of its variables; that the two     *)
(* coordinators and teardown never have two agents alive, nor leave one    *)
(* behind; that a control is answered at most once; and that an agent at   *)
(* rest runs on the latest edits but for those the runner is blind to.     *)
(* None is inductive alone: the count of live processes follows from where *)
(* the coordinators stand and from who holds the lock, and a version that  *)
(* is not lost from where its event, its refetch or its answer is.         *)
(***************************************************************************)
EXTENDS AgentSession, TLAPS

Up == IF current = "up" THEN 1 ELSE 0
Greeting(p) == IF pc[p] = "greet" THEN 1 ELSE 0

(* The lock has one holder, and only a control is ever begun or compacts.   *)
LockInv ==
    /\ ~(Holds("restart") /\ Holds("control"))
    /\ pc["restart"] \notin {"begin", "compact"}

(* The control coordinator is at work exactly when a control is chained.    *)
ChainInv ==
    /\ phase = "starting" => \A p \in Parties : pc[p] = "none"
    /\ phase = "running" => (pc["control"] = "none" <=> chain = << >>)

(* currentProc is down during a swap, and the live processes are currentProc *)
(* and the successor that is being greeted.                                 *)
LiveInv ==
    /\ phase = "starting" => current = "down"
    /\ \A p \in Parties : pc[p] \in Swapping \ {"stop"} => current = "down"
    /\ live = Up + Greeting("restart") + Greeting("control")

(* Teardown has closed, and waited for, what it is past.                    *)
TeardownInv ==
    /\ td # "no" => phase = "running" /\ closed
    /\ td \notin {"no", "restart"} => ctlClosed /\ pc["restart"] = "none"
    /\ td \notin {"no", "restart", "control"} => chain = << >>
    /\ td \in {"end", "drain", "done", "rejected"} => current = "down"

SessionInv == TypeOK /\ LockInv /\ ChainInv /\ LiveInv /\ TeardownInv
-----------------------------------------------------------------------------
(* What the chain becomes when the running control is answered.             *)
LEMMA ChainSteps ==
    ASSUME chain \in Seq(Controls), chain # << >>
    PROVE  /\ Head(chain) \in Controls
           /\ Tail(chain) \in Seq(Controls)
           /\ Len(chain) > 1 <=> Tail(chain) # << >>
OBVIOUS

(* Places stay places.                                                      *)
LEMMA PlacesStay ==
    ASSUME TypeOK, NEW p \in Parties, NEW at \in Places
    PROVE  /\ [pc EXCEPT ![p] = at] \in [Parties -> Places]
           /\ LeaveLock(p, at) \in [Parties -> Places]
           /\ AskLock(p) \in [Parties -> Places]
           /\ Woken \in [Parties -> Places]
           /\ WaitForIdle \in Places
           /\ NextControl \in Places
           /\ AfterInstructions(p) \in Places
BY DEF TypeOK, LeaveLock, AskLock, Woken, WaitForIdle, NextControl,
       AfterInstructions, Places, Transient, Swapping

(* A coordinator at work has a control in the chain.                        *)
LEMMA ChainNotEmpty ==
    ASSUME TypeOK, ChainInv, pc["control"] # "none"
    PROVE  chain # << >> /\ phase = "running"
BY DEF TypeOK, ChainInv, Parties

LEMMA AnsweredTypes ==
    ASSUME TypeOK, ChainInv, pc["control"] # "none", Answered
    PROVE  chain' \in Seq(Controls) /\ acks' \in [Controls -> Nat]
<1>1. chain \in Seq(Controls) /\ chain # << >> /\ acks \in [Controls -> Nat]
  BY ChainNotEmpty DEF TypeOK
<1>2. Head(chain) \in Controls /\ Tail(chain) \in Seq(Controls)
  BY <1>1, ChainSteps
<1>3. QED
  BY <1>1, <1>2 DEF Answered

LEMMA FailTypes ==
    ASSUME TypeOK, ChainInv, NEW p \in Parties, pc[p] # "none", SwapFails(p)
    PROVE  /\ pc' \in [Parties -> Places]
           /\ chain' \in Seq(Controls)
           /\ acks' \in [Controls -> Nat]
           /\ td' \in {"no", "restart", "control", "agent", "end", "drain", "done", "rejected"}
           /\ closed' \in BOOLEAN
<1>0. "none" \in Places
  BY DEF Places
<1>1. CASE p = "restart" /\ BeginTeardown /\ pc' = LeaveLock(p, "none")
           /\ UNCHANGED <<chain, acks>>
  BY <1>0, <1>1, PlacesStay DEF BeginTeardown, TypeOK
<1>2. CASE p = "control" /\ Answered /\ pc' = LeaveLock(p, NextControl)
           /\ UNCHANGED <<td, closed>>
  BY <1>2, PlacesStay, AnsweredTypes DEF TypeOK
<1>3. QED
  BY <1>1, <1>2 DEF SwapFails

(* There is a process to count out when currentProc is up.                  *)
LEMMA OneLess ==
    ASSUME TypeOK, LiveInv, current = "up"
    PROVE  live - 1 \in Nat
BY DEF TypeOK, LiveInv, Up, Greeting

LEMMA SwapTypes ==
    ASSUME SessionInv, NEW p \in Parties, SwapStep(p)
    PROVE  TypeOK'
<1> USE DEF brokerVars, flags
<1>1. TypeOK /\ ChainInv /\ LiveInv
  BY DEF SessionInv
<1>2. "fetch" \in Places /\ "fetched" \in Places /\ "resolved" \in Places
      /\ "spawn" \in Places /\ "greet" \in Places /\ "none" \in Places
  BY DEF Places, Swapping
<1>3. QED
  <2>1. CASE Stopped(p)
    <3>1. pc' \in [Parties -> Places]
      <4>1. pc[p] # "none"
        BY <2>1 DEF Stopped
      <4>2. CASE pc' = [pc EXCEPT ![p] = "fetch"]
        BY <1>1, <1>2, <4>2, PlacesStay
      <4>3. CASE SwapFails(p)
        BY <1>1, <4>1, <4>3, FailTypes
      <4>4. QED
        BY <2>1, <4>2, <4>3 DEF Stopped
    <3>2. /\ chain' \in Seq(Controls)
          /\ acks' \in [Controls -> Nat]
          /\ td' \in {"no", "restart", "control", "agent", "end", "drain", "done", "rejected"}
          /\ closed' \in BOOLEAN
      BY <1>1, <2>1, FailTypes DEF Stopped, TypeOK
    <3>3. live' \in Nat
      BY <1>1, <2>1 DEF Stopped, TypeOK, LiveInv, Up, Greeting
    <3>4. QED
      BY <1>1, <2>1, <3>1, <3>2, <3>3 DEF Stopped, TypeOK
  <2>2. CASE ReadInstructions(p)
    BY SMTT(60), <1>1, <1>2, <2>2, PlacesStay DEF ReadInstructions, TypeOK, Kinds
  <2>3. CASE Fetched(p)
    BY <1>1, <1>2, <2>3, PlacesStay DEF Fetched, Refreshed, TypeOK, Kinds
  <2>4. CASE FetchFails(p)
    BY <1>1, <1>2, <2>4, PlacesStay DEF FetchFails, TypeOK
  <2>5. CASE ReadEnvironment(p)
    BY SMTT(60), <1>1, <1>2, <2>5, PlacesStay DEF ReadEnvironment, TypeOK, Kinds
  <2>6. CASE Resolved(p)
    BY SMTT(60), <1>1, <1>2, <2>6, PlacesStay DEF Resolved, Refreshed, TypeOK, Kinds
  <2>7. CASE ResolveFails(p)
    BY SMTT(60), <1>1, <1>2, <2>7, PlacesStay DEF ResolveFails, TypeOK, Kinds
  <2>8. CASE SpawnUp(p)
    <3>1. pc' \in [Parties -> Places]
      BY <1>1, <1>2, <2>8, PlacesStay DEF SpawnUp
    <3>2. live' \in Nat
      BY <1>1, <2>8 DEF SpawnUp, TypeOK
    <3>3. QED
      BY <1>1, <2>8, <3>1, <3>2 DEF SpawnUp, TypeOK
  <2>9. CASE SpawnFails(p)
    <3>1. pc[p] # "none"
      BY <2>9 DEF SpawnFails
    <3>2. QED
      BY <1>1, <2>9, <3>1, FailTypes DEF SpawnFails, TypeOK
  <2>10. QED
    BY <2>1, <2>2, <2>3, <2>4, <2>5, <2>6, <2>7, <2>8, <2>9 DEF SwapStep

LEMMA ControlTypes ==
    ASSUME SessionInv,
           ControlBegins \/ CompactEnds \/ ControlLocked \/ ControlDrained \/ ControlDone
    PROVE  TypeOK'
<1> USE DEF brokerVars, flags
<1>1. TypeOK /\ ChainInv /\ pc["control"] # "none" /\ "control" \in Parties
  BY DEF SessionInv, ControlBegins, CompactEnds, ControlLocked, ControlDrained,
         ControlDone, Parties
<1>2. "compact" \in Places /\ "stop" \in Places
  BY DEF Places, Swapping
<1>3a. ASSUME NEW at \in Places
       PROVE  /\ LeaveLock("control", at) \in [Parties -> Places]
              /\ [pc EXCEPT !["control"] = at] \in [Parties -> Places]
  BY <1>1, PlacesStay
<1>3. /\ AskLock("control") \in [Parties -> Places]
      /\ WaitForIdle \in Places /\ NextControl \in Places
  BY <1>1, <1>2, PlacesStay
<1>4. Answered => chain' \in Seq(Controls) /\ acks' \in [Controls -> Nat]
  BY <1>1, AnsweredTypes
<1>5. CASE ControlBegins
  BY ZenonT(60), <1>1, <1>2, <1>3, <1>3a, <1>5 DEF ControlBegins, TypeOK
<1>6. CASE CompactEnds
  BY <1>1, <1>3, <1>3a, <1>4, <1>6 DEF CompactEnds, TypeOK
<1>7. CASE ControlLocked
  BY <1>1, <1>3, <1>3a, <1>7 DEF ControlLocked, TypeOK
<1>8. CASE ControlDrained
  <2>1. CASE Answered /\ pc' = LeaveLock("control", NextControl)
    BY <1>1, <1>3, <1>3a, <1>4, <1>8, <2>1 DEF ControlDrained, TypeOK
  <2>2. CASE pc' = [pc EXCEPT !["control"] = "stop"] /\ UNCHANGED <<chain, acks>>
    BY <1>1, <1>2, <1>3, <1>3a, <1>8, <2>2 DEF ControlDrained, TypeOK
  <2>3. QED
    BY <1>8, <2>1, <2>2 DEF ControlDrained
<1>9. CASE ControlDone
  BY <1>1, <1>3, <1>3a, <1>4, <1>9 DEF ControlDone, TypeOK
<1>10. QED
  BY <1>5, <1>6, <1>7, <1>8, <1>9

LEMMA RestartTypes ==
    ASSUME SessionInv, RestartDrained \/ RestartLocked \/ RestartDone
    PROVE  TypeOK'
<1> USE DEF brokerVars, flags
<1>1. TypeOK /\ "restart" \in Parties
  BY DEF SessionInv, Parties
<1>2. "none" \in Places /\ "stop" \in Places
  BY DEF Places, Swapping
<1>3a. ASSUME NEW at \in Places
       PROVE  /\ LeaveLock("restart", at) \in [Parties -> Places]
              /\ [pc EXCEPT !["restart"] = at] \in [Parties -> Places]
  BY <1>1, PlacesStay
<1>3. /\ AskLock("restart") \in [Parties -> Places]
      /\ WaitForIdle \in Places
  BY <1>1, <1>2, PlacesStay
<1>4. CASE RestartDrained
  BY ZenonT(60), <1>1, <1>2, <1>3, <1>3a, <1>4 DEF RestartDrained, TypeOK
<1>5. CASE RestartLocked
  BY <1>1, <1>2, <1>3, <1>3a, <1>5 DEF RestartLocked, TypeOK
<1>6. CASE RestartDone
  BY ZenonT(60), <1>1, <1>2, <1>3, <1>3a, <1>6 DEF RestartDone, TypeOK
<1>7. QED
  BY <1>4, <1>5, <1>6

LEMMA EventTypes ==
    ASSUME SessionInv,
           \/ \E k \in Kinds : Edit(k) \/ Hear(k)
           \/ \E c \in Controls : Handle(c)
           \/ FirstSpawn
           \/ TurnStarts \/ TurnEnds \/ Block \/ Unblock
           \/ AgentExits \/ Signal \/ TeardownStep
    PROVE  TypeOK'
<1> USE DEF brokerVars, flags
<1>1. TypeOK /\ LiveInv /\ "restart" \in Parties /\ "control" \in Parties
  BY DEF SessionInv, Parties
<1>2. "none" \in Places /\ "begin" \in Places
  BY DEF Places, Transient
<1>3a. ASSUME NEW p \in Parties, NEW at \in Places
       PROVE  [pc EXCEPT ![p] = at] \in [Parties -> Places]
  BY <1>1, PlacesStay
<1>3. Woken \in [Parties -> Places] /\ WaitForIdle \in Places
  BY <1>1, <1>2, PlacesStay
<1>4. ASSUME NEW k \in Kinds, Edit(k) PROVE TypeOK'
  BY SMTT(60), <1>1, <1>4 DEF Edit, TypeOK
<1>5. ASSUME NEW k \in Kinds, Hear(k) PROVE TypeOK'
  <2>1. /\ pc' \in [Parties -> Places] /\ covered' \in BOOLEAN /\ rearm' \in BOOLEAN
        /\ blind' \in SUBSET Kinds /\ early' \in SUBSET Kinds
    BY ZenonT(60), <1>1, <1>3, <1>3a, <1>5 DEF Hear, Request, TypeOK
  <2>2. unheard' \in [Kinds -> Nat]
    BY <1>1, <1>5 DEF Hear, TypeOK
  <2>3. QED
    BY <1>1, <1>5, <2>1, <2>2 DEF Hear, TypeOK
<1>6. ASSUME NEW c \in Controls, Handle(c) PROVE TypeOK'
  <2>1. Append(chain, c) \in Seq(Controls)
    BY <1>1 DEF TypeOK
  <2>2. pc' \in [Parties -> Places]
    <3>1. [pc EXCEPT !["control"] = "begin"] \in [Parties -> Places]
      BY <1>1, <1>2, <1>3a
    <3>2. QED
      BY <1>1, <1>6, <3>1 DEF Handle, TypeOK
  <2>3. chain' \in Seq(Controls) /\ acks' \in [Controls -> Nat]
    <3>1. chain' = chain \/ chain' = Append(chain, c)
      BY <1>6 DEF Handle
    <3>2. acks' = acks \/ acks' = [acks EXCEPT ![c] = acks[c] + 1]
      BY <1>6 DEF Handle
    <3>3. chain' \in Seq(Controls)
      BY <1>1, <2>1, <3>1 DEF TypeOK
    <3>4. acks' \in [Controls -> Nat]
      <4>1. acks \in [Controls -> Nat] /\ acks[c] + 1 \in Nat
        BY <1>1 DEF TypeOK
      <4>2. QED
        BY <3>2, <4>1
    <3>5. QED
      BY <3>3, <3>4
  <2>4. QED
    BY <1>1, <1>6, <2>2, <2>3 DEF Handle, TypeOK
<1>7. CASE FirstSpawn
  BY <1>1, <1>2, <1>3, <1>3a, <1>7 DEF FirstSpawn, TypeOK
<1>8. CASE TurnStarts \/ TurnEnds \/ Block \/ Unblock
  BY <1>1, <1>3, <1>3a, <1>8 DEF TurnStarts, TurnEnds, Block, Unblock, TypeOK
<1>9. CASE AgentExits
  <2>1. live - 1 \in Nat
    BY <1>1, <1>9, OneLess DEF AgentExits
  <2>2. live' \in Nat
    BY <1>9, <2>1 DEF AgentExits
  <2>3. td' \in {td, "restart"} /\ closed' \in BOOLEAN
    BY <1>1, <1>9 DEF AgentExits, BeginTeardown, TypeOK
  <2>4. QED
    BY <1>1, <1>9, <2>2, <2>3 DEF AgentExits, TypeOK
<1>9a. CASE Signal
  BY <1>1, <1>9a DEF Signal, BeginTeardown, TypeOK
<1>10. CASE TeardownStep
  BY ZenonT(60), <1>1, <1>10, OneLess
  DEF TeardownStep, RestartSettled, ControlSettled, AgentShutDown,
      SessionEndSent, RunnerDown, TypeOK
<1>11. QED
  BY <1>4, <1>5, <1>6, <1>7, <1>8, <1>9, <1>9a, <1>10

LEMMA TypesKept == SessionInv /\ [Next]_vars => TypeOK'
<1> SUFFICES ASSUME SessionInv, [Next]_vars PROVE TypeOK'
  OBVIOUS
<1>1. CASE UNCHANGED vars
  BY <1>1 DEF SessionInv, TypeOK, vars
<1>2. ASSUME NEW p \in Parties, SwapStep(p) PROVE TypeOK'
  BY <1>2, SwapTypes
<1>3. QED
  BY <1>1, <1>2, ControlTypes, RestartTypes, EventTypes
  DEF Next, RestartStep, ControlStep, Parties
-----------------------------------------------------------------------------
(* What the moves of the two coordinators do to either place.               *)
LEMMA LeaveMoves ==
    ASSUME TypeOK, NEW at
    PROVE  /\ LeaveLock("restart", at)["restart"] = at
           /\ LeaveLock("restart", at)["control"] =
                  (IF pc["control"] = "lock" THEN "locked" ELSE pc["control"])
           /\ LeaveLock("control", at)["control"] = at
           /\ LeaveLock("control", at)["restart"] =
                  (IF pc["restart"] = "lock" THEN "locked" ELSE pc["restart"])
BY DEF TypeOK, LeaveLock, Parties

LEMMA AskMoves ==
    ASSUME TypeOK
    PROVE  /\ AskLock("restart")["control"] = pc["control"]
           /\ AskLock("restart")["restart"] =
                  (IF Holds("control") THEN "lock" ELSE "locked")
           /\ AskLock("control")["restart"] = pc["restart"]
           /\ AskLock("control")["control"] =
                  (IF Holds("restart") THEN "lock" ELSE "locked")
BY DEF TypeOK, AskLock, Other, Parties

LEMMA SwapKeeps ==
    ASSUME SessionInv, NEW p \in Parties, SwapStep(p)
    PROVE  LockInv' /\ ChainInv' /\ LiveInv' /\ TeardownInv'
<1> USE DEF brokerVars, flags
<1>1. TypeOK /\ LockInv /\ ChainInv /\ LiveInv /\ TeardownInv
  BY DEF SessionInv
<1>2. p = "restart" \/ p = "control"
  BY DEF Parties
<1>3. CASE ReadInstructions(p)
  BY <1>1, <1>2, <1>3 DEF ReadInstructions, LockInv, ChainInv, LiveInv, TeardownInv,
     Holds, Swapping, Up, Greeting, TypeOK, Parties, Transient
<1>4. CASE Fetched(p) \/ FetchFails(p)
  BY <1>1, <1>2, <1>4 DEF Fetched, FetchFails, AfterInstructions, LockInv, ChainInv,
     LiveInv, TeardownInv, Holds, Swapping, Up, Greeting, TypeOK, Parties, Transient
<1>5. CASE ReadEnvironment(p) \/ Resolved(p) \/ ResolveFails(p)
  BY SMTT(60), <1>1, <1>2, <1>5 DEF ReadEnvironment, Resolved, ResolveFails, LockInv, ChainInv,
     LiveInv, TeardownInv, Holds, Swapping, Up, Greeting, TypeOK, Parties, Transient
<1>6. CASE SpawnUp(p)
  BY <1>1, <1>2, <1>6 DEF SpawnUp, LockInv, ChainInv,
     LiveInv, TeardownInv, Holds, Swapping, Up, Greeting, TypeOK, Parties, Transient
<1>7. CASE Stopped(p) /\ pc' = [pc EXCEPT ![p] = "fetch"]
          /\ UNCHANGED <<td, closed, chain, acks>>
  BY <1>1, <1>2, <1>7 DEF Stopped, LockInv, ChainInv, LiveInv, TeardownInv,
     Holds, Swapping, Up, Greeting, TypeOK, Parties, Transient
<1>8. CASE (Stopped(p) \/ SpawnFails(p)) /\ SwapFails(p)
  <2>1. /\ pc[p] \in {"stop", "spawn"}
        /\ current' = "down"
        /\ live' = 0
        /\ UNCHANGED <<phase, ctlClosed>>
    BY <1>1, <1>2, <1>8 DEF Stopped, SpawnFails, LiveInv, LockInv, Holds, Up,
       Greeting, Swapping, TypeOK
  <2>2. CASE p = "restart" /\ BeginTeardown /\ pc' = LeaveLock(p, "none")
             /\ UNCHANGED <<chain, acks>>
    BY <1>1, <2>1, <2>2, LeaveMoves DEF BeginTeardown, LockInv, ChainInv,
       LiveInv, TeardownInv, Holds, Swapping, Up, Greeting, TypeOK, Parties,
       Transient, Places
  <2>3. CASE p = "control" /\ Answered /\ pc' = LeaveLock(p, NextControl)
             /\ UNCHANGED <<td, closed>>
    <3>1. chain # << >> /\ phase = "running"
      BY <1>1, <2>1, <2>3, ChainNotEmpty
    <3>2. NextControl = (IF chain' # << >> THEN "begin" ELSE "none")
      BY <1>1, <2>3, <3>1, ChainSteps DEF NextControl, Answered, TypeOK
    <3>3. /\ pc'["control"] = NextControl
          /\ pc'["restart"] = (IF pc["restart"] = "lock" THEN "locked" ELSE pc["restart"])
      BY <1>1, <2>3, LeaveMoves
    <3>4. QED
      BY <1>1, <2>1, <2>3, <3>1, <3>2, <3>3 DEF LockInv, ChainInv,
       LiveInv, TeardownInv, Holds, Swapping, Up, Greeting, Parties, Transient
  <2>4. QED
    BY <1>8, <2>2, <2>3 DEF SwapFails
<1>9. QED
  BY <1>3, <1>4, <1>5, <1>6, <1>7, <1>8 DEF SwapStep, Stopped, SpawnFails

LEMMA ControlKeeps ==
    ASSUME SessionInv,
           ControlBegins \/ CompactEnds \/ ControlLocked \/ ControlDrained \/ ControlDone
    PROVE  LockInv' /\ ChainInv' /\ LiveInv' /\ TeardownInv'
<1> USE DEF brokerVars, flags
<1>1. TypeOK /\ LockInv /\ ChainInv /\ LiveInv /\ TeardownInv
  BY DEF SessionInv
<1>2. pc["control"] # "none" /\ chain # << >> /\ phase = "running"
  BY <1>1, ChainNotEmpty DEF ControlBegins, CompactEnds, ControlLocked,
     ControlDrained, ControlDone
<1>3. Answered => NextControl = (IF chain' # << >> THEN "begin" ELSE "none")
  BY <1>1, <1>2, ChainSteps DEF NextControl, Answered, TypeOK
<1>4. CASE ControlBegins
  <2>1. CASE pc' = [pc EXCEPT !["control"] = "compact"]
    BY <1>1, <1>2, <1>4, <2>1 DEF ControlBegins, LockInv, ChainInv, LiveInv,
       TeardownInv, Holds, Swapping, Up, Greeting, TypeOK, Parties
  <2>2. CASE pc' = AskLock("control")
    BY <1>1, <1>2, <1>4, <2>2, AskMoves DEF ControlBegins, LockInv, ChainInv,
       LiveInv, TeardownInv, Holds, Swapping, Up, Greeting, Parties
  <2>3. QED
    BY <1>4, <2>1, <2>2 DEF ControlBegins
<1>5. CASE CompactEnds
  BY <1>1, <1>2, <1>3, <1>5 DEF CompactEnds, LockInv, ChainInv, LiveInv,
     TeardownInv, Holds, Swapping, Up, Greeting, TypeOK, Parties
<1>6. CASE ControlLocked
  BY <1>1, <1>2, <1>6 DEF ControlLocked, WaitForIdle, LockInv, ChainInv, LiveInv,
     TeardownInv, Holds, Swapping, Up, Greeting, TypeOK, Parties
<1>7. CASE ControlDrained
  <2>1. CASE Answered /\ pc' = LeaveLock("control", NextControl)
    BY <1>1, <1>2, <1>3, <1>7, <2>1, LeaveMoves DEF ControlDrained, LockInv,
       ChainInv, LiveInv, TeardownInv, Holds, Swapping, Up, Greeting, Parties
  <2>2. CASE pc' = [pc EXCEPT !["control"] = "stop"] /\ UNCHANGED <<chain, acks>>
    BY <1>1, <1>2, <1>7, <2>2 DEF ControlDrained, LockInv, ChainInv, LiveInv,
       TeardownInv, Holds, Swapping, Up, Greeting, TypeOK, Parties
  <2>3. QED
    BY <1>7, <2>1, <2>2 DEF ControlDrained
<1>8. CASE ControlDone
  BY <1>1, <1>2, <1>3, <1>8, LeaveMoves DEF ControlDone, LockInv, ChainInv,
     LiveInv, TeardownInv, Holds, Swapping, Up, Greeting, Parties
<1>9. QED
  BY <1>4, <1>5, <1>6, <1>7, <1>8

LEMMA RestartKeeps ==
    ASSUME SessionInv, RestartDrained \/ RestartLocked \/ RestartDone
    PROVE  LockInv' /\ ChainInv' /\ LiveInv' /\ TeardownInv'
<1> USE DEF brokerVars, flags
<1>1. TypeOK /\ LockInv /\ ChainInv /\ LiveInv /\ TeardownInv
  BY DEF SessionInv
<1>2. WaitForIdle \in {"drain", "drained"}
  BY DEF WaitForIdle
<1>3. CASE RestartDrained
  <2>1. CASE pc' = [pc EXCEPT !["restart"] = "none"]
    BY <1>1, <1>3, <2>1 DEF RestartDrained, LockInv, ChainInv, LiveInv,
       TeardownInv, Holds, Swapping, Up, Greeting, TypeOK, Parties
  <2>2. CASE pc' = AskLock("restart")
    BY <1>1, <1>3, <2>2, AskMoves DEF RestartDrained, LockInv, ChainInv,
       LiveInv, TeardownInv, Holds, Swapping, Up, Greeting, Parties
  <2>3. QED
    BY <1>3, <2>1, <2>2 DEF RestartDrained
<1>4. CASE RestartLocked
  <2>1. CASE pc' = LeaveLock("restart", "none")
    BY <1>1, <1>4, <2>1, LeaveMoves DEF RestartLocked, LockInv, ChainInv, LiveInv,
       TeardownInv, Holds, Swapping, Up, Greeting, Parties
  <2>2. CASE pc' = [pc EXCEPT !["restart"] = "stop"]
    BY <1>1, <1>4, <2>2 DEF RestartLocked, LockInv, ChainInv, LiveInv,
       TeardownInv, Holds, Swapping, Up, Greeting, TypeOK, Parties
  <2>3. QED
    BY <1>4, <2>1, <2>2 DEF RestartLocked
<1>5. CASE RestartDone
  BY <1>1, <1>2, <1>5, LeaveMoves DEF RestartDone, LockInv, ChainInv, LiveInv,
     TeardownInv, Holds, Swapping, Up, Greeting, Parties
<1>6. QED
  BY <1>3, <1>4, <1>5

(* What comes from outside moves a coordinator only out of a place in which *)
(* it neither holds the lock nor has stopped the agent.                     *)
LEMMA EventKeeps ==
    ASSUME SessionInv,
           \/ \E k \in Kinds : Edit(k) \/ Hear(k)
           \/ \E c \in Controls : Handle(c)
           \/ FirstSpawn
           \/ TurnStarts \/ TurnEnds \/ Block \/ Unblock
    PROVE  LockInv' /\ ChainInv' /\ LiveInv' /\ TeardownInv'
<1> USE DEF brokerVars, flags
<1>1. TypeOK /\ LockInv /\ ChainInv /\ LiveInv /\ TeardownInv
  BY DEF SessionInv
<1>2. ASSUME NEW k \in Kinds, Edit(k)
      PROVE  LockInv' /\ ChainInv' /\ LiveInv' /\ TeardownInv'
  BY <1>1, <1>2 DEF Edit, LockInv, ChainInv, LiveInv, TeardownInv, Holds, Up, Greeting
<1>3. ASSUME NEW k \in Kinds, Hear(k)
      PROVE  LockInv' /\ ChainInv' /\ LiveInv' /\ TeardownInv'
  BY SMTT(60), <1>1, <1>3 DEF Hear, Request, WaitForIdle, LockInv, ChainInv, LiveInv,
     TeardownInv, Holds, Swapping, Up, Greeting, TypeOK, Parties
<1>4. ASSUME NEW c \in Controls, Handle(c)
      PROVE  LockInv' /\ ChainInv' /\ LiveInv' /\ TeardownInv'
  <2>1. chain' # << >> \/ chain' = chain
    BY <1>1, <1>4 DEF Handle, TypeOK
  <2>2. QED
    BY <1>1, <1>4, <2>1 DEF Handle, LockInv, ChainInv, LiveInv,
     TeardownInv, Holds, Swapping, Up, Greeting, TypeOK, Parties
<1>5. CASE FirstSpawn
  BY <1>1, <1>5 DEF FirstSpawn, WaitForIdle, LockInv, ChainInv, LiveInv,
     TeardownInv, Holds, Swapping, Up, Greeting, TypeOK, Parties
<1>6. CASE TurnStarts \/ TurnEnds \/ Block \/ Unblock
  <2>1. /\ pc' = pc \/ pc' = Woken
        /\ UNCHANGED <<phase, live, current, closed, ctlClosed, chain, td>>
    BY <1>6 DEF TurnStarts, TurnEnds, Block, Unblock
  <2>2. \A p \in Parties :
           Woken[p] = (IF pc[p] = "drain" THEN "drained" ELSE pc[p])
    BY DEF Woken
  <2>3. QED
    BY <1>1, <2>1, <2>2 DEF LockInv, ChainInv, LiveInv, TeardownInv, Holds,
       Swapping, Up, Greeting, Parties
<1>7. QED
  BY <1>2, <1>3, <1>4, <1>5, <1>6

LEMMA EndKeeps ==
    ASSUME SessionInv, AgentExits \/ Signal \/ TeardownStep
    PROVE  LockInv' /\ ChainInv' /\ LiveInv' /\ TeardownInv'
<1> USE DEF brokerVars, flags
<1>1. TypeOK /\ LockInv /\ ChainInv /\ LiveInv /\ TeardownInv
  BY DEF SessionInv
<1>2. CASE AgentExits \/ Signal
  BY <1>1, <1>2 DEF AgentExits, Signal, BeginTeardown, LockInv, ChainInv, LiveInv,
     TeardownInv, Holds, Up, Greeting, TypeOK
<1>3. CASE RestartSettled \/ ControlSettled
  BY <1>1, <1>3 DEF RestartSettled, ControlSettled, LockInv, ChainInv, LiveInv,
     TeardownInv, Holds, Up, Greeting
<1>4. CASE AgentShutDown \/ SessionEndSent \/ RunnerDown
  BY <1>1, <1>4 DEF AgentShutDown, SessionEndSent, RunnerDown, LockInv, ChainInv,
     LiveInv, TeardownInv, Holds, Swapping, Up, Greeting, TypeOK, Parties
<1>5. QED
  BY <1>2, <1>3, <1>4 DEF TeardownStep

LEMMA SessionStarts == Init => SessionInv
<1> SUFFICES ASSUME Init PROVE SessionInv
  OBVIOUS
<1>1. pc = [p \in Parties |-> "none"] /\ "none" \in Places
  BY DEF Init, Places
<1>2. pc["restart"] = "none" /\ pc["control"] = "none" /\ \A p \in Parties : pc[p] = "none"
  BY <1>1 DEF Parties
<1>3. TypeOK
  <2>1. /\ [k \in Kinds |-> 0] \in [Kinds -> Nat]
        /\ [p \in Parties |-> 0] \in [Parties -> Nat]
        /\ [c \in Controls |-> 0] \in [Controls -> Nat]
        /\ pc \in [Parties -> Places]
    BY <1>1
  <2>2. << >> \in Seq(Controls) /\ {} \in SUBSET Kinds /\ 0 \in Nat
    OBVIOUS
  <2>3. QED
    BY <2>1, <2>2 DEF Init, TypeOK
<1>4. LockInv /\ ChainInv
  BY <1>2 DEF Init, LockInv, ChainInv, Holds, Swapping
<1>5. LiveInv /\ TeardownInv
  BY <1>2 DEF Init, LiveInv, TeardownInv, Up, Greeting, Swapping
<1>6. QED
  BY <1>3, <1>4, <1>5 DEF SessionInv

LEMMA SessionStays == SessionInv /\ [Next]_vars => SessionInv'
<1> SUFFICES ASSUME SessionInv, [Next]_vars PROVE SessionInv'
  OBVIOUS
<1>1. TypeOK'
  BY TypesKept
<1>2. LockInv' /\ ChainInv' /\ LiveInv' /\ TeardownInv'
  <2>1. CASE UNCHANGED vars
    BY <2>1 DEF SessionInv, LockInv, ChainInv, LiveInv, TeardownInv, Holds, Up,
       Greeting, vars
  <2>2. ASSUME NEW p \in Parties, SwapStep(p)
        PROVE  LockInv' /\ ChainInv' /\ LiveInv' /\ TeardownInv'
    BY <2>2, SwapKeeps
  <2>3. CASE RestartStep \/ ControlStep
    BY <2>2, <2>3, RestartKeeps, ControlKeeps DEF RestartStep, ControlStep, Parties
  <2>4. QED
    BY <2>1, <2>3, EventKeeps, EndKeeps DEF Next
<1>3. QED
  BY <1>1, <1>2 DEF SessionInv

(* No swap is under way once teardown has waited for the coordinators.      *)
LEMMA OneAgentFollows == SessionInv => OneAgent
<1> SUFFICES ASSUME SessionInv PROVE OneAgent
  OBVIOUS
<1>1. TypeOK /\ LockInv /\ ChainInv /\ LiveInv /\ TeardownInv
  BY DEF SessionInv
<1>2. live <= 1
  BY <1>1 DEF LockInv, LiveInv, Holds, Up, Greeting, Swapping, Parties
<1>3. ASSUME td \in {"end", "drain", "done", "rejected"} PROVE live = 0
  BY <1>1, <1>3 DEF ChainInv, LiveInv, TeardownInv, Up, Greeting, TypeOK
<1>4. QED
  BY <1>2, <1>3 DEF OneAgent

(* The variables of a runner session keep their types, whatever edits,      *)
(* controls, turns, exits and signals interleave.                           *)
THEOREM SessionTypeCorrect == Spec => []TypeOK
<1>1. SessionInv => TypeOK
  BY DEF SessionInv
<1>2. QED
  BY <1>1, SessionStarts, SessionStays, PTL DEF Spec

(* For any number of controls, edits and failures the restart coordinator,  *)
(* context control and teardown never have two agent processes alive, and   *)
(* none is left once the session_end is due (withLifecycleLock, settled()). *)
THEOREM SessionHasOneAgent == Spec => []OneAgent
BY OneAgentFollows, SessionStarts, SessionStays, PTL DEF Spec
-----------------------------------------------------------------------------
(* No control is answered while it is chained, none is chained twice.       *)
AckInv ==
    /\ AnsweredOnce
    /\ \A i \in DOMAIN chain : acks[chain[i]] = 0
    /\ \A i, j \in DOMAIN chain : chain[i] = chain[j] => i = j

(* The chain and the outcomes change together: a control joins the chain,   *)
(* is refused unchained, or leaves the chain answered.                      *)
LEMMA ChainMoves ==
    ASSUME SessionInv, [Next]_vars
    PROVE  \/ UNCHANGED <<chain, acks>>
           \/ chain # << >> /\ Answered
           \/ \E c \in Controls : Handle(c)
<1> USE DEF brokerVars, flags
<1>1. TypeOK /\ ChainInv
  BY DEF SessionInv
<1>2. pc["control"] # "none" => chain # << >>
  BY <1>1, ChainNotEmpty
<1>3. ASSUME NEW p \in Parties, SwapStep(p)
      PROVE  \/ chain' = chain /\ acks' = acks
             \/ chain # << >> /\ Answered
  <2>1. ASSUME pc[p] # "none", SwapFails(p)
        PROVE  \/ chain' = chain /\ acks' = acks
               \/ chain # << >> /\ Answered
    <3>1. CASE p = "restart"
      BY <2>1, <3>1 DEF SwapFails
    <3>2. CASE p = "control"
      <4>1. Answered
        BY <2>1, <3>2 DEF SwapFails
      <4>2. QED
        BY <1>2, <2>1, <3>2, <4>1
    <3>3. QED
      BY <3>1, <3>2 DEF Parties
  <2>2. CASE Stopped(p) \/ SpawnFails(p)
    <3>1. pc[p] # "none"
      BY <2>2 DEF Stopped, SpawnFails
    <3>2. \/ chain' = chain /\ acks' = acks
          \/ SwapFails(p)
      BY <2>2 DEF Stopped, SpawnFails
    <3>3. QED
      BY <2>1, <3>1, <3>2
  <2>3. QED
    BY <1>3, <2>2 DEF SwapStep, ReadInstructions, Fetched, FetchFails,
       ReadEnvironment, Resolved, ResolveFails, SpawnUp
<1>4. CASE RestartStep
  BY <1>3, <1>4 DEF RestartStep, RestartDrained, RestartLocked, RestartDone, Parties
<1>5. CASE ControlStep
  BY <1>2, <1>3, <1>5 DEF ControlStep, ControlBegins, CompactEnds, ControlLocked,
     ControlDrained, ControlDone, Parties
<1>6. CASE TeardownStep
  BY <1>6 DEF TeardownStep, RestartSettled, ControlSettled, AgentShutDown,
     SessionEndSent, RunnerDown
<1>7. QED
  BY <1>4, <1>5, <1>6 DEF Next, vars, Edit, Hear, FirstSpawn, TurnStarts, TurnEnds,
     Block, Unblock, AgentExits, Signal

LEMMA AcksStay == SessionInv /\ AckInv /\ [Next]_vars => AckInv'
<1> SUFFICES ASSUME SessionInv, AckInv, [Next]_vars PROVE AckInv'
  OBVIOUS
<1>1. chain \in Seq(Controls) /\ acks \in [Controls -> Nat]
  BY DEF SessionInv, TypeOK
<1>2. CASE UNCHANGED <<chain, acks>>
  BY <1>2 DEF AckInv, AnsweredOnce
<1>3. CASE chain # << >> /\ Answered
  <2>1. /\ Head(chain) = chain[1] /\ Len(chain) \in Nat \ {0}
        /\ chain' = Tail(chain) /\ Len(chain') = Len(chain) - 1
        /\ DOMAIN chain = 1..Len(chain) /\ DOMAIN chain' = 1..Len(chain')
        /\ \A i \in DOMAIN chain' : chain'[i] = chain[i + 1]
        /\ \A i \in DOMAIN chain : chain[i] \in Controls
    BY <1>1, <1>3 DEF Answered
  <2>2. /\ acks'[chain[1]] = 1
        /\ \A c \in Controls : c # chain[1] => acks'[c] = acks[c]
    BY <1>1, <1>3, <2>1 DEF Answered, AckInv
  <2>3. \A c \in Controls : acks'[c] <= 1
    BY <2>2 DEF AckInv, AnsweredOnce
  <2>4. \A i \in DOMAIN chain' : i + 1 \in DOMAIN chain /\ i + 1 # 1
    BY <2>1
  <2>5. \A i \in DOMAIN chain' : acks'[chain'[i]] = 0
    <3> TAKE i \in DOMAIN chain'
    <3>1. i + 1 \in DOMAIN chain /\ 1 \in DOMAIN chain /\ i + 1 # 1
      BY <2>1, <2>4
    <3>2. chain[i + 1] # chain[1] /\ acks[chain[i + 1]] = 0
      BY <3>1 DEF AckInv
    <3>3. QED
      BY <2>1, <2>2, <3>1, <3>2
  <2>6. \A i, j \in DOMAIN chain' : chain'[i] = chain'[j] => i = j
    <3> TAKE i, j \in DOMAIN chain'
    <3>1. HAVE chain'[i] = chain'[j]
    <3>2. i + 1 = j + 1
      BY <2>1, <2>4, <3>1 DEF AckInv
    <3>3. QED
      BY <2>1, <3>2
  <2>7. QED
    BY <2>3, <2>5, <2>6 DEF AckInv, AnsweredOnce
<1>4. ASSUME NEW c \in Controls, Handle(c) PROVE AckInv'
  <2>1. acks[c] = 0 /\ \A i \in DOMAIN chain : chain[i] # c
    BY <1>4 DEF Handle
  <2>2. CASE ctlClosed
    <3>1. chain' = chain /\ acks' = [acks EXCEPT ![c] = acks[c] + 1]
      BY <1>4, <2>2 DEF Handle
    <3>2. acks'[c] = 1 /\ \A d \in Controls : d # c => acks'[d] = acks[d]
      BY <1>1, <2>1, <3>1
    <3>3. \A i \in DOMAIN chain : chain[i] \in Controls
      BY <1>1
    <3>4. QED
      BY <2>1, <3>1, <3>2, <3>3 DEF AckInv, AnsweredOnce
  <2>3. CASE ~ctlClosed
    <3>1. chain' = Append(chain, c) /\ acks' = acks
      BY <1>4, <2>3 DEF Handle
    <3>2. /\ DOMAIN chain = 1..Len(chain) /\ DOMAIN chain' = 1..(Len(chain) + 1)
          /\ Len(chain) \in Nat
          /\ chain'[Len(chain) + 1] = c
          /\ \A i \in DOMAIN chain : chain'[i] = chain[i]
      BY <1>1, <3>1
    <3>3. \A i \in DOMAIN chain' : i \in DOMAIN chain \/ i = Len(chain) + 1
      BY <3>2
    <3>4. \A i \in DOMAIN chain' : acks'[chain'[i]] = 0
      BY <2>1, <3>1, <3>2, <3>3 DEF AckInv
    <3>5. \A i, j \in DOMAIN chain' : chain'[i] = chain'[j] => i = j
      BY <2>1, <3>2, <3>3 DEF AckInv
    <3>6. QED
      BY <3>1, <3>4, <3>5 DEF AckInv, AnsweredOnce
  <2>4. QED
    BY <2>2, <2>3
<1>5. QED
  BY <1>2, <1>3, <1>4, ChainMoves

(* For any number of controls, and whatever swap fails or is abandoned, the *)
(* broker is never told two outcomes of one control ("every path out of     *)
(* handle() emits exactly one").                                            *)
THEOREM ControlsAnsweredOnce == Spec => []AnsweredOnce
<1>1. Init => AckInv
  BY DEF Init, AckInv, AnsweredOnce
<1>2. AckInv => AnsweredOnce
  BY DEF AckInv
<1>3. QED
  BY <1>1, <1>2, SessionStarts, SessionStays, AcksStay, PTL DEF Spec
-----------------------------------------------------------------------------
(* Where a swap has k's answer in hand, and where a restart has yet to ask. *)
ReadAt(k) == IF k = "instructions" THEN "fetched" ELSE "resolved"
BeforeRead(k) ==
    {"drain", "drained", "lock", "locked", "stop", "fetch"} \cup
    (IF k = "instructions" THEN {} ELSE {"fetched", "resolve"})

(* Why a version the runner does not have is not forgotten: its event is on *)
(* the way, a restart is re-armed or has yet to read it, or has read it.    *)
Accounted(k) ==
    \/ k \in blind
    \/ packet[k] = version[k]
    \/ unheard[k] > 0
    \/ rearm
    \/ phase = "starting" /\ k \in early
    \/ pc["restart"] \in BeforeRead(k)
    \/ pc["restart"] = ReadAt(k) /\ answer["restart"] = version[k]

(* An answer is newer than the packet it replaces, and no newer than the    *)
(* broker.                                                                  *)
AnswersInv ==
    /\ \A k \in Kinds : packet[k] <= version[k]
    /\ \A p \in Parties, k \in Kinds :
          pc[p] = ReadAt(k) => packet[k] <= answer[p] /\ answer[p] <= version[k]

(* The agent that is up, or is being greeted, has the packet.               *)
SpawnInv ==
    /\ current = "up" => running = packet
    /\ \A p \in Parties : pc[p] = "greet" => running = packet

(* A session that is not ending is not closed, does not forget that it is   *)
(* re-armed, and covers nothing once both refetches are behind it.          *)
FlagsInv ==
    /\ closed => td # "no"
    /\ td = "no" /\ rearm => pc["restart"] # "none"
    /\ pc["restart"] \in {"spawn", "greet"} => ~covered

FreshInv ==
    /\ AnswersInv
    /\ SpawnInv
    /\ FlagsInv
    /\ td = "no" => \A k \in Kinds : Accounted(k)

(* What a step outside a swap does to the two coordinators' places.         *)
LEMMA OutsideSwap ==
    ASSUME SessionInv,
           \/ \E k \in Kinds : Edit(k) \/ Hear(k)
           \/ \E c \in Controls : Handle(c)
           \/ TurnStarts \/ TurnEnds \/ Block \/ Unblock
           \/ RestartDrained \/ RestartLocked \/ RestartDone
           \/ ControlBegins \/ CompactEnds \/ ControlLocked
           \/ ControlDrained \/ ControlDone
           \/ AgentExits \/ Signal \/ TeardownStep \/ FirstSpawn
    PROVE  /\ packet' = packet /\ answer' = answer
           /\ \A p \in Parties : pc'[p] \in Swapping \ {"stop"} => pc'[p] = pc[p]
<1> USE DEF brokerVars, flags
<1>1. TypeOK /\ LockInv /\ ChainInv /\ "restart" \in Parties /\ "control" \in Parties
      /\ \A p \in Parties : p = "restart" \/ p = "control"
  BY DEF SessionInv, Parties
<1>2. WaitForIdle \in {"drain", "drained"} /\ NextControl \in {"begin", "none"}
  BY DEF WaitForIdle, NextControl
<1>3. CASE \E k \in Kinds : Edit(k) \/ Hear(k)
  BY <1>1, <1>2, <1>3 DEF Edit, Hear, Request, Swapping, TypeOK
<1>4. CASE \E c \in Controls : Handle(c)
  BY <1>1, <1>4 DEF Handle, Swapping, TypeOK
<1>5. CASE FirstSpawn
  BY <1>1, <1>2, <1>5 DEF FirstSpawn, Swapping
<1>6. CASE TurnStarts \/ TurnEnds \/ Block \/ Unblock
  BY <1>1, <1>6 DEF TurnStarts, TurnEnds, Block, Unblock, Woken, Swapping
<1>7. CASE RestartDrained \/ ControlBegins
  BY <1>1, <1>7, AskMoves DEF RestartDrained, ControlBegins, Swapping, TypeOK
<1>8. CASE RestartLocked \/ RestartDone
  <2>1. \E at \in {"none", "drain", "drained"} :
           pc' = LeaveLock("restart", at) \/ pc' = [pc EXCEPT !["restart"] = "stop"]
    BY <1>2, <1>8 DEF RestartLocked, RestartDone
  <2>2. packet' = packet /\ answer' = answer
    BY <1>8 DEF RestartLocked, RestartDone
  <2>3. CASE pc' = [pc EXCEPT !["restart"] = "stop"]
    BY <1>1, <2>2, <2>3 DEF TypeOK
  <2>4. ASSUME NEW at \in {"none", "drain", "drained"}, pc' = LeaveLock("restart", at)
        PROVE  \A p \in Parties : pc'[p] \in Swapping \ {"stop"} => pc'[p] = pc[p]
    <3>1. /\ pc'["restart"] = at
          /\ pc'["control"] = IF pc["control"] = "lock" THEN "locked" ELSE pc["control"]
      BY <1>1, <2>4, LeaveMoves
    <3>2. QED
      BY <1>1, <3>1 DEF Swapping
  <2>5. QED
    BY <2>1, <2>2, <2>3, <2>4
<1>9. CASE CompactEnds \/ ControlLocked
  BY <1>1, <1>2, <1>9 DEF CompactEnds, ControlLocked, Swapping, TypeOK
<1>10. CASE ControlDrained \/ ControlDone
  <2>1. \/ pc' = LeaveLock("control", NextControl)
        \/ pc' = [pc EXCEPT !["control"] = "stop"]
    BY <1>10 DEF ControlDrained, ControlDone
  <2>2. packet' = packet /\ answer' = answer
    BY <1>10 DEF ControlDrained, ControlDone
  <2>3. CASE pc' = [pc EXCEPT !["control"] = "stop"]
    BY <1>1, <2>2, <2>3 DEF TypeOK
  <2>4. CASE pc' = LeaveLock("control", NextControl)
    <3>1. /\ pc'["control"] \in {"begin", "none"}
          /\ pc'["restart"] = IF pc["restart"] = "lock" THEN "locked" ELSE pc["restart"]
      BY <1>1, <1>2, <2>4, LeaveMoves
    <3>2. \A p \in Parties : pc'[p] \in Swapping \ {"stop"} => pc'[p] = pc[p]
      BY <1>1, <3>1 DEF Swapping
    <3>3. QED
      BY <2>2, <3>2
  <2>5. QED
    BY <2>1, <2>3, <2>4
<1>11. CASE AgentExits \/ Signal \/ TeardownStep
  BY <1>11 DEF AgentExits, Signal, TeardownStep, RestartSettled, ControlSettled,
     AgentShutDown, SessionEndSent, RunnerDown
<1>12. QED
  BY <1>3, <1>4, <1>5, <1>6, <1>7, <1>8, <1>9, <1>10, <1>11

(* A swap that fails leaves the lock and nothing in hand.                   *)
LEMMA FailMoves ==
    ASSUME SessionInv, NEW p \in Parties, pc[p] # "none", SwapFails(p)
    PROVE  /\ \A q \in Parties : pc'[q] \in Swapping \ {"stop"} => pc'[q] = pc[q]
           /\ pc'[p] \in {"none", "begin"}
           /\ p = "restart" => td' # "no" /\ pc'["restart"] = "none"
           /\ p = "control" => /\ UNCHANGED <<td, closed>>
                               /\ pc'["restart"] = (IF pc["restart"] = "lock" THEN "locked"
                                                    ELSE pc["restart"])
           /\ closed' => closed \/ td' # "no"
<1>1. TypeOK /\ "restart" \in Parties /\ "control" \in Parties
      /\ \A q \in Parties : q = "restart" \/ q = "control"
  BY DEF SessionInv, Parties
<1>2. NextControl \in {"begin", "none"}
  BY DEF NextControl
<1>3. QED
  BY <1>1, <1>2, LeaveMoves DEF SwapFails, BeginTeardown, Swapping

(* No answer overtakes the broker, none is older than what it replaces.     *)
LEMMA AnswersStay == SessionInv /\ AnswersInv /\ [Next]_vars => AnswersInv'
<1> SUFFICES ASSUME SessionInv, AnswersInv, [Next]_vars PROVE AnswersInv'
  OBVIOUS
<1> USE DEF brokerVars, flags
<1>1. /\ TypeOK /\ LockInv /\ "restart" \in Parties /\ "control" \in Parties
      /\ \A p \in Parties : p = "restart" \/ p = "control"
      /\ "instructions" \in Kinds /\ "environment" \in Kinds
  BY DEF SessionInv, Parties, Kinds
<1>2. \A k \in Kinds : /\ packet[k] \in Nat /\ version[k] \in Nat
                       /\ ReadAt(k) \in {"fetched", "resolved"}
                       /\ ReadAt(k) \in Swapping \ {"stop"}
  BY <1>1 DEF TypeOK, ReadAt, Swapping
<1>3. ASSUME packet' = packet, answer' = answer, version' = version,
             \A p \in Parties : pc'[p] \in Swapping \ {"stop"} => pc'[p] = pc[p]
      PROVE  AnswersInv'
  BY <1>2, <1>3 DEF AnswersInv, ReadAt
<1>4. ASSUME NEW k \in Kinds, Edit(k) PROVE AnswersInv'
  <2>1. /\ \A j \in Kinds : version'[j] \in Nat /\ version[j] <= version'[j]
        /\ UNCHANGED <<packet, answer, pc>>
    <3>1. version' = [version EXCEPT ![k] = version[k] + 1]
      BY <1>4 DEF Edit
    <3>2. version \in [Kinds -> Nat]
      BY <1>1 DEF TypeOK
    <3>3. \A j \in Kinds : version'[j] \in Nat /\ version[j] <= version'[j]
      BY <3>1, <3>2
    <3>4. QED
      BY <1>4, <3>3 DEF Edit
  <2>2. \A p \in Parties : answer[p] \in Nat
    BY <1>1 DEF TypeOK
  <2>3. QED
    BY <1>2, <2>1, <2>2 DEF AnswersInv, ReadAt
<1>5. ASSUME NEW p \in Parties, SwapStep(p) PROVE AnswersInv'
  <2>1. \A q \in Parties : q # p => pc[q] \notin {"fetched", "resolved"}
    BY <1>1, <1>5 DEF SwapStep, Stopped, ReadInstructions, Fetched, FetchFails,
       ReadEnvironment, Resolved, ResolveFails, SpawnUp, SpawnFails, LockInv, Holds,
       Swapping
  <2>2. version' = version
    BY <1>5 DEF SwapStep, Stopped, ReadInstructions, Fetched, FetchFails,
       ReadEnvironment, Resolved, ResolveFails, SpawnUp, SpawnFails
  <2>3. CASE ReadInstructions(p) \/ ReadEnvironment(p)
    <3>1. /\ pc'[p] \in {"fetched", "resolved"}
          /\ \A k \in Kinds : pc'[p] = ReadAt(k) => answer'[p] = version[k]
          /\ \A q \in Parties : q # p => pc'[q] = pc[q]
          /\ packet' = packet
      BY <1>1, <2>3 DEF ReadInstructions, ReadEnvironment, ReadAt, TypeOK, Kinds
    <3>2. QED
      BY <1>2, <2>1, <2>2, <3>1 DEF AnswersInv, ReadAt
  <2>4. CASE Fetched(p) \/ FetchFails(p) \/ Resolved(p) \/ ResolveFails(p)
    <3>1. /\ pc'[p] \in {"spawn", "resolve"}
          /\ \A q \in Parties : q # p => pc'[q] = pc[q]
      BY <1>1, <2>4 DEF Fetched, FetchFails, Resolved, ResolveFails,
         AfterInstructions, TypeOK
    <3>2. \A k \in Kinds : packet'[k] = packet[k] \/ (packet'[k] = answer[p] /\ pc[p] = ReadAt(k))
      <4>1. \/ packet' = packet
            \/ /\ packet' = [packet EXCEPT !["instructions"] = answer[p]]
               /\ pc[p] = ReadAt("instructions")
            \/ /\ packet' = [packet EXCEPT !["environment"] = answer[p]]
               /\ pc[p] = ReadAt("environment")
        BY <2>4 DEF Fetched, FetchFails, Resolved, ResolveFails, Refreshed, ReadAt
      <4>2. packet \in [Kinds -> Nat]
        BY <1>1 DEF TypeOK
      <4>3. ASSUME NEW j \in Kinds, packet' = [packet EXCEPT ![j] = answer[p]],
                   pc[p] = ReadAt(j), NEW k \in Kinds
            PROVE  packet'[k] = packet[k] \/ (packet'[k] = answer[p] /\ pc[p] = ReadAt(k))
        <5>1. CASE k = j
          BY <4>2, <4>3, <5>1
        <5>2. CASE k # j
          BY <4>2, <4>3, <5>2
        <5>3. QED
          BY <5>1, <5>2
      <4>4. CASE packet' = packet
        BY <4>4
      <4>5. CASE packet' # packet
        <5>1. PICK j \in Kinds : packet' = [packet EXCEPT ![j] = answer[p]]
                                 /\ pc[p] = ReadAt(j)
          BY <1>1, <4>1, <4>5
        <5>2. QED
          BY <4>3, <5>1
      <4>6. QED
        BY <4>4, <4>5
    <3>3. QED
      BY <1>2, <2>1, <2>2, <3>1, <3>2 DEF AnswersInv, ReadAt
  <2>5. CASE Stopped(p) \/ SpawnFails(p) \/ SpawnUp(p)
    <3>1. packet' = packet /\ answer' = answer
      BY <2>5 DEF Stopped, SpawnFails, SpawnUp
    <3>2. \A q \in Parties : pc'[q] \in {"fetched", "resolved"} => pc'[q] = pc[q]
      <4>1. pc[p] # "none"
        BY <2>5 DEF Stopped, SpawnFails, SpawnUp
      <4>2. CASE SwapFails(p)
        BY <4>1, <4>2, FailMoves DEF Swapping
      <4>3. QED
        BY <1>1, <2>5, <4>2 DEF Stopped, SpawnFails, SpawnUp, TypeOK
    <3>3. QED
      BY <1>2, <2>2, <3>1, <3>2 DEF AnswersInv, ReadAt
  <2>6. QED
    BY <1>5, <2>3, <2>4, <2>5 DEF SwapStep
<1>6. CASE UNCHANGED vars
  BY <1>3, <1>6 DEF vars
<1>7. CASE (\E k \in Kinds : Edit(k)) \/ SwapStep("restart") \/ SwapStep("control")
  BY <1>1, <1>4, <1>5, <1>7
<1>8. QED
  <2>1. ASSUME ~((\E k \in Kinds : Edit(k)) \/ SwapStep("restart") \/ SwapStep("control")),
               Next
        PROVE  version' = version
    BY <2>1 DEF Next, RestartStep, ControlStep, TeardownStep, Hear, Handle, FirstSpawn,
       TurnStarts, TurnEnds, Block, Unblock, RestartDrained, RestartLocked, RestartDone,
       ControlBegins, CompactEnds, ControlLocked, ControlDrained, ControlDone,
       AgentExits, Signal, RestartSettled, ControlSettled, AgentShutDown,
       SessionEndSent, RunnerDown
  <2>2. QED
    BY <1>3, <1>6, <1>7, <2>1, OutsideSwap DEF Next, RestartStep, ControlStep

(* The agent that is up runs on the packet: a refetch is made while none is *)
(* up and none is greeted.                                                  *)
LEMMA SpawnStays == SessionInv /\ SpawnInv /\ [Next]_vars => SpawnInv'
<1> SUFFICES ASSUME SessionInv, SpawnInv, [Next]_vars PROVE SpawnInv'
  OBVIOUS
<1> USE DEF brokerVars, flags
<1>1. TypeOK /\ LockInv /\ LiveInv /\ "restart" \in Parties /\ "control" \in Parties
      /\ \A p \in Parties : p = "restart" \/ p = "control"
  BY DEF SessionInv, Parties
<1>2. ASSUME NEW p \in Parties, SwapStep(p) PROVE SpawnInv'
  <2>1. CASE SpawnUp(p)
    BY <1>1, <2>1 DEF SpawnUp, SpawnInv, TypeOK
  <2>2. CASE ReadInstructions(p) \/ Fetched(p) \/ FetchFails(p)
             \/ ReadEnvironment(p) \/ Resolved(p) \/ ResolveFails(p)
    <3>1. /\ pc[p] \in {"fetch", "fetched", "resolve", "resolved"}
          /\ pc'[p] \in {"fetched", "resolve", "resolved", "spawn"}
          /\ \A q \in Parties : q # p => pc'[q] = pc[q]
          /\ current' = current
      BY <1>1, <2>2 DEF ReadInstructions, Fetched, FetchFails, ReadEnvironment,
         Resolved, ResolveFails, AfterInstructions, TypeOK
    <3>2. current = "down" /\ \A q \in Parties : pc[q] # "greet"
      BY <1>1, <3>1 DEF LiveInv, LockInv, Holds, Swapping
    <3>3. \A q \in Parties : pc'[q] # "greet"
      BY <1>1, <3>1, <3>2
    <3>4. QED
      BY <3>1, <3>2, <3>3 DEF SpawnInv
  <2>3. CASE Stopped(p) \/ SpawnFails(p)
    <3>1. /\ UNCHANGED <<packet, running>>
          /\ current' = "down" \/ current' = current
      BY <2>3 DEF Stopped, SpawnFails
    <3>2. \A q \in Parties : pc'[q] = "greet" => pc[q] = "greet"
      <4>1. pc[p] # "none"
        BY <2>3 DEF Stopped, SpawnFails
      <4>2. CASE SwapFails(p)
        BY <4>1, <4>2, FailMoves DEF Swapping
      <4>3. QED
        BY <1>1, <2>3, <4>2 DEF Stopped, SpawnFails, TypeOK
    <3>3. QED
      BY <3>1, <3>2 DEF SpawnInv
  <2>4. QED
    BY <1>2, <2>1, <2>2, <2>3 DEF SwapStep
<1>3. CASE UNCHANGED vars
  BY <1>3 DEF SpawnInv, vars
<1>4. CASE FirstSpawn
  BY <1>1, <1>4 DEF FirstSpawn, SpawnInv, WaitForIdle
<1>5. CASE RestartDone \/ ControlDone
  <2>1. running = packet
    BY <1>1, <1>5 DEF RestartDone, ControlDone, SpawnInv
  <2>2. running' = packet' 
    BY <1>5, <2>1 DEF RestartDone, ControlDone
  <2>3. QED
    BY <2>2 DEF SpawnInv
<1>6. CASE /\ Next
           /\ ~(SwapStep("restart") \/ SwapStep("control") \/ FirstSpawn
                \/ RestartDone \/ ControlDone)
  <2>1. running' = running /\ (current' = current \/ current' = "down")
    BY <1>6 DEF Next, RestartStep, ControlStep, TeardownStep, Edit, Hear, Handle,
       TurnStarts, TurnEnds, Block, Unblock, RestartDrained, RestartLocked,
       ControlBegins, CompactEnds, ControlLocked, ControlDrained,
       AgentExits, Signal, RestartSettled, ControlSettled, AgentShutDown,
       SessionEndSent, RunnerDown
  <2>2. /\ packet' = packet
        /\ \A p \in Parties : pc'[p] = "greet" => pc[p] = "greet"
    BY <1>6, OutsideSwap DEF Next, RestartStep, ControlStep, Swapping
  <2>3. QED
    BY <2>1, <2>2 DEF SpawnInv
<1>7. QED
  BY <1>1, <1>2, <1>3, <1>4, <1>5, <1>6

(* A session that is not ending has not closed its coordinator.             *)
LEMMA FlagsStay == SessionInv /\ FlagsInv /\ [Next]_vars => FlagsInv'
<1> SUFFICES ASSUME SessionInv, FlagsInv, [Next]_vars PROVE FlagsInv'
  OBVIOUS
<1> USE DEF brokerVars, flags
<1>1. TypeOK /\ LockInv /\ ChainInv /\ "restart" \in Parties /\ "control" \in Parties
      /\ \A p \in Parties : p = "restart" \/ p = "control"
  BY DEF SessionInv, Parties
<1>2. WaitForIdle \in {"drain", "drained"} /\ NextControl \in {"begin", "none"}
  BY DEF WaitForIdle, NextControl
<1>3. ASSUME UNCHANGED <<td, closed, flags>>,
             \/ pc'["restart"] = pc["restart"]
             \/ pc'["restart"] \notin {"none", "spawn", "greet"}
      PROVE  FlagsInv'
  BY <1>3 DEF FlagsInv
<1>4. ASSUME NEW p \in Parties, SwapStep(p) PROVE FlagsInv'
  <2>1. CASE Stopped(p) \/ SpawnFails(p)
    <3>1. pc[p] # "none" /\ UNCHANGED flags
      BY <2>1 DEF Stopped, SpawnFails
    <3>2. CASE SwapFails(p)
      BY <1>1, <3>1, <3>2, FailMoves DEF FlagsInv, SwapFails, BeginTeardown
    <3>3. CASE ~SwapFails(p)
      <4>1. UNCHANGED <<td, closed>> /\ pc' = [pc EXCEPT ![p] = "fetch"]
        BY <2>1, <3>3 DEF Stopped, SpawnFails
      <4>2. QED
        BY <1>1, <1>3, <3>1, <4>1 DEF TypeOK
    <3>4. QED
      BY <3>2, <3>3
  <2>2. CASE ReadInstructions(p) \/ Fetched(p) \/ ReadEnvironment(p)
    BY <1>1, <1>3, <2>2 DEF ReadInstructions, Fetched, ReadEnvironment,
       AfterInstructions, TypeOK
  <2>3. CASE FetchFails(p)
    BY <1>1, <2>3 DEF FetchFails, AfterInstructions, TypeOK, FlagsInv
  <2>4. CASE Resolved(p) \/ ResolveFails(p)
    <3>1. /\ UNCHANGED <<td, closed, rearm>> /\ pc[p] # "none"
          /\ pc' = [pc EXCEPT ![p] = "spawn"]
          /\ covered' = (covered /\ p # "restart")
      BY <2>4 DEF Resolved, ResolveFails
    <3>2. CASE p = "restart"
      BY <1>1, <3>1, <3>2 DEF TypeOK, FlagsInv
    <3>3. CASE p = "control"
      BY <1>1, <1>3, <3>1, <3>3 DEF TypeOK
    <3>4. QED
      BY <1>1, <3>2, <3>3
  <2>5. CASE SpawnUp(p)
    BY <1>1, <2>5 DEF SpawnUp, TypeOK, FlagsInv
  <2>6. QED
    BY <1>4, <2>1, <2>2, <2>3, <2>4, <2>5 DEF SwapStep
<1>5. CASE RestartDrained \/ RestartLocked
  <2>1. UNCHANGED <<td, closed, flags>>
    BY <1>5 DEF RestartDrained, RestartLocked
  <2>2. CASE closed
    <3>1. pc'["restart"] = "none"
      BY <1>1, <1>5, <2>2, LeaveMoves DEF RestartDrained, RestartLocked, TypeOK
    <3>2. QED
      BY <2>1, <2>2, <3>1 DEF FlagsInv
  <2>3. CASE ~closed
    <3>1. pc' = AskLock("restart") \/ pc' = [pc EXCEPT !["restart"] = "stop"]
      BY <1>5, <2>3 DEF RestartDrained, RestartLocked
    <3>2. pc'["restart"] \in {"lock", "locked", "stop"}
      BY <1>1, <3>1, AskMoves DEF TypeOK
    <3>3. QED
      BY <1>3, <2>1, <3>2
  <2>4. QED
    BY <2>2, <2>3
<1>6. CASE RestartDone
  BY <1>1, <1>2, <1>6, LeaveMoves DEF RestartDone, TypeOK, FlagsInv
<1>7. CASE ControlBegins \/ CompactEnds \/ ControlLocked \/ ControlDrained \/ ControlDone
  <2>1. UNCHANGED <<td, closed, flags>>
    BY <1>7 DEF ControlBegins, CompactEnds, ControlLocked, ControlDrained, ControlDone
  <2>2. pc'["restart"] = pc["restart"] \/ pc'["restart"] = "locked"
    BY <1>1, <1>7, AskMoves, LeaveMoves DEF ControlBegins, CompactEnds, ControlLocked,
       ControlDrained, ControlDone, TypeOK
  <2>3. QED
    BY <1>3, <2>1, <2>2
<1>8. CASE \E k \in Kinds : Edit(k) \/ Hear(k)
  BY <1>1, <1>2, <1>8 DEF Edit, Hear, Request, TypeOK, FlagsInv
<1>9. CASE \E c \in Controls : Handle(c)
  BY <1>1, <1>3, <1>9 DEF Handle, TypeOK
<1>10. CASE FirstSpawn
  BY <1>1, <1>2, <1>10 DEF FirstSpawn, ChainInv, FlagsInv, TypeOK
<1>11. CASE TurnStarts \/ TurnEnds \/ Block \/ Unblock
  BY <1>1, <1>3, <1>11 DEF TurnStarts, TurnEnds, Block, Unblock, Woken
<1>12. CASE AgentExits \/ Signal \/ TeardownStep
  BY <1>12 DEF AgentExits, Signal, BeginTeardown, TeardownStep, RestartSettled,
     ControlSettled, AgentShutDown, SessionEndSent, RunnerDown, FlagsInv
<1>13. CASE UNCHANGED vars
  BY <1>3, <1>13 DEF vars
<1>14. QED
  BY <1>1, <1>4, <1>5, <1>6, <1>7, <1>8, <1>9, <1>10, <1>11, <1>12, <1>13
  DEF Next, RestartStep, ControlStep

(* A version stays accounted for: heard, it re-arms a restart or has one    *)
(* read it; read, it is in the packet; read too late, it is in blind.       *)
LEMMA AccountsStay ==
    ASSUME SessionInv, FreshInv, [Next]_vars, td' = "no", NEW k \in Kinds
    PROVE  Accounted(k)'
<1> USE DEF brokerVars, flags
<1>1. TypeOK /\ LockInv /\ ChainInv /\ TeardownInv /\ FlagsInv /\ AnswersInv
      /\ "restart" \in Parties /\ "control" \in Parties
      /\ (\A p \in Parties : p = "restart" \/ p = "control")
      /\ (\A j \in Kinds : j = "instructions" \/ j = "environment")
      /\ "instructions" \in Kinds /\ "environment" \in Kinds
  BY DEF SessionInv, FreshInv, Parties, Kinds
<1>2. WaitForIdle \in {"drain", "drained"} /\ NextControl \in {"begin", "none"}
  BY DEF WaitForIdle, NextControl
<1>3. td = "no"
  <2>1. ASSUME NEW p \in Parties, SwapStep(p) PROVE td' = td \/ td' # "no"
    BY <2>1 DEF SwapStep, Stopped, ReadInstructions, Fetched, FetchFails,
       ReadEnvironment, Resolved, ResolveFails, SpawnUp, SpawnFails, SwapFails,
       BeginTeardown
  <2>2. CASE RestartStep \/ ControlStep
    BY <1>1, <2>1, <2>2 DEF RestartStep, ControlStep, RestartDrained, RestartLocked,
       RestartDone, ControlBegins, CompactEnds, ControlLocked, ControlDrained,
       ControlDone
  <2>3. CASE AgentExits \/ Signal \/ TeardownStep
    BY <2>3 DEF AgentExits, Signal, BeginTeardown, TeardownStep, RestartSettled,
       ControlSettled, AgentShutDown, SessionEndSent, RunnerDown
  <2>4. QED
    BY <2>2, <2>3 DEF Next, vars, Edit, Hear, Handle, FirstSpawn, TurnStarts,
       TurnEnds, Block, Unblock
<1>4. ~closed /\ Accounted(k)
  BY <1>3 DEF FreshInv, FlagsInv
<1>5. ASSUME UNCHANGED <<phase, early, version, unheard, packet, rearm, blind>>,
             answer'["restart"] = answer["restart"],
             \/ pc'["restart"] = pc["restart"]
             \/ pc["restart"] \in {"none", "spawn", "greet"}
             \/ pc'["restart"] \in {"drain", "drained", "lock", "locked", "stop", "fetch"}
      PROVE  Accounted(k)'
  BY <1>4, <1>5 DEF Accounted, BeforeRead, ReadAt
<1>6. CASE \E j \in Kinds : Edit(j)
  <2>1. PICK j \in Kinds : Edit(j)
    BY <1>6
  <2>2. unheard[k] \in Nat /\ version[k] \in Nat
    BY <1>1 DEF TypeOK
  <2>3. CASE j = k
    BY <1>1, <2>1, <2>2, <2>3 DEF Edit, TypeOK, Accounted
  <2>4. CASE j # k
    BY <1>1, <1>4, <2>1, <2>4 DEF Edit, TypeOK, Accounted, BeforeRead, ReadAt
  <2>5. QED
    BY <2>3, <2>4
<1>7. CASE \E j \in Kinds : Hear(j)
  <2>1. PICK j \in Kinds : Hear(j)
    BY <1>7
  <2>2. UNCHANGED <<phase, version, packet, answer>>
    BY <2>1 DEF Hear
  <2>3. j # k => unheard'[k] = unheard[k]
    BY <1>1, <2>1 DEF Hear, TypeOK
  <2>4. CASE phase = "starting"
    BY <1>4, <2>1, <2>2, <2>3, <2>4 DEF Hear, Accounted, BeforeRead, ReadAt
  <2>5. CASE phase # "starting"
    <3>1. /\ Request /\ early' = early
          /\ blind' = IF TooLate(j) THEN blind \cup {j} ELSE blind
      BY <2>1, <2>5 DEF Hear
    <3>2. CASE pc["restart"] = "none"
      <4>1. pc'["restart"] \in {"drain", "drained"}
        BY <1>1, <1>2, <1>4, <3>1, <3>2 DEF Request, TypeOK
      <4>2. QED
        BY <4>1 DEF Accounted, BeforeRead
    <3>3. CASE pc["restart"] # "none" /\ ~covered
      BY <1>4, <3>1, <3>3 DEF Request, Accounted
    <3>4. CASE pc["restart"] # "none" /\ covered
      <4>1. UNCHANGED <<pc, covered, rearm>>
        BY <1>4, <3>1, <3>4 DEF Request
      <4>2. CASE j # k
        BY <1>4, <2>2, <2>3, <2>5, <3>1, <4>1, <4>2 DEF Accounted, BeforeRead, ReadAt
      <4>3. CASE j = k
        <5>1. CASE TooLate(k)
          BY <3>1, <4>3, <5>1 DEF Accounted
        <5>2. CASE ~TooLate(k)
          <6>1. pc["restart"] \notin {"none", "begin", "compact", "spawn", "greet"}
            BY <1>1, <3>4 DEF LockInv, FlagsInv
          <6>2. pc["restart"] \in Places
            BY <1>1 DEF TypeOK
          <6>3. pc["restart"] \in BeforeRead(k)
            BY <1>1, <3>4, <5>2, <6>1, <6>2
            DEF TooLate, BeforeRead, Places, Transient, Swapping
          <6>4. QED
            BY <4>1, <6>3 DEF Accounted, BeforeRead
        <5>3. QED
          BY <5>1, <5>2
      <4>4. QED
        BY <4>2, <4>3
    <3>5. QED
      BY <3>2, <3>3, <3>4
  <2>6. QED
    BY <2>4, <2>5
<1>8. CASE FirstSpawn
  <2>1. /\ UNCHANGED <<version, unheard, packet, answer, rearm, blind>>
        /\ pc["restart"] = "none"
        /\ pc'["restart"] = IF early # {} THEN WaitForIdle ELSE "none"
    BY <1>1, <1>8 DEF FirstSpawn, ChainInv
  <2>2. CASE early # {}
    BY <1>2, <2>1, <2>2 DEF Accounted, BeforeRead
  <2>3. CASE early = {}
    BY <1>4, <2>1, <2>3 DEF Accounted, BeforeRead, ReadAt
  <2>4. QED
    BY <2>2, <2>3
<1>9. CASE RestartDrained \/ RestartLocked
  BY <1>1, <1>4, <1>5, <1>9, AskMoves DEF RestartDrained, RestartLocked, TypeOK
<1>10. CASE RestartDone
  <2>1. CASE rearm
    BY <1>2, <1>4, <1>10, <2>1, LeaveMoves, <1>1 DEF RestartDone, Accounted, BeforeRead
  <2>2. CASE ~rearm
    BY <1>1, <1>5, <1>10, <2>2 DEF RestartDone
  <2>3. QED
    BY <2>1, <2>2
<1>11. CASE ControlBegins \/ CompactEnds \/ ControlLocked \/ ControlDrained \/ ControlDone
  <2>1. UNCHANGED <<phase, early, version, unheard, packet, rearm, blind, answer>>
    BY <1>11 DEF ControlBegins, CompactEnds, ControlLocked, ControlDrained, ControlDone
  <2>2. pc'["restart"] = pc["restart"] \/ pc'["restart"] = "locked"
    <3>1. \/ pc' = AskLock("control")
          \/ \E at : pc' = LeaveLock("control", at) \/ pc' = [pc EXCEPT !["control"] = at]
      BY <1>11 DEF ControlBegins, CompactEnds, ControlLocked, ControlDrained, ControlDone
    <3>2. CASE pc' = AskLock("control")
      BY <1>1, <3>2, AskMoves
    <3>3. ASSUME NEW at, pc' = LeaveLock("control", at)
          PROVE  pc'["restart"] = pc["restart"] \/ pc'["restart"] = "locked"
      BY <1>1, <3>3, LeaveMoves
    <3>4. ASSUME NEW at, pc' = [pc EXCEPT !["control"] = at]
          PROVE  pc'["restart"] = pc["restart"]
      BY <1>1, <3>4 DEF TypeOK
    <3>5. QED
      BY <3>1, <3>2, <3>3, <3>4
  <2>3. QED
    BY <1>5, <2>1, <2>2
<1>12. CASE \/ \E c \in Controls : Handle(c)
            \/ TurnStarts \/ TurnEnds \/ Block \/ Unblock
  BY <1>1, <1>5, <1>12 DEF Handle, TurnStarts, TurnEnds, Block, Unblock, Woken, TypeOK
<1>13. CASE UNCHANGED vars
  BY <1>5, <1>13 DEF vars
<1>14. CASE AgentExits \/ Signal \/ TeardownStep
  BY <1>3, <1>14 DEF AgentExits, Signal, BeginTeardown, TeardownStep, RestartSettled,
     ControlSettled, AgentShutDown, SessionEndSent, RunnerDown
<1>15. ASSUME NEW p \in Parties, SwapStep(p) PROVE Accounted(k)'
  <2>1. UNCHANGED <<phase, early, version, unheard>>
    BY <1>15 DEF SwapStep, Stopped, ReadInstructions, Fetched, FetchFails,
       ReadEnvironment, Resolved, ResolveFails, SpawnUp, SpawnFails
  <2>2. CASE Stopped(p) \/ SpawnFails(p)
    <3>1. UNCHANGED <<phase, early, version, unheard, packet, rearm, blind, answer>>
          /\ pc[p] # "none"
      BY <2>2 DEF Stopped, SpawnFails
    <3>2. CASE SwapFails(p)
      BY <1>1, <1>5, <3>1, <3>2, FailMoves
    <3>3. CASE ~SwapFails(p)
      <4>1. pc' = [pc EXCEPT ![p] = "fetch"]
        BY <2>2, <3>3 DEF Stopped, SpawnFails
      <4>2. QED
        BY <1>1, <1>5, <3>1, <4>1 DEF TypeOK
    <3>4. QED
      BY <3>2, <3>3
  <2>3. CASE SpawnUp(p)
    BY <1>1, <1>5, <2>3 DEF SpawnUp, TypeOK
  <2>4. CASE ReadInstructions(p) \/ ReadEnvironment(p)
    <3>1. UNCHANGED <<packet, rearm, blind>>
      BY <2>4 DEF ReadInstructions, ReadEnvironment
    <3>2. CASE p = "control"
      BY <1>1, <1>5, <2>1, <2>4, <3>1, <3>2 DEF ReadInstructions, ReadEnvironment, TypeOK
    <3>3. CASE ReadInstructions("restart")
      <4>1. pc["restart"] = "fetch" /\ pc'["restart"] = "fetched"
            /\ answer'["restart"] = version["instructions"]
        BY <1>1, <3>3 DEF ReadInstructions, TypeOK
      <4>2. QED
        BY <1>1, <2>1, <4>1 DEF Accounted, BeforeRead, ReadAt
    <3>4. CASE ReadEnvironment("restart")
      <4>1. pc["restart"] = "resolve" /\ pc'["restart"] = "resolved"
            /\ answer'["restart"] = version["environment"]
        BY <1>1, <3>4 DEF ReadEnvironment, TypeOK
      <4>2. CASE k = "environment"
        BY <2>1, <4>1, <4>2 DEF Accounted, ReadAt
      <4>3. CASE k = "instructions"
        BY <1>4, <2>1, <3>1, <4>1, <4>3 DEF Accounted, BeforeRead, ReadAt
      <4>4. QED
        BY <1>1, <4>2, <4>3
    <3>5. QED
      BY <1>1, <2>4, <3>2, <3>3, <3>4
  <2>5. CASE FetchFails(p)
    <3>1. CASE p = "restart"
      BY <2>5, <3>1 DEF FetchFails, Accounted
    <3>2. CASE p = "control"
      <4>1. rearm' = rearm /\ pc'["restart"] = pc["restart"]
            /\ answer'["restart"] = answer["restart"] /\ UNCHANGED <<packet, blind>>
        BY <1>1, <2>5, <3>2 DEF FetchFails, TypeOK
      <4>2. QED
        BY <1>5, <2>1, <4>1
    <3>3. QED
      BY <1>1, <3>1, <3>2
  <2>6. CASE ResolveFails(p)
    <3>1. CASE k = "environment"
      BY <2>6, <3>1 DEF ResolveFails, Accounted
    <3>2. CASE k = "instructions"
      <4>1. /\ pc'["restart"] = pc["restart"] \/ pc["restart"] \in {"resolve", "resolved"}
            /\ pc'["restart"] = pc["restart"] => answer'["restart"] = answer["restart"]
            /\ UNCHANGED <<packet, rearm>> /\ blind \subseteq blind'
        BY <1>1, <2>6 DEF ResolveFails, TypeOK
      <4>2. QED
        BY <1>4, <2>1, <3>2, <4>1 DEF Accounted, BeforeRead, ReadAt
    <3>3. QED
      BY <1>1, <3>1, <3>2
  <2>7. CASE Fetched(p) \/ Resolved(p)
    <3>1. PICK j \in Kinds : pc[p] = ReadAt(j) /\ Refreshed(p, j)
                             /\ (j = "instructions" <=> pc[p] = "fetched")
      BY <1>1, <2>7 DEF Fetched, Resolved, ReadAt
    <3>2. /\ packet'[j] = answer[p]
          /\ \A i \in Kinds : i # j => packet'[i] = packet[i]
          /\ \A q \in Parties : q # p => answer'[q] = answer[q] /\ pc'[q] = pc[q]
          /\ pc[p] = "fetched" /\ p = "restart" => pc'[p] = "resolve"
          /\ rearm' = rearm
      BY <1>1, <2>7, <3>1 DEF Fetched, Resolved, Refreshed, AfterInstructions, TypeOK
    <3>3. CASE j = k
      <4>1. packet[k] <= answer[p] /\ answer[p] <= version[k]
        BY <1>1, <3>1, <3>3 DEF AnswersInv
      <4>2. answer[p] \in Nat /\ version[k] \in Nat /\ packet[k] \in Nat
        BY <1>1 DEF TypeOK
      <4>3. CASE answer[p] = version[k]
        BY <2>1, <3>2, <3>3, <4>3 DEF Accounted
      <4>4. CASE answer[p] # version[k]
        <5>1. packet[k] # version[k] /\ blind' = blind
          BY <3>1, <3>3, <4>1, <4>2, <4>4 DEF Refreshed
        <5>2. p = "restart" => pc["restart"] \notin BeforeRead(k)
          BY <1>1, <3>1, <3>3 DEF BeforeRead, ReadAt
        <5>3. QED
          BY <1>1, <1>4, <2>1, <3>1, <3>2, <3>3, <4>4, <5>1, <5>2
          DEF Accounted, BeforeRead, ReadAt
      <4>5. QED
        BY <4>3, <4>4
    <3>4. CASE j # k
      <4>1. k \in blind => k \in blind'
        BY <3>1, <3>4 DEF Refreshed
      <4>2. CASE p = "control"
        BY <1>1, <1>4, <2>1, <3>2, <3>4, <4>1, <4>2 DEF Accounted, BeforeRead, ReadAt
      <4>3. CASE p = "restart" /\ k = "environment"
        BY <1>1, <3>1, <3>2, <3>4, <4>3 DEF Accounted, BeforeRead, ReadAt
      <4>4. CASE p = "restart" /\ k = "instructions"
        BY <1>1, <1>4, <2>1, <3>1, <3>2, <3>4, <4>1, <4>4 DEF Accounted, BeforeRead, ReadAt
      <4>5. QED
        BY <1>1, <4>2, <4>3, <4>4
    <3>5. QED
      BY <3>3, <3>4
  <2>8. QED
    BY <1>15, <2>2, <2>3, <2>4, <2>5, <2>6, <2>7 DEF SwapStep
<1>16. QED
  BY <1>1, <1>6, <1>7, <1>8, <1>9, <1>10, <1>11, <1>12, <1>13, <1>14, <1>15
  DEF Next, RestartStep, ControlStep

(* At rest nothing is on its way, re-armed or about to be read.             *)
LEMMA FreshFollows == SessionInv /\ FreshInv => OnlyBlindEditsAreLost
<1> SUFFICES ASSUME SessionInv, FreshInv, AtRest, NEW k \in Kinds
             PROVE  running[k] = version[k] \/ k \in blind
  BY DEF OnlyBlindEditsAreLost
<1>1. Accounted(k) /\ running = packet
  BY DEF FreshInv, SpawnInv, AtRest
<1>2. ~rearm /\ unheard[k] = 0
  BY DEF FreshInv, FlagsInv, AtRest
<1>3. QED
  BY <1>1, <1>2 DEF Accounted, AtRest, BeforeRead, ReadAt

(* For any number of edits, controls and failures an agent at rest runs on  *)
(* the latest instructions and environment, but for what was heard while    *)
(* the refetches were under way, or whose refetch failed (request(), the    *)
(* flags covering and rearm, swap()).                                       *)
THEOREM EditsReachTheAgent == Spec => []OnlyBlindEditsAreLost
<1>1. Init => FreshInv
  BY DEF Init, FreshInv, AnswersInv, SpawnInv, FlagsInv, Accounted, Kinds, Parties,
     ReadAt
<1>2. SessionInv /\ FreshInv /\ [Next]_vars => FreshInv'
  <2> SUFFICES ASSUME SessionInv, FreshInv, [Next]_vars PROVE FreshInv'
    OBVIOUS
  <2>1. AnswersInv' /\ SpawnInv' /\ FlagsInv'
    BY AnswersStay, SpawnStays, FlagsStay DEF FreshInv
  <2>2. td' = "no" => \A k \in Kinds : Accounted(k)'
    BY AccountsStay
  <2>3. QED
    BY <2>1, <2>2 DEF FreshInv
<1>3. QED
  BY <1>1, <1>2, SessionStarts, SessionStays, FreshFollows, PTL DEF Spec
=============================================================================
