------------------------ MODULE ActivityUploaderProofs ------------------------
(***************************************************************************)
(* Proofs about ActivityUploader, for every cap, every batch size and every*)
(* bound on events and enrollments: the statistics add up, the overshoot of*)
(* the cap is bounded, and nothing lands once close() has returned; the    *)
(* uploader implements the lossy outbox of TraceOutbox, so the broker's    *)
(* record is in the order the events were offered in; and an answer given  *)
(* before its event was acknowledged came behind a backlog of a full batch.*)
(***************************************************************************)
EXTENDS ActivityUploader, SequenceTheorems, WellFoundedInduction, TLAPS

-----------------------------------------------------------------------------
(* What the helpers on the queue return.                                   *)

LEMMA Overflows ==
    ASSUME NEW q \in Seq(Nat)
    PROVE  /\ Overflow(q) \in 0 .. Len(q)
           /\ Len(q) + 1 - Overflow(q) <= MaxQueue
BY LenProperties, UploaderConstantsOK DEF Overflow

LEMMA Admits ==
    ASSUME NEW q \in Seq(Nat), NEW e \in Nat
    PROVE  /\ Admit(q, e) \in Seq(Nat)
           /\ Len(Admit(q, e)) = Len(q) + 1 - Overflow(q)
           /\ Len(Admit(q, e)) \in 1 .. MaxQueue
<1> DEFINE rest == SubSeq(q, Overflow(q) + 1, Len(q))
<1>1. rest \in Seq(Nat) /\ Len(rest) = Len(q) - Overflow(q)
  <2>1. Overflow(q) + 1 \in 1 .. Len(q) + 1 /\ Len(q) \in Nat
    BY Overflows, LenProperties
  <2>2. \A i \in Overflow(q) + 1 .. Len(q) : i \in 1 .. Len(q)
    BY <2>1
  <2>3. QED
    BY <2>1, <2>2, Overflows, SubSeqProperties, Z3
<1>2. Append(rest, e) \in Seq(Nat) /\ Len(Append(rest, e)) = Len(rest) + 1
  BY <1>1, AppendProperties
<1>3. Admit(q, e) = Append(rest, e)
  BY DEF Admit
<1>4. QED
  BY <1>1, <1>2, <1>3, Overflows, LenProperties, SMTT(60)

LEMMA Batches ==
    ASSUME NEW q \in Seq(Nat)
    PROVE  /\ Taken(q) \in Seq(Nat) /\ Rest(q) \in Seq(Nat)
           /\ Len(Taken(q)) + Len(Rest(q)) = Len(q)
           /\ Len(Taken(q)) <= MaxBatch
           /\ q # <<>> => Taken(q) # <<>>
<1>1. BatchSize(q) \in 0 .. Len(q) /\ BatchSize(q) <= MaxBatch
      /\ Len(q) \in Nat /\ (q # <<>> => BatchSize(q) > 0)
  BY LenProperties, EmptySeq, UploaderConstantsOK DEF BatchSize
<1>2. Taken(q) \in Seq(Nat) /\ Len(Taken(q)) = BatchSize(q)
  BY <1>1, SubSeqProperties DEF Taken
<1>3. Rest(q) \in Seq(Nat) /\ Len(Rest(q)) = Len(q) - BatchSize(q)
  <2>1. \A i \in BatchSize(q) + 1 .. Len(q) : i \in 1 .. Len(q)
    BY <1>1
  <2>2. QED
    BY <1>1, <2>1, SubSeqProperties, SMTT(60) DEF Rest
<1>4. QED
  BY <1>1, <1>2, <1>3, EmptySeq

LEMMA Concatenates ==
    ASSUME NEW s \in Seq(Nat), NEW t \in Seq(Nat)
    PROVE  s \o t \in Seq(Nat) /\ Len(s \o t) = Len(s) + Len(t)
BY ConcatProperties

-----------------------------------------------------------------------------
(* The inductive invariant. The statistics add up because no step moves an *)
(* event without counting it; the bound holds because enqueue trims what a *)
(* failed batch or a marker left over the cap, and no batch exceeds its    *)
(* size; nothing lands after close() because no step that starts an upload *)
(* is left: no timer, no session, no drain.                                *)
Types ==
    /\ queue \in Seq(Nat) /\ batch \in Seq(Nat)
    /\ offered \in Nat /\ uploaded \in Nat /\ dropped \in Nat
    /\ post \in [at : {"idle", "sent", "stored", "refused"}, token : Tokens]
    /\ token \in Tokens /\ saved \in Tokens /\ valid \in Tokens
    /\ flushTimer \in BOOLEAN /\ blocked \in BOOLEAN
    /\ session \in {"idle", "settling", "posting"}
    /\ phase \in {"up", "stopping", "closing", "closed"}

OneBatch ==
    /\ Len(batch) <= MaxBatch
    /\ (post.at = "idle") <=> (batch = <<>>)

NothingStarts ==
    /\ phase # "up" => session = "idle"
    /\ closed => ~flushTimer
    /\ phase = "closed" => batch = <<>>

IInv ==
    Types /\ AllAccountedFor /\ OvershootIsBounded /\ OneBatch /\ NothingStarts

USE DEF closed, inFlight

LEMMA IInvInit == Init => IInv
<1> SUFFICES ASSUME Init PROVE IInv
  OBVIOUS
<1>1. Types
  <2>1. <<>> \in Seq(Nat)
    BY EmptySeq
  <2>2. 0 \in Tokens
    BY UploaderConstantsOK DEF Tokens
  <2>3. Idle \in [at : {"idle", "sent", "stored", "refused"}, token : Tokens]
    BY <2>2 DEF Idle
  <2>4. QED
    BY <2>1, <2>2, <2>3 DEF Init, Types
<1>2. Len(queue) = 0 /\ Len(batch) = 0
  BY EmptySeq DEF Init
<1>3. OneBatch /\ NothingStarts
  BY <1>2, UploaderConstantsOK DEF Init, OneBatch, NothingStarts, Idle
<1>4. AllAccountedFor
  BY <1>2 DEF Init, AllAccountedFor
<1>5. OvershootIsBounded
  BY <1>2, UploaderConstantsOK DEF Init, OvershootIsBounded
<1>6. QED
  BY <1>1, <1>3, <1>4, <1>5 DEF IInv

LEMMA Starts ==
    ASSUME NEW q \in Seq(Nat), q # <<>>, token \in Tokens, StartPost(q)
    PROVE  /\ queue' \in Seq(Nat) /\ batch' \in Seq(Nat)
           /\ Len(batch') + Len(queue') = Len(q)
           /\ Len(batch') <= MaxBatch
           /\ batch' # <<>> /\ post'.at # "idle"
           /\ post' \in [at : {"idle", "sent", "stored", "refused"}, token : Tokens]
BY Batches DEF StartPost

LEMMA Unauthorized ==
    ASSUME IInv, NEW q, HandleUnauthorized(q),
           q = queue \/ q = <<offered + 1>> \o queue
    PROVE  /\ q \in Seq(Nat) /\ offered' \in Nat
           /\ offered' + Len(queue) = offered + Len(q)
           /\ Len(q) + Len(batch) <= MaxQueue + MaxBatch + 1
           /\ blocked' = TRUE
           /\ flushTimer' \in BOOLEAN /\ (closed => ~flushTimer')
<1>1. queue \in Seq(Nat) /\ offered \in Nat /\ Len(queue) \in Nat
  BY LenProperties DEF IInv, Types
<1>2. <<offered + 1>> \in Seq(Nat) /\ Len(<<offered + 1>>) = 1
  BY <1>1
<1>3. <<offered + 1>> \o queue \in Seq(Nat)
      /\ Len(<<offered + 1>> \o queue) = 1 + Len(queue)
  BY <1>1, <1>2, Concatenates
<1>4. CASE blocked \/ closed
  <2>1. q = queue /\ offered' = offered
    BY <1>4 DEF HandleUnauthorized
  <2>2. blocked' = TRUE /\ flushTimer' \in BOOLEAN /\ (closed => ~flushTimer')
    BY <1>4 DEF HandleUnauthorized, IInv, Types, NothingStarts
  <2>3. QED
    BY <2>1, <2>2, <1>1, UploaderConstantsOK, LenProperties
    DEF IInv, Types, OvershootIsBounded
<1>5. CASE ~blocked /\ ~closed
  <2>1. q = <<offered + 1>> \o queue /\ offered' = offered + 1
        /\ flushTimer' = FALSE /\ blocked' = TRUE
    BY <1>5 DEF HandleUnauthorized
  <2>2. Len(queue) + Len(batch) <= MaxQueue + MaxBatch
    <3>1. (IF blocked \/ closed THEN 1 ELSE 0) = 0
      BY <1>5
    <3>2. QED
      BY <3>1, LenProperties, UploaderConstantsOK
      DEF IInv, Types, OvershootIsBounded
  <2>3. Len(batch) \in Nat
    BY LenProperties DEF IInv, Types
  <2>4. QED
    <3>1. q \in Seq(Nat) /\ Len(q) = 1 + Len(queue)
      BY <2>1, <1>3
    <3>2. offered' \in Nat /\ offered' = offered + 1
      BY <2>1, <1>1
    <3>3. Len(q) + Len(batch) <= MaxQueue + MaxBatch + 1
      BY <3>1, <2>2, <2>3, <1>1, UploaderConstantsOK
    <3>4. offered' + Len(queue) = offered + Len(q)
      BY <3>1, <3>2, <1>1
    <3>5. flushTimer' \in BOOLEAN /\ (closed => ~flushTimer')
      BY <2>1, <1>5
    <3>6. QED
      BY <3>1, <3>2, <3>3, <3>4, <3>5, <2>1, Zenon
<1>6. QED
  BY <1>4, <1>5

-----------------------------------------------------------------------------
(* What is left to show of a step once its effect on the queue and the     *)
(* counters is known.                                                      *)
Balanced ==
    /\ queue' \in Seq(Nat) /\ batch' \in Seq(Nat)
    /\ offered' \in Nat /\ uploaded' \in Nat /\ dropped' \in Nat
    /\ offered' = uploaded' + dropped' + Len(queue') + Len(batch')
    /\ OneBatch'
    /\ post' \in [at : {"idle", "sent", "stored", "refused"}, token : Tokens]

LEMMA EnqueueBalances ==
    ASSUME IInv, offered' = offered + 1, ~closed,
           queue' = Admit(queue, offered'), dropped' = dropped + Overflow(queue),
           UNCHANGED <<batch, post, uploaded>>
    PROVE  Balanced /\ Len(queue') + Len(batch') <= MaxQueue + MaxBatch
<1>1. queue \in Seq(Nat) /\ offered' \in Nat /\ Len(queue) \in Nat
      /\ Len(batch) \in Nat /\ dropped \in Nat /\ uploaded \in Nat /\ offered \in Nat
  BY LenProperties DEF IInv, Types
<1>2. /\ queue' \in Seq(Nat)
      /\ Len(queue') = Len(queue) + 1 - Overflow(queue)
      /\ Len(queue') \in 1 .. MaxQueue
      /\ Overflow(queue) \in 0 .. Len(queue)
  BY <1>1, Admits, Overflows
<1>3. batch' = batch /\ post' = post /\ uploaded' = uploaded
  OBVIOUS
<1>4. dropped' \in Nat
  BY <1>1, <1>2
<1>5. offered' = uploaded' + dropped' + Len(queue') + Len(batch')
  <2>1. offered = uploaded + dropped + Len(queue) + Len(batch)
    BY DEF IInv, AllAccountedFor
  <2>2. Overflow(queue) \in Nat /\ Len(queue') \in Nat
    BY <1>1, <1>2
  <2>3. Len(batch') = Len(batch)
    BY <1>3
  <2>4. dropped' = dropped + Overflow(queue) /\ offered' = offered + 1
        /\ uploaded' = uploaded
    OBVIOUS
  <2>5. offered + 1 = uploaded + (dropped + Overflow(queue))
                      + (Len(queue) + 1 - Overflow(queue)) + Len(batch)
    BY <1>1, <2>1, <2>2, SMTT(60)
  <2>6. QED
    BY <1>2, <2>3, <2>4, <2>5, Zenon
<1>6. OneBatch'
  BY <1>3 DEF IInv, OneBatch
<1>7. Len(queue') + Len(batch') <= MaxQueue + MaxBatch
  BY <1>1, <1>2, <1>3, UploaderConstantsOK DEF IInv, OneBatch
<1>8. QED
  BY <1>1, <1>2, <1>3, <1>4, <1>5, <1>6, <1>7 DEF Balanced, IInv, Types

(* An upload starts with what waits in q.                                  *)
LEMMA StartBalances ==
    ASSUME IInv, NEW q \in Seq(Nat), q # <<>>, StartPost(q),
           offered' \in Nat, dropped' \in Nat, UNCHANGED uploaded,
           offered' = uploaded + dropped' + Len(q)
    PROVE  Balanced /\ Len(queue') + Len(batch') = Len(q)
<1>1. token \in Tokens /\ uploaded \in Nat
  BY DEF IInv, Types
<1>2. /\ queue' \in Seq(Nat) /\ batch' \in Seq(Nat)
      /\ Len(batch') + Len(queue') = Len(q)
      /\ Len(batch') <= MaxBatch
      /\ batch' # <<>> /\ post'.at # "idle"
      /\ post' \in [at : {"idle", "sent", "stored", "refused"}, token : Tokens]
  BY <1>1, Starts
<1>3. Len(queue') \in Nat /\ Len(batch') \in Nat
  BY <1>2, LenProperties
<1>4. offered' = uploaded' + dropped' + Len(queue') + Len(batch')
  <2>1. uploaded' = uploaded /\ Len(q) = Len(batch') + Len(queue')
    BY <1>2
  <2>2. QED
    BY <1>1, <1>3, <2>1, Z3
<1>5. OneBatch'
  BY <1>2 DEF OneBatch
<1>6. QED
  BY <1>1, <1>2, <1>3, <1>4, <1>5 DEF Balanced

(* The total does not grow, and whatever allowed one more event still does.*)
LEMMA KeepsBound ==
    ASSUME IInv, Balanced,
           Len(queue') + Len(batch') <= Len(queue) + Len(batch),
           blocked \/ closed => (blocked \/ closed)'
    PROVE  OvershootIsBounded'
<1>1. /\ Len(queue) \in Nat /\ Len(batch) \in Nat
      /\ Len(queue') \in Nat /\ Len(batch') \in Nat
  BY LenProperties DEF IInv, Types, Balanced
<1>2. CASE blocked \/ closed
  <2>1. (blocked \/ closed)'
    BY <1>2
  <2>2. Len(queue) + Len(batch) <= MaxQueue + MaxBatch + 1
    BY <1>2 DEF IInv, OvershootIsBounded
  <2>3. Len(queue') + Len(batch') <= MaxQueue + MaxBatch + 1
    BY <1>1, <2>2, UploaderConstantsOK
  <2>4. QED
    BY <2>1, <2>3 DEF OvershootIsBounded
<1>3. CASE ~(blocked \/ closed)
  <2>1. Len(queue) + Len(batch) <= MaxQueue + MaxBatch
    BY <1>1, <1>3, UploaderConstantsOK DEF IInv, OvershootIsBounded
  <2>2. Len(queue') + Len(batch') <= MaxQueue + MaxBatch
    BY <1>1, <2>1, UploaderConstantsOK
  <2>3. QED
    BY <1>1, <2>2, UploaderConstantsOK DEF OvershootIsBounded
<1>4. QED
  BY <1>2, <1>3

LEMMA SmallIsBounded ==
    ASSUME Balanced, Len(queue') + Len(batch') <= MaxQueue + MaxBatch
    PROVE  OvershootIsBounded'
<1>1. Len(queue') \in Nat /\ Len(batch') \in Nat
  BY LenProperties DEF Balanced
<1>2. QED
  BY <1>1, UploaderConstantsOK DEF OvershootIsBounded

LEMMA MarkedIsBounded ==
    ASSUME Balanced, Len(queue') + Len(batch') <= MaxQueue + MaxBatch + 1,
           blocked' = TRUE
    PROVE  OvershootIsBounded'
BY DEF OvershootIsBounded

(* The smaller variables.                                                  *)
Small ==
    /\ token \in Tokens /\ saved \in Tokens /\ valid \in Tokens
    /\ flushTimer \in BOOLEAN /\ blocked \in BOOLEAN
    /\ session \in {"idle", "settling", "posting"}
    /\ phase \in {"up", "stopping", "closing", "closed"}

LEMMA Assembles ==
    ASSUME Balanced, OvershootIsBounded', NothingStarts', Small'
    PROVE  IInv'
<1>1. Types'
  BY DEF Balanced, Small, Types
<1>2. AllAccountedFor'
  BY DEF Balanced, AllAccountedFor
<1>3. OneBatch'
  BY DEF Balanced
<1>4. QED
  BY <1>1, <1>2, <1>3 DEF IInv

(* Nothing moves between the queue, the wire and the counters.             *)
LEMMA StaysBalanced ==
    ASSUME IInv,
           UNCHANGED <<queue, batch, post, offered, uploaded, dropped>>
    PROVE  Balanced /\ Len(queue') + Len(batch') = Len(queue) + Len(batch)
BY DEF IInv, Types, Balanced, AllAccountedFor, OneBatch

-----------------------------------------------------------------------------
(* The steps.                                                              *)

Quieting ==
    \/ OtherSent \/ Reenrolled \/ TokenSaved \/ ProbeSent \/ ProbeFails
    \/ ShutdownBegins \/ CloseBegins \/ BackoffFires \/ UNCHANGED vars

LEMMA QuietingStep == ASSUME IInv, Quieting PROVE IInv'
<1>1. UNCHANGED <<queue, batch, post, offered, uploaded, dropped, blocked>>
  BY DEF Quieting, OtherSent, Reenrolled, TokenSaved, ProbeSent, ProbeFails,
         ShutdownBegins, CloseBegins, BackoffFires, vars, uploadVars, authVars
<1>2. Balanced /\ Len(queue') + Len(batch') = Len(queue) + Len(batch)
  BY <1>1, StaysBalanced
<1>3. phase' = phase \/ (phase' \in {"stopping", "closing"} /\ ~closed)
  BY DEF Quieting, OtherSent, Reenrolled, TokenSaved, ProbeSent, ProbeFails,
         ShutdownBegins, CloseBegins, BackoffFires, vars, runVars
<1>4. session' = session
  BY DEF Quieting, OtherSent, Reenrolled, TokenSaved, ProbeSent, ProbeFails,
         ShutdownBegins, CloseBegins, BackoffFires, vars, runVars
<1>5. blocked \/ closed => (blocked \/ closed)'
  BY <1>1, <1>3
<1>6. OvershootIsBounded'
  <2>1. Len(queue') + Len(batch') <= Len(queue) + Len(batch)
    BY <1>1, LenProperties DEF IInv, Types
  <2>2. QED
    BY <1>2, <1>5, <2>1, KeepsBound
<1>7. CASE OtherSent \/ Reenrolled \/ TokenSaved \/ ProbeSent \/ ProbeFails
           \/ UNCHANGED vars
  <2>1. flushTimer' = flushTimer /\ phase' = phase
    BY <1>7 DEF OtherSent, Reenrolled, TokenSaved, ProbeSent, ProbeFails,
                vars, uploadVars, runVars
  <2>2. token' \in Tokens /\ saved' \in Tokens /\ valid' \in Tokens
    BY <1>7, UploaderConstantsOK
    DEF OtherSent, Reenrolled, TokenSaved, ProbeSent, ProbeFails, vars,
        authVars, worldVars, IInv, Types, Tokens
  <2>3. NothingStarts'
    BY <1>1, <1>4, <2>1 DEF IInv, NothingStarts
  <2>4. Small'
    BY <1>1, <1>4, <2>1, <2>2 DEF IInv, Types, Small
  <2>5. QED
    BY <1>2, <1>6, <2>3, <2>4, Assembles
<1>8. CASE ShutdownBegins \/ CloseBegins
  <2>1. flushTimer' = flushTimer \/ flushTimer' = FALSE
    BY <1>8 DEF ShutdownBegins, CloseBegins, uploadVars
  <2>2. UNCHANGED <<token, saved, valid>>
    BY <1>8 DEF ShutdownBegins, CloseBegins, authVars, worldVars
  <2>3. phase' \in {"stopping", "closing"} /\ session' = "idle"
    BY <1>8, <1>4 DEF ShutdownBegins, CloseBegins, IInv, NothingStarts
  <2>4. phase' = "closing" => flushTimer' = FALSE
    BY <1>8 DEF ShutdownBegins, CloseBegins
  <2>5. NothingStarts'
    BY <2>3, <2>4 DEF NothingStarts
  <2>6. Small'
    BY <1>1, <2>1, <2>2, <2>3 DEF IInv, Types, Small
  <2>7. QED
    BY <1>2, <1>6, <2>5, <2>6, Assembles
<1>9. CASE BackoffFires
  <2>1. UNCHANGED <<token, saved, valid, phase>>
    BY <1>9 DEF BackoffFires, authVars, worldVars, runVars
  <2>2. flushTimer' \in BOOLEAN
    BY <1>9 DEF BackoffFires, IInv, Types
  <2>3. closed => ~flushTimer'
    BY <1>9 DEF BackoffFires, MaySchedule, IInv, NothingStarts
  <2>4. NothingStarts'
    BY <1>1, <1>4, <2>1, <2>3 DEF IInv, NothingStarts
  <2>5. Small'
    BY <1>1, <1>4, <2>1, <2>2 DEF IInv, Types, Small
  <2>6. QED
    BY <1>2, <1>6, <2>4, <2>5, Assembles
<1>10. QED
  BY <1>7, <1>8, <1>9 DEF Quieting

LEMMA EnqueueStep == ASSUME IInv, Enqueue PROVE IInv'
<1>1. UNCHANGED <<batch, post, uploaded, token, saved, valid, blocked, session,
                  phase>> /\ offered' = offered + 1
  BY DEF Enqueue, authVars, runVars
<1>2. Small' /\ NothingStarts'
  <2>1. flushTimer' \in BOOLEAN
    BY DEF Enqueue, IInv, Types
  <2>2. closed => ~flushTimer'
    BY DEF Enqueue, IInv, NothingStarts
  <2>3. QED
    BY <1>1, <2>1, <2>2 DEF Small, IInv, Types, NothingStarts
<1>3. CASE closed
  <2>1. queue' = queue /\ dropped' = dropped + 1
    BY <1>3 DEF Enqueue
  <2>2. Balanced /\ Len(queue') + Len(batch') <= Len(queue) + Len(batch)
    <3>1. Len(queue) \in Nat /\ Len(batch) \in Nat
      BY LenProperties DEF IInv, Types
    <3>2. offered' = uploaded' + dropped' + Len(queue') + Len(batch')
      BY <1>1, <2>1, <3>1 DEF IInv, Types, AllAccountedFor
    <3>3. OneBatch'
      BY <1>1 DEF IInv, OneBatch
    <3>4. QED
      BY <1>1, <2>1, <3>1, <3>2, <3>3 DEF Balanced, IInv, Types
  <2>3. OvershootIsBounded'
    BY <2>2, <1>1, KeepsBound
  <2>4. QED
    BY <2>2, <2>3, <1>2, Assembles
<1>4. CASE ~closed
  <2>1. queue' = Admit(queue, offered') /\ dropped' = dropped + Overflow(queue)
    BY <1>4 DEF Enqueue
  <2>2. Balanced /\ Len(queue') + Len(batch') <= MaxQueue + MaxBatch
    BY <1>1, <1>4, <2>1, EnqueueBalances
  <2>3. QED
    BY <2>2, <1>2, SmallIsBounded, Assembles
<1>5. QED
  BY <1>3, <1>4

LEMMA EnqueueImmediateStep == ASSUME IInv, EnqueueImmediate PROVE IInv'
<1>1. /\ UNCHANGED <<uploaded, token, saved, valid, blocked, phase>>
      /\ offered' = offered + 1 /\ dropped' = dropped + Overflow(queue)
      /\ flushTimer' = FALSE /\ phase = "up" /\ ~closed
  BY DEF EnqueueImmediate, authVars
<1>2. session' \in {"settling", "posting"}
  BY DEF EnqueueImmediate
<1>3. Small' /\ NothingStarts'
  BY <1>1, <1>2 DEF Small, IInv, Types, NothingStarts
<1>4. CASE inFlight
  <2>1. queue' = Admit(queue, offered') /\ UNCHANGED <<batch, post>>
    BY <1>4 DEF EnqueueImmediate
  <2>2. Balanced /\ Len(queue') + Len(batch') <= MaxQueue + MaxBatch
    BY <1>1, <2>1, EnqueueBalances
  <2>3. QED
    BY <2>2, <1>3, SmallIsBounded, Assembles
<1>5. CASE ~inFlight
  <2> DEFINE q == Admit(queue, offered')
  <2>1. StartPost(q)
    BY <1>5 DEF EnqueueImmediate
  <2>2. /\ queue \in Seq(Nat) /\ offered' \in Nat /\ Len(queue) \in Nat
        /\ uploaded \in Nat /\ dropped \in Nat /\ offered \in Nat
        /\ Len(batch) = 0
    BY <1>1, <1>5, LenProperties, EmptySeq DEF IInv, Types
  <2>3. /\ q \in Seq(Nat) /\ Len(q) = Len(queue) + 1 - Overflow(queue)
        /\ Len(q) \in 1 .. MaxQueue /\ Overflow(queue) \in 0 .. Len(queue)
    BY <2>2, Admits, Overflows
  <2> HIDE DEF q
  <2>4. dropped' \in Nat /\ q # <<>>
    BY <1>1, <2>2, <2>3, EmptySeq
  <2>5. offered' = uploaded + dropped' + Len(q)
    <3>1. offered = uploaded + dropped + Len(queue)
      BY <2>2 DEF IInv, AllAccountedFor
    <3>2. Overflow(queue) \in Nat
      BY <2>2, <2>3
    <3>3. offered + 1 = uploaded + (dropped + Overflow(queue))
                        + (Len(queue) + 1 - Overflow(queue))
      BY <2>2, <3>1, <3>2
    <3>4. QED
      BY <1>1, <2>3, <3>3, Zenon
  <2>6. Balanced /\ Len(queue') + Len(batch') = Len(q)
    BY <1>1, <2>1, <2>2, <2>3, <2>4, <2>5, StartBalances
  <2>7. Len(queue') + Len(batch') <= MaxQueue + MaxBatch
    BY <2>3, <2>6, UploaderConstantsOK
  <2>8. QED
    BY <2>6, <2>7, <1>3, SmallIsBounded, Assembles
<1>6. QED
  BY <1>4, <1>5

(* An upload of what is queued, with nothing on the wire.                  *)
LEMMA PostStep ==
    ASSUME IInv, ~inFlight, queue # <<>>, StartPost(queue),
           UNCHANGED <<offered, dropped, uploaded, blocked, phase>>
    PROVE  Balanced /\ OvershootIsBounded'
<1>1. /\ queue \in Seq(Nat) /\ Len(queue) \in Nat /\ Len(batch) = 0
      /\ offered \in Nat /\ dropped \in Nat /\ uploaded \in Nat
  BY LenProperties, EmptySeq DEF IInv, Types
<1>2. offered = uploaded + dropped + Len(queue)
  BY <1>1 DEF IInv, AllAccountedFor
<1>3. Balanced /\ Len(queue') + Len(batch') = Len(queue)
  BY <1>1, <1>2, StartBalances
<1>4. Len(queue') + Len(batch') <= Len(queue) + Len(batch)
  BY <1>1, <1>3
<1>5. QED
  BY <1>3, <1>4, KeepsBound

LEMMA FlushContinuesStep == ASSUME IInv, FlushContinues PROVE IInv'
<1>1. /\ UNCHANGED <<offered, dropped, uploaded, blocked, phase, flushTimer,
                     token, saved, valid>>
      /\ ~inFlight /\ phase = "up"
  BY DEF FlushContinues, authVars, worldVars, IInv, NothingStarts
<1>2. session' \in {"idle", "posting"}
  BY DEF FlushContinues
<1>3. Small' /\ NothingStarts'
  BY <1>1, <1>2 DEF Small, IInv, Types, NothingStarts
<1>4. CASE queue = <<>>
  <2>1. UNCHANGED <<queue, batch, post>>
    BY <1>4 DEF FlushContinues
  <2>2. Balanced /\ Len(queue') + Len(batch') = Len(queue) + Len(batch)
    BY <1>1, <2>1, StaysBalanced
  <2>3. OvershootIsBounded'
    BY <1>1, <2>1 DEF IInv, OvershootIsBounded
  <2>4. QED
    BY <1>3, <2>2, <2>3, Assembles
<1>5. CASE queue # <<>>
  <2>1. StartPost(queue)
    BY <1>5 DEF FlushContinues
  <2>2. QED
    BY <1>1, <1>3, <1>5, <2>1, PostStep, Assembles
<1>6. QED
  BY <1>4, <1>5

LEMMA FlushTimerStep == ASSUME IInv, FlushTimerFires PROVE IInv'
<1>1. /\ UNCHANGED <<offered, dropped, uploaded, blocked, phase, session,
                     token, saved, valid>>
      /\ flushTimer /\ flushTimer' = FALSE
  BY DEF FlushTimerFires, authVars, runVars, worldVars
<1>2. ~closed
  BY <1>1 DEF IInv, NothingStarts
<1>3. Small' /\ NothingStarts'
  BY <1>1, <1>2 DEF Small, IInv, Types, NothingStarts
<1>4. CASE inFlight \/ queue = <<>>
  <2>1. UNCHANGED <<queue, batch, post>>
    BY <1>4 DEF FlushTimerFires
  <2>2. Balanced /\ Len(queue') + Len(batch') = Len(queue) + Len(batch)
    BY <1>1, <2>1, StaysBalanced
  <2>3. OvershootIsBounded'
    BY <1>1, <2>1 DEF IInv, OvershootIsBounded
  <2>4. QED
    BY <1>3, <2>2, <2>3, Assembles
<1>5. CASE ~inFlight /\ queue # <<>>
  <2>1. StartPost(queue)
    BY <1>5 DEF FlushTimerFires
  <2>2. QED
    BY <1>1, <1>3, <1>5, <2>1, PostStep, Assembles
<1>6. QED
  BY <1>4, <1>5

LEMMA CloseDrainsStep == ASSUME IInv, CloseDrains PROVE IInv'
<1>1. /\ UNCHANGED <<offered, dropped, uploaded, blocked, phase, session,
                     flushTimer, token, saved, valid>>
      /\ phase = "closing" /\ ~inFlight /\ queue # <<>> /\ StartPost(queue)
  BY DEF CloseDrains, authVars, worldVars
<1>2. Small' /\ NothingStarts'
  BY <1>1 DEF Small, IInv, Types, NothingStarts
<1>3. QED
  BY <1>1, <1>2, PostStep, Assembles

LEMMA CloseEndsStep == ASSUME IInv, CloseEnds PROVE IInv'
<1>1. /\ UNCHANGED <<batch, post, offered, uploaded, blocked, session,
                     flushTimer, token, saved, valid>>
      /\ phase = "closing" /\ phase' = "closed" /\ ~inFlight
  BY DEF CloseEnds, authVars, worldVars
<1>2. Small' /\ NothingStarts'
  BY <1>1 DEF Small, IInv, Types, NothingStarts
<1>3. /\ queue \in Seq(Nat) /\ Len(queue) \in Nat /\ Len(batch) = 0
      /\ offered \in Nat /\ dropped \in Nat /\ uploaded \in Nat
      /\ <<>> \in Seq(Nat) /\ Len(<<>>) = 0
  BY <1>1, LenProperties, EmptySeq DEF IInv, Types
<1>4. Balanced /\ Len(queue') + Len(batch') <= Len(queue) + Len(batch)
  <2>1. CASE blocked
    <3>1. UNCHANGED <<queue, dropped>>
      BY <2>1 DEF CloseEnds
    <3>2. QED
      BY <1>1, <1>3, <3>1, StaysBalanced
  <2>2. CASE ~blocked
    <3>1. queue' = <<>> /\ dropped' = dropped + Len(queue)
      BY <2>2 DEF CloseEnds
    <3>2. offered = uploaded + dropped + Len(queue)
      BY <1>3 DEF IInv, AllAccountedFor
    <3>3. Len(queue') = 0 /\ Len(batch') = 0
      BY <1>1, <1>3, <3>1
    <3>4. offered' = uploaded' + dropped' + Len(queue') + Len(batch')
      BY <1>1, <1>3, <3>1, <3>2, <3>3
    <3>5. OneBatch'
      BY <1>1 DEF IInv, OneBatch
    <3>6. Balanced
      BY <1>1, <1>3, <3>1, <3>4, <3>5 DEF Balanced, IInv, Types
    <3>7. QED
      BY <1>3, <3>3, <3>6
  <2>3. QED
    BY <2>1, <2>2
<1>5. QED
  BY <1>1, <1>2, <1>4, KeepsBound, Assembles

LEMMA BrokerHandlesStep == ASSUME IInv, BrokerHandles PROVE IInv'
<1>1. /\ UNCHANGED <<queue, batch, offered, dropped, uploaded, blocked, phase,
                     session, flushTimer, token, saved, valid>>
      /\ post.at = "sent"
  BY DEF BrokerHandles, authVars, runVars
<1>2. /\ post' \in [at : {"idle", "sent", "stored", "refused"}, token : Tokens]
      /\ post'.at # "idle"
  BY DEF BrokerHandles, IInv, Types
<1>3. Balanced
  BY <1>1, <1>2 DEF Balanced, IInv, Types, AllAccountedFor, OneBatch
<1>4. Small' /\ NothingStarts' /\ OvershootIsBounded'
  BY <1>1 DEF Small, IInv, Types, NothingStarts, OvershootIsBounded
<1>5. QED
  BY <1>3, <1>4, Assembles

(* A settled upload leaves the wire empty.                                 *)
LEMMA SettledIsOneBatch ==
    ASSUME batch' = <<>>, post' = Idle
    PROVE  /\ OneBatch' /\ batch' \in Seq(Nat) /\ Len(batch') = 0
           /\ post' \in [at : {"idle", "sent", "stored", "refused"}, token : Tokens]
<1>1. <<>> \in Seq(Nat) /\ Len(<<>>) = 0
  BY EmptySeq
<1>2. 0 \in Tokens
  BY UploaderConstantsOK DEF Tokens
<1>3. QED
  BY <1>1, <1>2, UploaderConstantsOK DEF OneBatch, Idle

LEMMA SessionSettlesSmall ==
    ASSUME IInv, SessionSettles
    PROVE  /\ session' \in {"idle", "settling", "posting"}
           /\ phase # "up" => session' = "idle"
BY DEF SessionSettles, IInv, Types, NothingStarts

LEMMA PostAnsweredStep == ASSUME IInv, PostAnswered PROVE IInv'
<1>1. /\ UNCHANGED <<queue, offered, dropped, blocked, phase, token, saved,
                     valid>>
      /\ uploaded' = uploaded + Len(batch) /\ batch' = <<>> /\ post' = Idle
      /\ SessionSettles
  BY DEF PostAnswered, authVars, worldVars
<1>2. /\ queue \in Seq(Nat) /\ Len(queue) \in Nat /\ Len(batch) \in Nat
      /\ offered \in Nat /\ dropped \in Nat /\ uploaded \in Nat
  BY LenProperties DEF IInv, Types
<1>3. offered' = uploaded' + dropped' + Len(queue') + Len(batch')
  <2>1. offered = uploaded + dropped + Len(queue) + Len(batch)
    BY DEF IInv, AllAccountedFor
  <2>2. offered = (uploaded + Len(batch)) + dropped + Len(queue) + 0
    BY <1>2, <2>1
  <2>3. QED
    BY <1>1, <2>2, SettledIsOneBatch, Zenon
<1>4. Balanced
  BY <1>1, <1>2, <1>3, SettledIsOneBatch DEF Balanced
<1>5. Len(queue') + Len(batch') <= Len(queue) + Len(batch)
  BY <1>1, <1>2, SettledIsOneBatch
<1>6. flushTimer' \in BOOLEAN /\ (closed => ~flushTimer')
  BY DEF PostAnswered, MaySchedule, IInv, Types, NothingStarts
<1>7. Small' /\ NothingStarts'
  BY <1>1, <1>6, SessionSettlesSmall DEF Small, IInv, Types, NothingStarts
<1>8. QED
  BY <1>1, <1>4, <1>5, <1>7, KeepsBound, Assembles

(* The batch of a failed upload goes back in front of q.                   *)
LEMMA RequeueBalances ==
    ASSUME IInv, NEW q \in Seq(Nat), queue' = Requeue(q),
           batch' = <<>>, post' = Idle, UNCHANGED <<uploaded, dropped>>,
           offered' \in Nat, offered' + Len(queue) = offered + Len(q)
    PROVE  Balanced /\ Len(queue') + Len(batch') = Len(q) + Len(batch)
<1>1. /\ queue \in Seq(Nat) /\ batch \in Seq(Nat)
      /\ Len(queue) \in Nat /\ Len(batch) \in Nat /\ Len(q) \in Nat
      /\ offered \in Nat /\ dropped \in Nat /\ uploaded \in Nat
  BY LenProperties DEF IInv, Types
<1>2. queue' \in Seq(Nat) /\ Len(queue') = Len(batch) + Len(q)
  BY <1>1, Concatenates DEF Requeue
<1>3. offered = uploaded + dropped + Len(queue) + Len(batch)
  BY DEF IInv, AllAccountedFor
<1>4. offered' = uploaded + dropped + (Len(batch) + Len(q)) + 0
  BY <1>1, <1>3
<1>5. offered' = uploaded' + dropped' + Len(queue') + Len(batch')
  BY <1>2, <1>4, SettledIsOneBatch, Zenon
<1>6. Len(queue') + Len(batch') = Len(q) + Len(batch)
  BY <1>1, <1>2, SettledIsOneBatch
<1>7. QED
  BY <1>1, <1>2, <1>5, <1>6, SettledIsOneBatch DEF Balanced

LEMMA PostFailsStep == ASSUME IInv, PostFails PROVE IInv'
<1>1. /\ UNCHANGED <<offered, uploaded, dropped, blocked, phase, flushTimer,
                     token, saved, valid>>
      /\ queue' = Requeue(queue) /\ batch' = <<>> /\ post' = Idle
      /\ SessionSettles
  BY DEF PostFails, authVars, worldVars
<1>2. queue \in Seq(Nat) /\ offered \in Nat /\ Len(queue) \in Nat
      /\ Len(batch) \in Nat
  BY LenProperties DEF IInv, Types
<1>3. Balanced /\ Len(queue') + Len(batch') = Len(queue) + Len(batch)
  BY <1>1, <1>2, RequeueBalances
<1>4. Len(queue') + Len(batch') <= Len(queue) + Len(batch)
  BY <1>2, <1>3
<1>5. Small' /\ NothingStarts'
  BY <1>1, SessionSettlesSmall DEF Small, IInv, Types, NothingStarts
<1>6. QED
  BY <1>1, <1>3, <1>4, <1>5, KeepsBound, Assembles

LEMMA PostRefusedStep == ASSUME IInv, PostRefused PROVE IInv'
<1>1. /\ UNCHANGED <<uploaded, dropped, phase, token, saved, valid>>
      /\ batch' = <<>> /\ post' = Idle
      /\ SessionSettles
  BY DEF PostRefused, worldVars
<1>2. PICK q \in {queue, <<offered + 1>> \o queue} :
          HandleUnauthorized(q) /\ queue' = Requeue(q)
  BY DEF PostRefused
<1>3. /\ q \in Seq(Nat) /\ offered' \in Nat
      /\ offered' + Len(queue) = offered + Len(q)
      /\ Len(q) + Len(batch) <= MaxQueue + MaxBatch + 1
      /\ blocked' = TRUE
      /\ flushTimer' \in BOOLEAN /\ (closed => ~flushTimer')
  BY <1>2, Unauthorized
<1>4. Balanced /\ Len(queue') + Len(batch') = Len(q) + Len(batch)
  BY <1>1, <1>2, <1>3, RequeueBalances
<1>5. OvershootIsBounded'
  BY <1>3, <1>4, MarkedIsBounded
<1>6. Small' /\ NothingStarts'
  BY <1>1, <1>3, SessionSettlesSmall DEF Small, IInv, Types, NothingStarts
<1>7. QED
  BY <1>4, <1>5, <1>6, Assembles

LEMMA OtherAnsweredStep == ASSUME IInv, OtherAnswered PROVE IInv'
<1>1. UNCHANGED <<batch, post, uploaded, dropped, token, saved, valid, phase,
                  session>>
  BY DEF OtherAnswered, runVars
<1>2. CASE other = valid
  <2>1. UNCHANGED <<queue, flushTimer, offered, blocked>>
    BY <1>2 DEF OtherAnswered
  <2>2. Balanced
    BY <1>1, <2>1, StaysBalanced
  <2>3. Small' /\ NothingStarts' /\ OvershootIsBounded'
    BY <1>1, <2>1 DEF Small, IInv, Types, NothingStarts, OvershootIsBounded
  <2>4. QED
    BY <2>2, <2>3, Assembles
<1>3. CASE other # valid
  <2>1. PICK q \in {queue, <<offered + 1>> \o queue} :
            HandleUnauthorized(q) /\ queue' = q
    BY <1>3 DEF OtherAnswered
  <2>2. /\ q \in Seq(Nat) /\ offered' \in Nat
        /\ offered' + Len(queue) = offered + Len(q)
        /\ Len(q) + Len(batch) <= MaxQueue + MaxBatch + 1
        /\ blocked' = TRUE
        /\ flushTimer' \in BOOLEAN /\ (closed => ~flushTimer')
    BY <2>1, Unauthorized
  <2>3. offered' = uploaded' + dropped' + Len(queue') + Len(batch')
    <3>1. /\ Len(queue) \in Nat /\ Len(batch) \in Nat /\ Len(q) \in Nat
          /\ offered \in Nat /\ dropped \in Nat /\ uploaded \in Nat
      BY <2>2, LenProperties DEF IInv, Types
    <3>2. offered = uploaded + dropped + Len(queue) + Len(batch)
      BY DEF IInv, AllAccountedFor
    <3>3. offered' = uploaded + dropped + Len(q) + Len(batch)
      BY <2>2, <3>1, <3>2, SMTT(60)
    <3>4. QED
      BY <1>1, <2>1, <3>3, Zenon
  <2>4. OneBatch'
    BY <1>1 DEF IInv, OneBatch
  <2>5. Balanced
    BY <1>1, <2>1, <2>2, <2>3, <2>4 DEF Balanced, IInv, Types
  <2>6. OvershootIsBounded'
    <3>1. Len(queue') + Len(batch') <= MaxQueue + MaxBatch + 1
      BY <1>1, <2>1, <2>2
    <3>2. QED
      BY <2>2, <2>5, <3>1, MarkedIsBounded
  <2>7. Small' /\ NothingStarts'
    BY <1>1, <2>2 DEF Small, IInv, Types, NothingStarts
  <2>8. QED
    BY <2>5, <2>6, <2>7, Assembles
<1>4. QED
  BY <1>2, <1>3

LEMMA ProbeAnsweredStep == ASSUME IInv, ProbeAnswered PROVE IInv'
<1>1. UNCHANGED <<batch, post, uploaded, token, saved, valid, phase, session>>
  BY DEF ProbeAnswered, runVars, worldVars
<1>2. CASE token # valid
  <2>1. UNCHANGED <<queue, dropped, flushTimer, offered, blocked>>
    BY <1>2 DEF ProbeAnswered
  <2>2. Balanced
    BY <1>1, <2>1, StaysBalanced
  <2>3. Small' /\ NothingStarts' /\ OvershootIsBounded'
    BY <1>1, <2>1 DEF Small, IInv, Types, NothingStarts, OvershootIsBounded
  <2>4. QED
    BY <2>2, <2>3, Assembles
<1>3. CASE token = valid
  <2>1. Unblock
    BY <1>3 DEF ProbeAnswered
  <2>2. blocked' = FALSE /\ offered' = offered + 1
    BY <2>1 DEF Unblock
  <2>3. flushTimer' \in BOOLEAN /\ (closed => ~flushTimer')
    BY <2>1 DEF Unblock, MaySchedule, IInv, Types, NothingStarts
  <2>4. Small' /\ NothingStarts'
    BY <1>1, <2>2, <2>3 DEF Small, IInv, Types, NothingStarts
  <2>5. CASE closed
    <3>1. queue' = queue /\ dropped' = dropped + 1
      BY <2>1, <2>5 DEF Unblock
    <3>2. Len(queue) \in Nat /\ Len(batch) \in Nat
      BY LenProperties DEF IInv, Types
    <3>3. offered' = uploaded' + dropped' + Len(queue') + Len(batch')
      BY <1>1, <2>2, <3>1, <3>2 DEF IInv, Types, AllAccountedFor
    <3>4. OneBatch'
      BY <1>1 DEF IInv, OneBatch
    <3>5. Balanced
      BY <1>1, <2>2, <3>1, <3>2, <3>3, <3>4 DEF Balanced, IInv, Types
    <3>6. OvershootIsBounded'
      BY <1>1, <2>5, <3>1, <3>2, <3>5, KeepsBound
    <3>7. QED
      BY <2>4, <3>5, <3>6, Assembles
  <2>6. CASE ~closed
    <3>1. queue' = Admit(queue, offered') /\ dropped' = dropped + Overflow(queue)
      BY <2>1, <2>6 DEF Unblock
    <3>2. Balanced /\ Len(queue') + Len(batch') <= MaxQueue + MaxBatch
      BY <1>1, <2>2, <2>6, <3>1, EnqueueBalances
    <3>3. QED
      BY <2>4, <3>2, SmallIsBounded, Assembles
  <2>7. QED
    BY <2>5, <2>6
<1>4. QED
  BY <1>2, <1>3

LEMMA IInvStep == IInv /\ [Next]_vars => IInv'
<1> SUFFICES ASSUME IInv, [Next]_vars PROVE IInv'
  OBVIOUS
<1>1. CASE Enqueue \/ EnqueueImmediate
  BY <1>1, EnqueueStep, EnqueueImmediateStep
<1>2. CASE FlushContinues \/ FlushTimerFires
  BY <1>2, FlushContinuesStep, FlushTimerStep
<1>3. CASE BrokerHandles \/ PostAnswered \/ PostFails \/ PostRefused
  BY <1>3, BrokerHandlesStep, PostAnsweredStep, PostFailsStep, PostRefusedStep
<1>4. CASE OtherAnswered \/ ProbeAnswered
  BY <1>4, OtherAnsweredStep, ProbeAnsweredStep
<1>5. CASE CloseDrains \/ CloseEnds
  BY <1>5, CloseDrainsStep, CloseEndsStep
<1>6. CASE Quieting
  BY <1>6, QuietingStep
<1>7. QED
  BY <1>1, <1>2, <1>3, <1>4, <1>5, <1>6 DEF Next, Quieting

-----------------------------------------------------------------------------
(* The theorems.                                                           *)

LEMMA Invariance == Spec => []IInv
<1>1. QED
  BY IInvInit, IInvStep, PTL DEF Spec

(* stats() adds up after any sequence of retries, evictions, rejections and*)
(* shutdowns: no event is forgotten and none is counted twice.             *)
THEOREM UploadsAddUp == Spec => []AllAccountedFor
<1>1. IInv => AllAccountedFor
  BY DEF IInv
<1>2. QED
  BY Invariance, <1>1, PTL

(* The queue and the batch on the wire exceed maxQueueEvents by at most one*)
(* batch put back and one marker, for every cap and every batch size.      *)
THEOREM QueueStaysBounded == Spec => []OvershootIsBounded
<1>1. IInv => OvershootIsBounded
  BY DEF IInv
<1>2. QED
  BY Invariance, <1>1, PTL

(* Once close() has returned no upload starts and none is under way, so the*)
(* broker records nothing after the run.                                   *)
THEOREM ClosedUploaderIsSilent == Spec => ClosedForGood
<1>1. ASSUME IInv, [Next]_vars, phase = "closed"
      PROVE  UNCHANGED <<landed, batch, uploaded>>
  <2>1. batch = <<>> /\ ~flushTimer /\ session = "idle" /\ post.at = "idle"
    BY <1>1 DEF IInv, NothingStarts, OneBatch
  <2>2. CASE Quieting
    BY <2>2 DEF Quieting, OtherSent, Reenrolled, TokenSaved, ProbeSent,
        ProbeFails, ShutdownBegins, CloseBegins, BackoffFires, vars,
        uploadVars, worldVars
  <2>3. CASE Enqueue \/ OtherAnswered \/ ProbeAnswered
    BY <2>3 DEF Enqueue, OtherAnswered, ProbeAnswered, worldVars
  <2>4. CASE \/ EnqueueImmediate \/ FlushContinues \/ FlushTimerFires
             \/ CloseDrains \/ CloseEnds
    BY <1>1, <2>1, <2>4
    DEF EnqueueImmediate, FlushContinues, FlushTimerFires, CloseDrains, CloseEnds
  <2>5. CASE BrokerHandles \/ PostAnswered \/ PostFails \/ PostRefused
    BY <2>1, <2>5 DEF BrokerHandles, PostAnswered, PostFails, PostRefused
  <2>6. QED
    BY <1>1, <2>2, <2>3, <2>4, <2>5 DEF Next, Quieting
<1>2. IInv /\ [Next]_vars =>
        [phase = "closed" => UNCHANGED <<landed, batch, uploaded>>]_vars
  BY <1>1
<1>3. QED
  BY Invariance, <1>2, PTL DEF Spec, ClosedForGood

-----------------------------------------------------------------------------
(* What Excluding returns. The prover has no induction over sequences, but *)
(* it has the least element of a set of numbers, which does as well.       *)

(* What is true of a number only if it is true of the one before it, and   *)
(* true of zero, is true of every number.                                  *)
LEMMA Climbs ==
    ASSUME NEW good, 0 \in good, \A n \in Nat : n \in good => n + 1 \in good
    PROVE  Nat \subseteq good
<1> DEFINE bad == {n \in Nat : n \notin good}
<1>1. SUFFICES ASSUME bad # {} PROVE FALSE
  OBVIOUS
<1>2. PICK n \in bad : \A m \in bad : ~ (<<m, n>> \in OpToRel(<, Nat))
  BY <1>1, NatLessThanWellFounded, WFMin
<1>3. n \in Nat /\ n # 0
  OBVIOUS
<1>4. n - 1 \in Nat /\ n - 1 < n /\ n = (n - 1) + 1
  BY <1>3
<1>5. <<n - 1, n>> \in OpToRel(<, Nat)
  BY <1>3, <1>4 DEF OpToRel
<1>6. n - 1 \in good
  BY <1>2, <1>4, <1>5
<1>7. QED
  BY <1>3, <1>4, <1>6

UpTo(s, gone, f, n) ==
    f = [i \in 0 .. n |->
            IF i = 0 THEN <<>>
            ELSE IF s[i] \in gone THEN f[i - 1]
            ELSE Append(f[i - 1], s[i])]

LEMMA UpToExists ==
    ASSUME NEW s, NEW gone
    PROVE  \A n \in Nat : \E f : UpTo(s, gone, f, n)
<1> DEFINE good == {n \in Nat : \E f : UpTo(s, gone, f, n)}
<1>1. 0 \in good
  <2>1. UpTo(s, gone, [i \in 0 .. 0 |-> <<>>], 0)
    BY DEF UpTo
  <2>2. QED
    BY <2>1
<1>2. ASSUME NEW n \in Nat, n \in good PROVE n + 1 \in good
  <2>1. PICK f : UpTo(s, gone, f, n)
    BY <1>2
  <2> DEFINE g == [i \in 0 .. n + 1 |->
                      IF i = n + 1
                      THEN IF s[n + 1] \in gone THEN f[n] ELSE Append(f[n], s[n + 1])
                      ELSE f[i]]
  <2>2. \A i \in 0 .. n : g[i] = f[i]
    OBVIOUS
  <2>3. \A i \in 0 .. n + 1 : g[i] = IF i = 0 THEN <<>>
            ELSE IF s[i] \in gone THEN g[i - 1]
            ELSE Append(g[i - 1], s[i])
    <3>1. TAKE i \in 0 .. n + 1
    <3>2. CASE i = n + 1
      <4>1. g[n] = f[n] /\ (n + 1) - 1 = n /\ n + 1 # 0 
        BY <2>2
      <4>2. g[n + 1] = IF s[n + 1] \in gone THEN f[n] ELSE Append(f[n], s[n + 1])
        OBVIOUS
      <4>3. QED
        BY <4>1, <4>2, <3>2, Zenon
    <3>3. CASE i \in 1 .. n
      <4>1. i - 1 \in 0 .. n /\ i \in 0 .. n /\ i # 0
        BY <3>3
      <4>2. g[i] = f[i] /\ g[i - 1] = f[i - 1]
        BY <2>2, <4>1, Zenon
      <4>3. f[i] = IF s[i] \in gone THEN f[i - 1] ELSE Append(f[i - 1], s[i])
        BY <2>1, <4>1 DEF UpTo
      <4>4. QED
        BY <4>1, <4>2, <4>3, Zenon
    <3>4. CASE i = 0
      <4>1. f[0] = <<>> /\ g[0] = f[0]
        BY <2>1, <2>2 DEF UpTo
      <4>2. QED
        BY <4>1, <3>4, Zenon
    <3>5. QED
      BY <3>2, <3>3, <3>4
  <2>4. UpTo(s, gone, g, n + 1)
    <3>1. g = [i \in 0 .. n + 1 |-> g[i]]
      OBVIOUS
    <3> HIDE DEF g
    <3>2. QED
      BY <2>3, <3>1 DEF UpTo
  <2>5. QED
    BY <2>4
<1>3. Nat \subseteq good
  <2> HIDE DEF good
  <2>1. QED
    BY <1>1, <1>2, Climbs
<1>4. QED
  BY <1>3

AgreeUpTo(s, t, m) == \A i \in 1 .. m : s[i] = t[i]

(* Two of them agree as far as their sequences do.                         *)
LEMMA UpToAgree ==
    ASSUME NEW s, NEW t, NEW gone, NEW f, NEW g, NEW m \in Nat, NEW n \in Nat,
           UpTo(s, gone, f, m), UpTo(t, gone, g, n), m <= n,
           AgreeUpTo(s, t, m)
    PROVE  f[m] = g[m]
<1> DEFINE good == {k \in Nat : k <= m => f[k] = g[k]}
<1>1. 0 \in good
  BY DEF UpTo
<1>2. ASSUME NEW k \in Nat, k \in good PROVE k + 1 \in good
  <2>1. SUFFICES ASSUME k + 1 <= m PROVE f[k + 1] = g[k + 1]
    OBVIOUS
  <2>2. /\ k + 1 \in 0 .. m /\ k + 1 \in 0 .. n /\ k + 1 # 0
        /\ (k + 1) - 1 = k /\ k + 1 \in 1 .. m
    BY <2>1
  <2>3. f[k + 1] = IF s[k + 1] \in gone THEN f[k] ELSE Append(f[k], s[k + 1])
    BY <2>2 DEF UpTo
  <2>4. g[k + 1] = IF t[k + 1] \in gone THEN g[k] ELSE Append(g[k], t[k + 1])
    BY <2>2 DEF UpTo
  <2>5. f[k] = g[k] /\ s[k + 1] = t[k + 1]
    BY <1>2, <2>1, <2>2 DEF AgreeUpTo
  <2>6. QED
    BY <2>3, <2>4, <2>5, Zenon
<1>3. Nat \subseteq good
  <2> HIDE DEF good
  <2>1. QED
    BY <1>1, <1>2, Climbs
<1>4. QED
  BY <1>3

LEMMA ExcludingIs ==
    ASSUME NEW s, NEW gone, NEW f, Len(s) \in Nat, UpTo(s, gone, f, Len(s))
    PROVE  Excluding(s, gone) = f[Len(s)]
<1> DEFINE h == CHOOSE h : UpTo(s, gone, h, Len(s))
<1>1. UpTo(s, gone, h, Len(s))
  BY UpToExists, Zenon
<1>2. Excluding(s, gone) = h[Len(s)]
  BY DEF Excluding, UpTo
<1> HIDE DEF h
<1>3. Len(s) <= Len(s) /\ AgreeUpTo(s, s, Len(s))
  BY DEF AgreeUpTo
<1>4. h[Len(s)] = f[Len(s)]
  BY <1>1, <1>3, UpToAgree, SMTT(30)
<1>5. QED
  BY <1>2, <1>4

LEMMA ExcludingEmpty == ASSUME NEW gone PROVE Excluding(<<>>, gone) = <<>>
<1>1. UpTo(<<>>, gone, [i \in 0 .. 0 |-> <<>>], 0)
  BY DEF UpTo
<1>2. Len(<<>>) = 0
  BY EmptySeq
<1>3. QED
  BY <1>1, <1>2, ExcludingIs

LEMMA ExcludingAppend ==
    ASSUME NEW s \in Seq(Nat), NEW e \in Nat, NEW gone
    PROVE  Excluding(Append(s, e), gone) =
              IF e \in gone THEN Excluding(s, gone)
              ELSE Append(Excluding(s, gone), e)
<1> DEFINE t == Append(s, e)
           n == Len(s)
<1>1. n \in Nat /\ Len(t) = n + 1 /\ t[n + 1] = e 
      /\ n + 1 \in Nat /\ n <= n + 1
  BY LenProperties, AppendProperties
<1>9. AgreeUpTo(s, t, n)
  BY LenProperties, AppendProperties DEF AgreeUpTo
<1>2. PICK f : UpTo(s, gone, f, n)
  BY <1>1, UpToExists
<1>3. PICK g : UpTo(t, gone, g, n + 1)
  BY <1>1, UpToExists, Zenon
<1> HIDE DEF t, n
<1>4. f[n] = g[n]
  <2> DEFINE k == n + 1
  <2>1. UpTo(t, gone, g, k) /\ k \in Nat /\ n <= k
    BY <1>1, <1>3
  <2> HIDE DEF k
  <2>2. QED
    BY <1>1, <1>2, <1>9, <2>1, UpToAgree
<1>5. g[n + 1] = IF e \in gone THEN g[n] ELSE Append(g[n], e)
  <2>1. n + 1 \in 0 .. n + 1 /\ n + 1 # 0 /\ (n + 1) - 1 = n
    BY <1>1
  <2>2. g[n + 1] = IF t[n + 1] \in gone THEN g[(n + 1) - 1]
                   ELSE Append(g[(n + 1) - 1], t[n + 1])
    BY <1>3, <2>1, Zenon DEF UpTo
  <2>3. QED
    BY <1>1, <2>1, <2>2, Zenon
<1>6. Excluding(s, gone) = f[n]
  BY <1>1, <1>2, ExcludingIs DEF n
<1>7. Excluding(t, gone) = g[n + 1]
  <2>1. Len(t) \in Nat
    BY <1>1
  <2>2. QED
    BY <1>1, <1>3, <2>1, ExcludingIs
<1>8. QED
  BY <1>4, <1>5, <1>6, <1>7, Zenon DEF t

(* What is true of the empty sequence and stays true when an event is      *)
(* appended is true of every sequence of events.                           *)
LEMMA SequencesClimb ==
    ASSUME NEW good, <<>> \in good,
           \A s \in Seq(Nat), e \in Nat : s \in good => Append(s, e) \in good
    PROVE  Seq(Nat) \subseteq good
<1> DEFINE lengths == {n \in Nat : \A s \in Seq(Nat) : Len(s) = n => s \in good}
<1>1. 0 \in lengths
  BY EmptySeq
<1>2. ASSUME NEW n \in Nat, n \in lengths PROVE n + 1 \in lengths
  <2>1. SUFFICES ASSUME NEW t \in Seq(Nat), Len(t) = n + 1 PROVE t \in good
    OBVIOUS
  <2>2. t # <<>>
    BY <2>1, EmptySeq
  <2>3. PICK s \in Seq(Nat), e \in Nat : t = Append(s, e)
    BY <2>2, SequenceEmptyOrAppend
  <2>4. Len(s) = n
    BY <2>1, <2>3, AppendProperties, LenProperties
  <2>5. QED
    BY <1>2, <2>3, <2>4
<1>3. Nat \subseteq lengths
  <2> HIDE DEF lengths
  <2>1. QED
    BY <1>1, <1>2, Climbs
<1>4. QED
  BY <1>3, LenProperties

(* The events of a sequence.                                               *)
LEMMA EventsOf ==
    ASSUME NEW s \in Seq(Nat), NEW t \in Seq(Nat), NEW e \in Nat
    PROVE  /\ ToSet(s) \subseteq Nat
           /\ ToSet(<<>>) = {}
           /\ ToSet(<<e>>) = {e}
           /\ ToSet(s \o t) = ToSet(s) \cup ToSet(t)
           /\ ToSet(Append(s, e)) = ToSet(s) \cup {e}
           /\ s = <<>> <=> ToSet(s) = {}
<1>1. \A q : ToSet(q) = Range(q)
  BY DEF ToSet, Range
<1>2. <<>> \in Seq(Nat) /\ <<e>> \in Seq(Nat)
  OBVIOUS
<1>3. ToSet(s) \subseteq Nat
  BY <1>1, RangeOfSeq
<1>4. ToSet(<<>>) = {} /\ ToSet(<<e>>) = {e}
  <2>1. Range(<<>>) = {<<>>[i] : i \in 1 .. Len(<<>>)}
    BY <1>2, RangeEquality
  <2>2. Range(<<e>>) = {<<e>>[i] : i \in 1 .. Len(<<e>>)}
    BY <1>2, RangeEquality
  <2>3. QED
    BY <1>1, <2>1, <2>2
<1>5. \A u \in Seq(Nat) : ToSet(s \o u) = ToSet(s) \cup ToSet(u)
  <2>1. TAKE u \in Seq(Nat)
  <2>2. /\ s \o u \in Seq(Nat) /\ Len(s) \in Nat /\ Len(u) \in Nat
        /\ Len(s \o u) = Len(s) + Len(u)
        /\ \A i \in 1 .. Len(s) + Len(u) :
               (s \o u)[i] = IF i <= Len(s) THEN s[i] ELSE u[i - Len(s)]
    BY ConcatProperties, LenProperties
  <2>3. /\ ToSet(s \o u) = {(s \o u)[i] : i \in 1 .. Len(s) + Len(u)}
        /\ ToSet(s) = {s[i] : i \in 1 .. Len(s)}
        /\ ToSet(u) = {u[i] : i \in 1 .. Len(u)}
    BY <1>1, <2>2, RangeEquality
  <2>4. ASSUME NEW x \in ToSet(s \o u) PROVE x \in ToSet(s) \cup ToSet(u)
    <3>1. PICK i \in 1 .. Len(s) + Len(u) : x = (s \o u)[i]
      BY <2>3, <2>4
    <3>2. CASE i <= Len(s)
      BY <2>2, <2>3, <3>1, <3>2
    <3>3. CASE ~(i <= Len(s))
      <4>1. i - Len(s) \in 1 .. Len(u) /\ x = u[i - Len(s)]
        BY <2>2, <3>1, <3>3
      <4>2. QED
        BY <2>3, <4>1
    <3>4. QED
      BY <3>2, <3>3
  <2>5. ASSUME NEW x \in ToSet(s) PROVE x \in ToSet(s \o u)
    <3>1. PICK i \in 1 .. Len(s) : x = s[i]
      BY <2>3, <2>5
    <3>2. i \in 1 .. Len(s) + Len(u) /\ x = (s \o u)[i]
      BY <2>2, <3>1
    <3>3. QED
      BY <2>3, <3>2
  <2>6. ASSUME NEW x \in ToSet(u) PROVE x \in ToSet(s \o u)
    <3>1. PICK i \in 1 .. Len(u) : x = u[i]
      BY <2>3, <2>6
    <3> DEFINE j == i + Len(s)
    <3>2. j \in 1 .. Len(s) + Len(u) /\ ~(j <= Len(s)) /\ j - Len(s) = i
      BY <2>2, <3>1
    <3> HIDE DEF j
    <3>3. x = (s \o u)[j]
      BY <2>2, <3>1, <3>2
    <3>4. QED
      BY <2>3, <3>2, <3>3
  <2>7. QED
    BY <2>4, <2>5, <2>6
<1>6. Append(s, e) = s \o <<e>>
  BY AppendIsConcat
<1>7. ASSUME s # <<>> PROVE s[1] \in ToSet(s)
  <2>1. Len(s) \in Nat /\ Len(s) # 0
    BY <1>7, EmptySeq, LenProperties
  <2>2. ToSet(s) = {s[i] : i \in 1 .. Len(s)}
    BY <1>1, RangeEquality
  <2>3. QED
    BY <2>1, <2>2
<1>8. ToSet(s \o t) = ToSet(s) \cup ToSet(t)
  BY <1>5
<1>9. ToSet(Append(s, e)) = ToSet(s) \cup {e}
  BY <1>2, <1>4, <1>5, <1>6, Zenon
<1>10. s = <<>> <=> ToSet(s) = {}
  BY <1>4, <1>7
<1>11. QED
  BY <1>3, <1>4, <1>8, <1>9, <1>10, Zenon

LEMMA ExcludingRange ==
    ASSUME NEW s \in Seq(Nat), NEW gone
    PROVE  /\ Excluding(s, gone) \in Seq(Nat)
           /\ ToSet(Excluding(s, gone)) = ToSet(s) \ gone
<1> DEFINE good == {q \in Seq(Nat) : /\ Excluding(q, gone) \in Seq(Nat)
                                     /\ ToSet(Excluding(q, gone)) = ToSet(q) \ gone}
<1>1. <<>> \in good
  <2>1. <<>> \in Seq(Nat)
    OBVIOUS
  <2>2. QED
    BY <2>1, ExcludingEmpty, EventsOf
<1>2. ASSUME NEW q \in Seq(Nat), NEW e \in Nat, q \in good PROVE Append(q, e) \in good
  <2>1. Append(q, e) \in Seq(Nat) /\ ToSet(Append(q, e)) = ToSet(q) \cup {e}
    BY EventsOf, AppendProperties
  <2>2. CASE e \in gone
    <3>1. Excluding(Append(q, e), gone) = Excluding(q, gone)
      BY <2>2, ExcludingAppend
    <3>2. QED
      BY <1>2, <2>1, <2>2, <3>1
  <2>3. CASE e \notin gone
    <3>1. Excluding(Append(q, e), gone) = Append(Excluding(q, gone), e)
      BY <2>3, ExcludingAppend
    <3>2. /\ Append(Excluding(q, gone), e) \in Seq(Nat)
          /\ ToSet(Append(Excluding(q, gone), e)) = ToSet(Excluding(q, gone)) \cup {e}
      BY <1>2, EventsOf, AppendProperties
    <3>3. QED
      BY <1>2, <2>1, <2>3, <3>1, <3>2
  <2>4. QED
    BY <2>2, <2>3
<1>3. Seq(Nat) \subseteq good
  <2> HIDE DEF good
  <2>1. QED
    BY <1>1, <1>2, SequencesClimb
<1>4. QED
  BY <1>3

LEMMA ExcludingConcat ==
    ASSUME NEW s \in Seq(Nat), NEW t \in Seq(Nat), NEW gone
    PROVE  Excluding(s \o t, gone) = Excluding(s, gone) \o Excluding(t, gone)
<1> DEFINE good == {q \in Seq(Nat) :
               Excluding(s \o q, gone) = Excluding(s, gone) \o Excluding(q, gone)}
<1>1. <<>> \in good
  <2>1. <<>> \in Seq(Nat) /\ s \o <<>> = s /\ Excluding(<<>>, gone) = <<>>
    BY ConcatEmptySeq, ExcludingEmpty
  <2>2. Excluding(s, gone) \o <<>> = Excluding(s, gone)
    BY ExcludingRange, ConcatEmptySeq
  <2>3. QED
    BY <2>1, <2>2
<1>2. ASSUME NEW q \in Seq(Nat), NEW e \in Nat, q \in good PROVE Append(q, e) \in good
  <2> DEFINE xs == Excluding(s, gone)
             xq == Excluding(q, gone)
  <2>1. /\ Append(q, e) \in Seq(Nat) /\ s \o q \in Seq(Nat) /\ <<e>> \in Seq(Nat)
        /\ xs \in Seq(Nat) /\ xq \in Seq(Nat) /\ xs \o xq \in Seq(Nat)
    BY AppendProperties, ConcatProperties, ExcludingRange
  <2>2. s \o Append(q, e) = Append(s \o q, e)
    <3>1. Append(q, e) = q \o <<e>> /\ Append(s \o q, e) = (s \o q) \o <<e>>
      BY <2>1, AppendIsConcat
    <3>2. QED
      BY <2>1, <3>1, ConcatAssociative
  <2>3. xs \o Append(xq, e) = Append(xs \o xq, e)
    <3> HIDE DEF xs, xq
    <3>1. Append(xq, e) = xq \o <<e>> /\ Append(xs \o xq, e) = (xs \o xq) \o <<e>>
      BY <2>1, AppendIsConcat
    <3>2. QED
      BY <2>1, <3>1, ConcatAssociative
  <2>4. Excluding(s \o q, gone) = xs \o xq
    BY <1>2
  <2>5. Excluding(Append(q, e), gone) = IF e \in gone THEN xq ELSE Append(xq, e)
    BY ExcludingAppend, Zenon
  <2>6. Excluding(Append(s \o q, e), gone) =
            IF e \in gone THEN xs \o xq ELSE Append(xs \o xq, e)
    <3> DEFINE sq == s \o q
    <3>1. sq \in Seq(Nat) /\ Excluding(sq, gone) = xs \o xq
      BY <2>1, <2>4
    <3> HIDE DEF sq, xs, xq
    <3>2. Excluding(Append(sq, e), gone) =
              IF e \in gone THEN Excluding(sq, gone) ELSE Append(Excluding(sq, gone), e)
      BY <3>1, ExcludingAppend, Zenon
    <3>3. QED
      BY <3>1, <3>2, Zenon DEF sq
  <2>7. Excluding(s \o Append(q, e), gone) = xs \o Excluding(Append(q, e), gone)
    <3> HIDE DEF xs, xq
    <3>1. QED
      BY <2>2, <2>3, <2>5, <2>6, Zenon
  <2>8. QED
    BY <2>1, <2>7
<1>3. Seq(Nat) \subseteq good
  <2> HIDE DEF good
  <2>1. QED
    BY <1>1, <1>2, SequencesClimb
<1>4. QED
  BY <1>3

(* Only the events that are there matter.                                  *)
LEMMA ExcludingSame ==
    ASSUME NEW s \in Seq(Nat), NEW g, NEW h, ToSet(s) \cap g = ToSet(s) \cap h
    PROVE  Excluding(s, g) = Excluding(s, h)
<1> DEFINE good == {q \in Seq(Nat) : ToSet(q) \cap g = ToSet(q) \cap h
                                       => Excluding(q, g) = Excluding(q, h)}
<1>1. <<>> \in good
  BY ExcludingEmpty
<1>2. ASSUME NEW q \in Seq(Nat), NEW e \in Nat, q \in good PROVE Append(q, e) \in good
  <2>1. Append(q, e) \in Seq(Nat) /\ ToSet(Append(q, e)) = ToSet(q) \cup {e}
    BY EventsOf, AppendProperties
  <2>2. SUFFICES ASSUME ToSet(Append(q, e)) \cap g = ToSet(Append(q, e)) \cap h
                 PROVE  Excluding(Append(q, e), g) = Excluding(Append(q, e), h)
    BY <2>1
  <2>3. (e \in g <=> e \in h) /\ ToSet(q) \cap g = ToSet(q) \cap h
    BY <2>1, <2>2
  <2>4. Excluding(q, g) = Excluding(q, h)
    BY <1>2, <2>3
  <2>5. /\ Excluding(Append(q, e), g) =
               IF e \in g THEN Excluding(q, g) ELSE Append(Excluding(q, g), e)
        /\ Excluding(Append(q, e), h) =
               IF e \in h THEN Excluding(q, h) ELSE Append(Excluding(q, h), e)
    BY ExcludingAppend, Zenon
  <2>6. QED
    BY <2>3, <2>4, <2>5
<1>3. Seq(Nat) \subseteq good
  <2> HIDE DEF good
  <2>1. QED
    BY <1>1, <1>2, SequencesClimb
<1>4. QED
  BY <1>3

LEMMA ExcludingNone ==
    ASSUME NEW s \in Seq(Nat), NEW g, ToSet(s) \cap g = {}
    PROVE  Excluding(s, g) = s
<1> DEFINE good == {q \in Seq(Nat) : Excluding(q, {}) = q}
<1>1. <<>> \in good
  BY ExcludingEmpty
<1>2. ASSUME NEW q \in Seq(Nat), NEW e \in Nat, q \in good PROVE Append(q, e) \in good
  <2>1. Append(q, e) \in Seq(Nat)
    BY AppendProperties
  <2>2. Excluding(Append(q, e), {}) = Append(Excluding(q, {}), e)
    BY ExcludingAppend
  <2>3. QED
    BY <1>2, <2>1, <2>2
<1>3. Seq(Nat) \subseteq good
  <2> HIDE DEF good
  <2>1. QED
    BY <1>1, <1>2, SequencesClimb
<1>4. Excluding(s, g) = Excluding(s, {})
  <2>1. ToSet(s) \cap g = ToSet(s) \cap {}
    OBVIOUS
  <2>2. QED
    BY <2>1, ExcludingSame, Zenon
<1>5. QED
  BY <1>3, <1>4

LEMMA ExcludingAll ==
    ASSUME NEW s \in Seq(Nat), NEW g, ToSet(s) \subseteq g
    PROVE  Excluding(s, g) = <<>>
<1>1. Excluding(s, g) \in Seq(Nat) /\ ToSet(Excluding(s, g)) = {}
  BY ExcludingRange
<1>2. QED
  BY <1>1, EventsOf

-----------------------------------------------------------------------------
(* Sequences without repetition, and where they are split.                 *)

Distinct(s) == \A i, j \in 1 .. Len(s) : s[i] = s[j] => i = j

LEMMA DistinctConcat ==
    ASSUME NEW s \in Seq(Nat), NEW t \in Seq(Nat)
    PROVE  Distinct(s \o t) <=>
              Distinct(s) /\ Distinct(t) /\ ToSet(s) \cap ToSet(t) = {}
<1> DEFINE st == s \o t
<1>1. /\ Len(s) \in Nat /\ Len(t) \in Nat /\ Len(st) = Len(s) + Len(t)
      /\ \A i \in 1 .. Len(s) + Len(t) :
            st[i] = IF i <= Len(s) THEN s[i] ELSE t[i - Len(s)]
  BY ConcatProperties, LenProperties
<1>2. /\ ToSet(s) = {s[i] : i \in 1 .. Len(s)}
      /\ ToSet(t) = {t[i] : i \in 1 .. Len(t)}
  <2>1. DOMAIN s = 1 .. Len(s) /\ DOMAIN t = 1 .. Len(t)
    BY LenProperties
  <2>2. QED
    BY <2>1 DEF ToSet
<1> HIDE DEF st
<1>3. \A i \in 1 .. Len(s) : i \in 1 .. Len(st) /\ st[i] = s[i]
  BY <1>1
<1>4. \A i \in 1 .. Len(t) : i + Len(s) \in 1 .. Len(st) /\ st[i + Len(s)] = t[i]
  <2>1. TAKE i \in 1 .. Len(t)
  <2>2. /\ i + Len(s) \in 1 .. Len(s) + Len(t) /\ ~(i + Len(s) <= Len(s))
        /\ (i + Len(s)) - Len(s) = i
    BY <1>1
  <2>3. st[i + Len(s)] = t[(i + Len(s)) - Len(s)]
    BY <1>1, <2>2
  <2>4. QED
    BY <1>1, <2>2, <2>3, Zenon
<1>5. ASSUME Distinct(st) PROVE Distinct(s) /\ Distinct(t) /\ ToSet(s) \cap ToSet(t) = {}
  <2>1. Distinct(s)
    BY <1>3, <1>5 DEF Distinct
  <2>2. Distinct(t)
    <3>1. SUFFICES ASSUME NEW i \in 1 .. Len(t), NEW j \in 1 .. Len(t), t[i] = t[j]
                   PROVE  i = j
      BY DEF Distinct
    <3>2. i + Len(s) = j + Len(s)
      BY <1>4, <1>5, <3>1 DEF Distinct
    <3>3. QED
      BY <1>1, <3>2
  <2>3. ASSUME NEW x \in ToSet(s), x \in ToSet(t) PROVE FALSE
    <3>1. PICK i \in 1 .. Len(s) : x = s[i]
      BY <1>2, <2>3
    <3>2. PICK j \in 1 .. Len(t) : x = t[j]
      BY <1>2, <2>3
    <3>3. i = j + Len(s)
      BY <1>3, <1>4, <1>5, <3>1, <3>2 DEF Distinct
    <3>4. QED
      BY <1>1, <3>3
  <2>4. QED
    BY <2>1, <2>2, <2>3
<1>6. ASSUME Distinct(s), Distinct(t), ToSet(s) \cap ToSet(t) = {} PROVE Distinct(st)
  <2>1. SUFFICES ASSUME NEW i \in 1 .. Len(st), NEW j \in 1 .. Len(st), st[i] = st[j]
                 PROVE  i = j
    BY DEF Distinct
  <2>2. \A k \in 1 .. Len(st) :
           \/ k \in 1 .. Len(s) /\ st[k] = s[k] /\ st[k] \in ToSet(s)
           \/ k - Len(s) \in 1 .. Len(t) /\ st[k] = t[k - Len(s)] /\ st[k] \in ToSet(t)
    <3>1. TAKE k \in 1 .. Len(st)
    <3>2. CASE k <= Len(s)
      BY <1>1, <1>2, <3>2
    <3>3. CASE ~(k <= Len(s))
      <4>1. k - Len(s) \in 1 .. Len(t) /\ st[k] = t[k - Len(s)]
        BY <1>1, <3>3
      <4>2. QED
        BY <1>2, <4>1
    <3>4. QED
      BY <3>2, <3>3
  <2>3. CASE st[i] \in ToSet(s)
    <3>1. i \in 1 .. Len(s) /\ j \in 1 .. Len(s) /\ s[i] = s[j]
      BY <1>6, <2>1, <2>2, <2>3
    <3>2. QED
      BY <1>6, <3>1 DEF Distinct
  <2>4. CASE st[i] \in ToSet(t)
    <3>1. i - Len(s) \in 1 .. Len(t) /\ j - Len(s) \in 1 .. Len(t)
          /\ t[i - Len(s)] = t[j - Len(s)]
      BY <1>6, <2>1, <2>2, <2>4
    <3>2. i - Len(s) = j - Len(s)
      BY <1>6, <3>1 DEF Distinct
    <3>3. QED
      BY <1>1, <3>2
  <2>5. QED
    BY <2>2, <2>3, <2>4
<1>7. QED
  BY <1>5, <1>6 DEF st

LEMMA Splits ==
    ASSUME NEW s \in Seq(Nat), NEW t \in Seq(Nat)
    PROVE  /\ SubSeq(s \o t, 1, Len(s)) = s
           /\ SubSeq(s \o t, Len(s) + 1, Len(s \o t)) = t
<1> DEFINE st == s \o t
<1>1. /\ Len(s) \in Nat /\ Len(t) \in Nat /\ Len(st) = Len(s) + Len(t)
      /\ st \in Seq(Nat)
      /\ \A i \in 1 .. Len(s) + Len(t) :
            st[i] = IF i <= Len(s) THEN s[i] ELSE t[i - Len(s)]
  BY ConcatProperties, LenProperties
<1>2. \A i \in 1 .. Len(st) : st[i] \in Nat
  BY <1>1, ElementOfSeq
<1> HIDE DEF st
<1>3. SubSeq(st, 1, Len(s)) = s
  <2> DEFINE head == SubSeq(st, 1, Len(s))
  <2>1. \A i \in 1 .. Len(s) : st[i] \in Nat
    BY <1>1, <1>2
  <2>2. head \in Seq(Nat) /\ Len(head) = Len(s)
        /\ \A i \in 1 .. Len(s) - 1 + 1 : head[i] = st[1 + i - 1]
    BY <1>1, <2>1, SubSeqProperties
  <2> HIDE DEF head
  <2>3. \A i \in 1 .. Len(s) : head[i] = s[i]
    BY <1>1, <2>2
  <2>4. QED
    BY <2>2, <2>3, SeqEqual DEF head
<1>4. SubSeq(st, Len(s) + 1, Len(st)) = t
  <2> DEFINE rest == SubSeq(st, Len(s) + 1, Len(st))
  <2>1. \A i \in Len(s) + 1 .. Len(st) : st[i] \in Nat
    BY <1>1, <1>2
  <2>2. /\ rest \in Seq(Nat)
        /\ Len(rest) = IF Len(s) + 1 <= Len(st) THEN Len(st) - (Len(s) + 1) + 1 ELSE 0
        /\ \A i \in 1 .. Len(st) - (Len(s) + 1) + 1 : rest[i] = st[Len(s) + 1 + i - 1]
    BY <1>1, <2>1, SubSeqProperties
  <2> HIDE DEF rest
  <2>3. Len(rest) = Len(t)
    BY <1>1, <2>2
  <2>4. \A i \in 1 .. Len(t) : rest[i] = t[i]
    <3>1. TAKE i \in 1 .. Len(t)
    <3>2. rest[i] = st[Len(s) + 1 + i - 1]
      BY <1>1, <2>2
    <3>3. /\ Len(s) + 1 + i - 1 \in 1 .. Len(s) + Len(t)
          /\ ~(Len(s) + 1 + i - 1 <= Len(s))
          /\ (Len(s) + 1 + i - 1) - Len(s) = i
      BY <1>1
    <3>4. QED
      BY <1>1, <3>2, <3>3
  <2>5. QED
    BY <2>2, <2>3, <2>4, SeqEqual DEF rest
<1>5. QED
  BY <1>3, <1>4 DEF st

(* Letting go of the events in the middle of a sequence without repetition.*)
LEMMA LettingGo ==
    ASSUME NEW b \in Seq(Nat), NEW d \in Seq(Nat), NEW r \in Seq(Nat),
           Distinct(b \o (d \o r))
    PROVE  Excluding(b \o (d \o r), ToSet(d)) = b \o r
<1> DEFINE g == ToSet(d)
<1>1. d \o r \in Seq(Nat)
  BY ConcatProperties
<1>2. ToSet(d) \cap ToSet(r) = {} /\ ToSet(b) \cap ToSet(d) = {}
  <2>1. Distinct(d \o r) /\ ToSet(b) \cap ToSet(d \o r) = {}
    BY <1>1, DistinctConcat
  <2>2. ToSet(d \o r) = ToSet(d) \cup ToSet(r)
    BY EventsOf
  <2>3. ToSet(d) \cap ToSet(r) = {}
    BY <2>1, DistinctConcat
  <2>4. QED
    BY <2>1, <2>2, <2>3
<1>3. ToSet(b) \cap g = {} /\ ToSet(r) \cap g = {} /\ ToSet(d) \subseteq g
  BY <1>2
<1> HIDE DEF g
<1>4. Excluding(b, g) = b /\ Excluding(r, g) = r /\ Excluding(d, g) = <<>>
  BY <1>3, ExcludingNone, ExcludingAll
<1>5. Excluding(b \o (d \o r), g) = Excluding(b, g) \o (Excluding(d, g) \o Excluding(r, g))
  <2> DEFINE dr == d \o r
  <2>1. dr \in Seq(Nat) /\ Excluding(dr, g) = Excluding(d, g) \o Excluding(r, g)
    BY <1>1, ExcludingConcat
  <2> HIDE DEF dr
  <2>2. Excluding(b \o dr, g) = Excluding(b, g) \o Excluding(dr, g)
    BY <2>1, ExcludingConcat
  <2>3. QED
    BY <2>1, <2>2, Zenon DEF dr
<1>6. <<>> \o r = r
  BY ConcatEmptySeq
<1>7. QED
  BY <1>4, <1>5, <1>6, Zenon DEF g

-----------------------------------------------------------------------------
(* What a step does to the trace: to the events in hand (on the wire, then *)
(* queued), to the broker's record and to the numbers given out.           *)

StoredHasLanded == post.at = "stored" => ToSet(batch) \subseteq ToSet(landed)

Kept == UNCHANGED <<hand, keyed, landed, offered, over>>

Numbering == offered' = offered + 1 /\ UNCHANGED <<landed, over>>

Arrives ==
    /\ Numbering /\ ~over
    /\ keyed' \in {keyed, keyed \cup {offered'}}
    /\ hand' = batch \o Admit(queue, offered')

TurnedAway == Numbering /\ UNCHANGED <<hand, keyed>>

Marks ==
    /\ Numbering /\ ~over /\ UNCHANGED keyed
    /\ hand' = batch \o (<<offered'>> \o queue)

Lands ==
    /\ ~over /\ batch # <<>>
    /\ landed' = landed \o Excluding(batch, ToSet(landed) \cap keyed)
    /\ UNCHANGED <<hand, keyed, offered, over>>

Settles ==
    /\ ToSet(batch) \subseteq ToSet(landed) /\ batch # <<>>
    /\ hand' = queue
    /\ UNCHANGED <<keyed, landed, offered, over>>

Finishes ==
    /\ ~over /\ over'
    /\ hand' = hand \/ hand' = <<>>
    /\ UNCHANGED <<keyed, landed, offered>>

LEMMA StartingKeeps ==
    ASSUME NEW q \in Seq(Nat), StartPost(q)
    PROVE  hand' = q
<1> DEFINE n == BatchSize(q)
<1>1. Len(q) \in Nat /\ n \in 0 .. Len(q)
  BY LenProperties, UploaderConstantsOK DEF BatchSize
<1>2. batch' \o queue' = SubSeq(q, 1, n) \o SubSeq(q, n + 1, Len(q))
  BY DEF StartPost, Taken, Rest
<1> HIDE DEF n
<1>3. SubSeq(q, 1, n) \o SubSeq(q, n + 1, Len(q)) = SubSeq(q, 1, Len(q))
  <2>1. 1 \in 1 .. Len(q) + 1 /\ n \in 1 - 1 .. Len(q) /\ Len(q) \in n .. Len(q)
    BY <1>1
  <2>2. QED
    BY <2>1, ConcatAdjacentSubSeq
<1>4. QED
  BY <1>2, <1>3, SubSeqFull DEF hand

LEMMA EmptyWire ==
    ASSUME IInv, batch = <<>>
    PROVE  /\ hand = queue
           /\ \A q \in Seq(Nat) : batch \o q = q
BY ConcatEmptySeq DEF IInv, Types, hand

LEMMA AdmitsSeq ==
    ASSUME IInv, offered' = offered + 1
    PROVE  Admit(queue, offered') \in Seq(Nat)
BY Admits DEF IInv, Types

LEMMA EffectOfStep ==
    ASSUME IInv, StoredHasLanded, [Next]_vars
    PROVE  \/ Kept \/ Arrives \/ TurnedAway \/ Marks
           \/ Lands \/ Settles \/ Finishes
<1>1. queue \in Seq(Nat) /\ batch \in Seq(Nat) /\ <<>> \in Seq(Nat)
  BY DEF IInv, Types
<1> USE DEF over
<1>2. CASE \/ OtherSent \/ Reenrolled \/ TokenSaved \/ ProbeSent \/ ProbeFails
           \/ ShutdownBegins \/ CloseBegins \/ BackoffFires \/ UNCHANGED vars
  <2>1. UNCHANGED <<queue, batch, keyed, landed, offered, over>>
    BY <1>2 DEF OtherSent, Reenrolled, TokenSaved, ProbeSent, ProbeFails,
        ShutdownBegins, CloseBegins, BackoffFires, vars, uploadVars, runVars,
        worldVars
  <2>2. QED
    BY <2>1 DEF Kept, hand
<1>3. CASE Enqueue
  <2>1. offered' = offered + 1 /\ UNCHANGED <<batch, landed, over>>
    BY <1>3 DEF Enqueue, runVars
  <2>2. \/ queue' = queue /\ keyed' = keyed
        \/ /\ queue' = Admit(queue, offered') /\ ~over
           /\ keyed' \in {keyed, keyed \cup {offered'}}
    BY <1>3 DEF Enqueue
  <2>3. QED
    BY <2>1, <2>2 DEF Arrives, TurnedAway, Numbering, hand
<1>4. CASE EnqueueImmediate
  <2>1. offered' = offered + 1 /\ UNCHANGED <<keyed, landed, over>> /\ ~over
    BY <1>4 DEF EnqueueImmediate
  <2>2. CASE inFlight
    BY <1>4, <2>1, <2>2 DEF EnqueueImmediate, Arrives, Numbering, hand
  <2>3. CASE ~inFlight
    <3>1. Admit(queue, offered') \in Seq(Nat)
      BY <2>1, AdmitsSeq
    <3>2. StartPost(Admit(queue, offered'))
      BY <1>4, <2>3 DEF EnqueueImmediate
    <3>3. hand' = Admit(queue, offered')
      <4> DEFINE q == Admit(queue, offered')
      <4> HIDE DEF q
      <4>1. hand' = q
        BY <3>1, <3>2, StartingKeeps DEF q
      <4>2. QED
        BY <4>1 DEF q
    <3>4. batch \o Admit(queue, offered') = Admit(queue, offered')
      BY <2>3, <3>1, EmptyWire
    <3>5. QED
      BY <2>1, <3>3, <3>4 DEF Arrives, Numbering
  <2>4. QED
    BY <2>2, <2>3
<1>5. CASE FlushContinues \/ FlushTimerFires \/ CloseDrains
  <2>1. UNCHANGED <<keyed, landed, offered, over>>
    BY <1>5 DEF FlushContinues, FlushTimerFires, CloseDrains, runVars, worldVars
  <2>2. \/ UNCHANGED <<queue, batch>>
        \/ ~inFlight /\ StartPost(queue)
    BY <1>5 DEF FlushContinues, FlushTimerFires, CloseDrains
  <2>3. CASE UNCHANGED <<queue, batch>>
    BY <2>1, <2>3 DEF Kept, hand
  <2>4. CASE ~inFlight /\ StartPost(queue)
    <3>1. hand' = queue
      BY <1>1, <2>4, StartingKeeps
    <3>2. hand = queue
      BY <2>4, EmptyWire
    <3>3. QED
      BY <2>1, <3>1, <3>2 DEF Kept
  <2>5. QED
    BY <2>2, <2>3, <2>4
<1>6. CASE BrokerHandles
  <2>1. UNCHANGED <<queue, batch, keyed, offered, over>>
    BY <1>6 DEF BrokerHandles, runVars
  <2>2. \/ landed' = landed
        \/ landed' = landed \o Excluding(batch, ToSet(landed) \cap keyed)
    BY <1>6 DEF BrokerHandles
  <2>3. batch # <<>> /\ ~over
    BY <1>6 DEF BrokerHandles, IInv, OneBatch, NothingStarts
  <2>4. QED
    BY <2>1, <2>2, <2>3 DEF Kept, Lands, hand
<1>7. CASE PostAnswered
  <2>1. batch' = <<>> /\ UNCHANGED <<queue, keyed, landed, offered, over>>
    BY <1>7 DEF PostAnswered, worldVars
  <2>2. ToSet(batch) \subseteq ToSet(landed) /\ batch # <<>>
    BY <1>7 DEF PostAnswered, StoredHasLanded, IInv, OneBatch
  <2>3. hand' = queue
    BY <1>1, <2>1, ConcatEmptySeq DEF hand
  <2>4. QED
    BY <2>1, <2>2, <2>3 DEF Settles
<1>8. CASE PostFails
  <2>1. /\ queue' = batch \o queue /\ batch' = <<>>
        /\ UNCHANGED <<keyed, landed, offered, over>>
    BY <1>8 DEF PostFails, Requeue, worldVars
  <2>2. <<>> \o (batch \o queue) = batch \o queue
    BY <1>1, ConcatProperties, ConcatEmptySeq
  <2>3. QED
    BY <2>1, <2>2 DEF Kept, hand
<1>9. CASE PostRefused
  <2>1. batch' = <<>> /\ UNCHANGED <<keyed, landed, over>>
    BY <1>9 DEF PostRefused, worldVars
  <2>2. PICK q \in {queue, <<offered + 1>> \o queue} :
            HandleUnauthorized(q) /\ queue' = batch \o q
    BY <1>9 DEF PostRefused, Requeue
  <2>3. q \in Seq(Nat)
    BY <2>2, Unauthorized
  <2>4. hand' = batch \o q
    <3>1. <<>> \o (batch \o q) = batch \o q
      BY <1>1, <2>3, ConcatProperties, ConcatEmptySeq
    <3>2. QED
      BY <2>1, <2>2, <3>1 DEF hand
  <2>5. \/ offered' = offered /\ q = queue
        \/ offered' = offered + 1 /\ q = <<offered'>> \o queue /\ ~over
    BY <2>2 DEF HandleUnauthorized
  <2>6. QED
    BY <2>1, <2>4, <2>5 DEF Kept, Marks, Numbering, hand
<1>10. CASE OtherAnswered
  <2>1. UNCHANGED <<batch, keyed, landed, over>>
    BY <1>10 DEF OtherAnswered, runVars
  <2>2. \/ UNCHANGED <<queue, offered>>
        \/ \E q \in {queue, <<offered + 1>> \o queue} :
              HandleUnauthorized(q) /\ queue' = q
    BY <1>10 DEF OtherAnswered
  <2>3. \/ offered' = offered /\ queue' = queue
        \/ offered' = offered + 1 /\ queue' = <<offered'>> \o queue /\ ~over
    BY <2>2 DEF HandleUnauthorized
  <2>4. QED
    BY <2>1, <2>3 DEF Kept, Marks, Numbering, hand
<1>11. CASE ProbeAnswered
  <2>1. UNCHANGED <<batch, keyed, landed, over>>
    BY <1>11 DEF ProbeAnswered, runVars, worldVars
  <2>2. \/ UNCHANGED <<queue, offered>>
        \/ /\ offered' = offered + 1
           /\ queue' = queue \/ (queue' = Admit(queue, offered') /\ ~over)
    BY <1>11 DEF ProbeAnswered, Unblock
  <2>3. QED
    BY <2>1, <2>2 DEF Kept, TurnedAway, Arrives, Numbering, hand
<1>12. CASE CloseEnds
  <2>1. /\ batch = <<>> /\ UNCHANGED <<batch, keyed, landed, offered>>
        /\ ~over /\ over'
    BY <1>12 DEF CloseEnds, worldVars
  <2>2. queue' = queue \/ queue' = <<>>
    BY <1>12 DEF CloseEnds
  <2>3. <<>> \o <<>> = <<>>
    BY <1>1, ConcatEmptySeq
  <2>4. QED
    BY <2>1, <2>2, <2>3 DEF Finishes, hand
<1>13. QED
  BY <1>2, <1>3, <1>4, <1>5, <1>6, <1>7, <1>8, <1>9, <1>10, <1>11, <1>12 DEF Next

-----------------------------------------------------------------------------
(* Every event in hand and every event on record bears a number given out, *)
(* and no event is in hand twice.                                          *)
Named ==
    /\ landed \in Seq(Nat)
    /\ ToSet(hand) \subseteq 1 .. offered
    /\ ToSet(landed) \subseteq 1 .. offered
    /\ Distinct(hand)

LEMMA AdmitSplits ==
    ASSUME NEW q \in Seq(Nat), NEW e \in Nat
    PROVE  \E d \in Seq(Nat), r \in Seq(Nat) :
              q = d \o r /\ Admit(q, e) = r \o <<e>> /\ Append(r, e) = r \o <<e>>
<1> DEFINE n == Overflow(q)
           d == SubSeq(q, 1, n)
           r == SubSeq(q, n + 1, Len(q))
<1>1. Len(q) \in Nat /\ n \in 0 .. Len(q) /\ \A i \in 1 .. Len(q) : q[i] \in Nat
  BY Overflows, LenProperties, ElementOfSeq
<1>2. Admit(q, e) = Append(r, e)
  BY DEF Admit
<1> HIDE DEF n
<1>3. d \in Seq(Nat)
  <2>1. \A i \in 1 .. n : q[i] \in Nat
    BY <1>1
  <2>2. QED
    BY <1>1, <2>1, SubSeqProperties
<1>4. r \in Seq(Nat)
  <2>1. \A i \in n + 1 .. Len(q) : q[i] \in Nat
    BY <1>1
  <2>2. n + 1 \in Int /\ Len(q) \in Int
    BY <1>1
  <2>3. QED
    BY <2>1, <2>2, SubSeqProperties
<1>5. d \o r = q
  <2>1. 1 \in 1 .. Len(q) + 1 /\ n \in 1 - 1 .. Len(q) /\ Len(q) \in n .. Len(q)
    BY <1>1
  <2>2. d \o r = SubSeq(q, 1, Len(q))
    BY <2>1, ConcatAdjacentSubSeq
  <2>3. QED
    BY <2>2, SubSeqFull
<1>6. Append(r, e) = r \o <<e>>
  <2> HIDE DEF r
  <2>1. QED
    BY <1>4, AppendIsConcat
<1> HIDE DEF d, r
<1>7. QED
  BY <1>2, <1>3, <1>4, <1>5, <1>6

LEMMA HandIsSeq ==
    ASSUME IInv
    PROVE  /\ hand \in Seq(Nat) /\ queue \in Seq(Nat) /\ batch \in Seq(Nat)
           /\ offered \in Nat
           /\ ToSet(hand) = ToSet(batch) \cup ToSet(queue)
BY ConcatProperties, EventsOf DEF IInv, Types, hand

(* An event of its own number joins sequences of older ones.               *)
LEMMA NewIsDistinct ==
    ASSUME NEW s \in Seq(Nat), NEW e \in Nat, Distinct(s), e \notin ToSet(s)
    PROVE  /\ Distinct(s \o <<e>>) /\ Distinct(<<e>> \o s)
           /\ ToSet(s \o <<e>>) = ToSet(s) \cup {e}
           /\ ToSet(<<e>> \o s) = ToSet(s) \cup {e}
<1>1. <<e>> \in Seq(Nat) /\ Distinct(<<e>>)
  BY DEF Distinct
<1>2. ToSet(<<e>>) = {e}
  BY EventsOf
<1>3. Distinct(s \o <<e>>) /\ Distinct(<<e>> \o s)
  <2> DEFINE ee == <<e>>
  <2>1. /\ ee \in Seq(Nat) /\ Distinct(ee)
        /\ ToSet(s) \cap ToSet(ee) = {} /\ ToSet(ee) \cap ToSet(s) = {}
    BY <1>1, <1>2
  <2> HIDE DEF ee
  <2>2. Distinct(s \o ee) /\ Distinct(ee \o s)
    BY <2>1, DistinctConcat
  <2>3. QED
    BY <2>2 DEF ee
<1>4. /\ ToSet(s \o <<e>>) = ToSet(s) \cup ToSet(<<e>>)
      /\ ToSet(<<e>> \o s) = ToSet(<<e>>) \cup ToSet(s)
  BY <1>1, EventsOf
<1>5. QED
  BY <1>2, <1>3, <1>4

LEMMA NamedInit == Init => Named /\ StoredHasLanded
<1> SUFFICES ASSUME Init PROVE Named /\ StoredHasLanded
  OBVIOUS
<1>1. <<>> \in Seq(Nat) /\ Len(<<>>) = 0 /\ <<>> \o <<>> = <<>>
  BY EmptySeq, ConcatEmptySeq
<1>2. hand = <<>> /\ landed = <<>> /\ post.at = "idle"
  BY <1>1 DEF Init, hand, Idle
<1>3. ToSet(<<>>) = {}
  BY <1>1, EventsOf
<1>4. Distinct(<<>>)
  BY <1>1 DEF Distinct
<1>5. QED
  BY <1>1, <1>2, <1>3, <1>4 DEF Named, StoredHasLanded

LEMMA StoredStep ==
    ASSUME IInv, Named, StoredHasLanded, [Next]_vars
    PROVE  StoredHasLanded'
<1>1. CASE BrokerHandles
  <2>1. batch' = batch
    BY <1>1 DEF BrokerHandles
  <2>2. CASE post.token = valid
    <3> DEFINE known == ToSet(landed) \cap keyed
    <3>1. landed' = landed \o Excluding(batch, known)
      BY <1>1, <2>2 DEF BrokerHandles
    <3>2. Excluding(batch, known) \in Seq(Nat)
          /\ ToSet(Excluding(batch, known)) = ToSet(batch) \ known
      BY HandIsSeq, ExcludingRange
    <3>3. ToSet(landed') = ToSet(landed) \cup ToSet(Excluding(batch, known))
      BY <3>1, <3>2, EventsOf DEF Named
    <3>4. QED
      BY <2>1, <3>2, <3>3 DEF StoredHasLanded
  <2>3. CASE post.token # valid
    BY <1>1, <2>3 DEF BrokerHandles, StoredHasLanded, IInv, Types
  <2>4. QED
    BY <2>2, <2>3
<1>2. CASE \/ OtherSent \/ Reenrolled \/ TokenSaved \/ ProbeSent \/ ProbeFails
           \/ ShutdownBegins \/ CloseBegins \/ BackoffFires \/ UNCHANGED vars
           \/ Enqueue \/ OtherAnswered \/ ProbeAnswered \/ CloseEnds
  <2>1. UNCHANGED <<batch, post, landed>>
    BY <1>2 DEF OtherSent, Reenrolled, TokenSaved, ProbeSent, ProbeFails,
        ShutdownBegins, CloseBegins, BackoffFires, vars, uploadVars, worldVars,
        Enqueue, OtherAnswered, ProbeAnswered, CloseEnds
  <2>2. QED
    BY <2>1 DEF StoredHasLanded
<1>3. CASE EnqueueImmediate \/ FlushContinues \/ FlushTimerFires \/ CloseDrains
  <2>1. UNCHANGED landed
    BY <1>3 DEF EnqueueImmediate, FlushContinues, FlushTimerFires, CloseDrains,
                worldVars
  <2>2. UNCHANGED <<batch, post>> \/ post'.at = "sent"
    BY <1>3 DEF EnqueueImmediate, FlushContinues, FlushTimerFires, CloseDrains,
                StartPost
  <2>3. QED
    BY <2>1, <2>2 DEF StoredHasLanded
<1>4. CASE PostAnswered \/ PostFails \/ PostRefused
  <2>1. post' = Idle
    BY <1>4 DEF PostAnswered, PostFails, PostRefused
  <2>2. QED
    BY <2>1 DEF StoredHasLanded, Idle
<1>5. QED
  BY <1>1, <1>2, <1>3, <1>4 DEF Next

LEMMA NamedStep ==
    ASSUME IInv, Named, StoredHasLanded, [Next]_vars
    PROVE  Named'
<1>1. /\ hand \in Seq(Nat) /\ queue \in Seq(Nat) /\ batch \in Seq(Nat)
      /\ offered \in Nat /\ landed \in Seq(Nat)
      /\ ToSet(hand) = ToSet(batch) \cup ToSet(queue)
  BY HandIsSeq DEF Named
<1>2. /\ Distinct(hand) /\ Distinct(batch) /\ Distinct(queue)
      /\ ToSet(batch) \cap ToSet(queue) = {}
  BY <1>1, DistinctConcat DEF Named, hand
<1>3. offered + 1 \in Nat /\ offered + 1 \notin 1 .. offered
      /\ 1 .. offered \cup {offered + 1} \subseteq 1 .. offered + 1
      /\ 1 .. offered \subseteq 1 .. offered + 1
  BY <1>1
<1>4. CASE Kept
  BY <1>4 DEF Kept, Named
<1>5. CASE TurnedAway
  BY <1>3, <1>5 DEF TurnedAway, Numbering, Named
<1>6. CASE Marks
  <2> DEFINE e == offered'
  <2>1. e = offered + 1 /\ e \in Nat /\ e \notin ToSet(hand)
    BY <1>3, <1>6 DEF Marks, Numbering, Named
  <2> HIDE DEF e
  <2>2. /\ Distinct(<<e>> \o queue) /\ <<e>> \o queue \in Seq(Nat)
        /\ ToSet(<<e>> \o queue) = ToSet(queue) \cup {e}
    <3>1. <<e>> \in Seq(Nat)
      BY <2>1
    <3>2. QED
      BY <1>1, <1>2, <2>1, <3>1, NewIsDistinct, ConcatProperties
  <2>3. /\ Distinct(batch \o (<<e>> \o queue))
        /\ ToSet(batch \o (<<e>> \o queue)) = ToSet(hand) \cup {e}
    <3> DEFINE eq == <<e>> \o queue
    <3>1. /\ Distinct(eq) /\ eq \in Seq(Nat) /\ ToSet(eq) = ToSet(queue) \cup {e}
      BY <2>2
    <3> HIDE DEF eq
    <3>2. ToSet(batch) \cap ToSet(eq) = {}
      BY <1>1, <1>2, <2>1, <3>1
    <3>3. Distinct(batch \o eq)
      BY <1>1, <1>2, <3>1, <3>2, DistinctConcat
    <3>4. ToSet(batch \o eq) = ToSet(batch) \cup ToSet(eq)
      BY <1>1, <3>1, EventsOf
    <3>5. QED
      BY <1>1, <3>1, <3>3, <3>4 DEF eq
  <2>4. hand' = batch \o (<<e>> \o queue) /\ UNCHANGED landed
    BY <1>6 DEF Marks, Numbering, e
  <2>5. offered' = offered + 1
    BY <2>1 DEF e
  <2>6. QED
    BY <1>3, <2>1, <2>3, <2>4, <2>5 DEF Named
<1>7. CASE Arrives
  <2> DEFINE e == offered'
  <2>1. e = offered + 1 /\ e \in Nat /\ e \notin ToSet(hand)
    BY <1>3, <1>7 DEF Arrives, Numbering, Named
  <2> HIDE DEF e
  <2>2. PICK d \in Seq(Nat), r \in Seq(Nat) :
            /\ queue = d \o r /\ Admit(queue, e) = r \o <<e>>
            /\ Append(r, e) = r \o <<e>>
    <3>1. queue \in Seq(Nat) /\ e \in Nat
      BY <1>1, <2>1
    <3>2. QED
      BY <3>1, AdmitSplits, Zenon
  <2>3. Distinct(r) /\ ToSet(r) \subseteq ToSet(queue)
    <3>1. Distinct(d \o r) /\ ToSet(queue) = ToSet(d \o r)
      BY <1>2, <2>2
    <3>2. Distinct(r)
      BY <3>1, DistinctConcat
    <3>3. ToSet(d \o r) = ToSet(d) \cup ToSet(r)
      BY EventsOf
    <3>4. QED
      BY <3>1, <3>2, <3>3
  <2> DEFINE re == r \o <<e>>
  <2>4. re \in Seq(Nat) /\ Distinct(re) /\ ToSet(re) = ToSet(r) \cup {e}
    <3>1. <<e>> \in Seq(Nat)
      BY <2>1
    <3>2. e \notin ToSet(r)
      BY <1>1, <2>1, <2>3
    <3>3. QED
      BY <2>1, <2>3, <3>1, <3>2, NewIsDistinct, ConcatProperties
  <2>5. hand' = batch \o re /\ UNCHANGED landed
    BY <1>7, <2>2 DEF Arrives, Numbering, e
  <2> HIDE DEF re
  <2>6. ToSet(batch) \cap ToSet(re) = {}
    BY <1>1, <1>2, <2>1, <2>3, <2>4
  <2>7. Distinct(batch \o re) /\ ToSet(batch \o re) = ToSet(batch) \cup ToSet(re)
    BY <1>1, <1>2, <2>4, <2>6, DistinctConcat, EventsOf
  <2>8. offered' = offered + 1
    BY <2>1 DEF e
  <2>9. QED
    BY <1>1, <1>3, <2>1, <2>3, <2>4, <2>5, <2>7, <2>8 DEF Named
<1>8. CASE Lands
  <2> DEFINE x == Excluding(batch, ToSet(landed) \cap keyed)
  <2>1. x \in Seq(Nat) /\ ToSet(x) = ToSet(batch) \ (ToSet(landed) \cap keyed)
    BY <1>1, ExcludingRange
  <2>2. landed' = landed \o x /\ UNCHANGED <<hand, offered>>
    BY <1>8 DEF Lands
  <2> HIDE DEF x
  <2>3. landed' \in Seq(Nat) /\ ToSet(landed') = ToSet(landed) \cup ToSet(x)
    BY <1>1, <2>1, <2>2, ConcatProperties, EventsOf
  <2>4. QED
    BY <1>1, <2>1, <2>2, <2>3 DEF Named
<1>9. CASE Settles
  BY <1>1, <1>2, <1>9 DEF Settles, Named
<1>10. CASE Finishes
  <2>1. ToSet(<<>>) = {}
    BY <1>1, EventsOf
  <2>2. Distinct(<<>>)
    <3>1. Len(<<>>) = 0
      BY EmptySeq
    <3>2. QED
      BY <3>1 DEF Distinct
  <2>3. QED
    BY <1>10, <2>1, <2>2 DEF Finishes, Named
<1>11. QED
  BY <1>4, <1>5, <1>6, <1>7, <1>8, <1>9, <1>10, EffectOfStep

-----------------------------------------------------------------------------
(* How many numbers can be given out: one for each event captured, and for *)
(* each token probed at most one marker and one recovered event. A token is*)
(* probed once, and there is one marker for each time the credential is    *)
(* blocked.                                                                *)
Spare == IF probe THEN -1 ELSE IF blocked THEN 1 ELSE 0

Counted ==
    /\ lastProbed \in Nat /\ captured \in 0 .. MaxEvents
    /\ lastProbed <= saved /\ saved <= valid
    /\ probe => blocked
    /\ offered <= captured + 2 * lastProbed + Spare

LEMMA Spares ==
    /\ Spare \in Int /\ Spare <= 1
    /\ probe => Spare = -1
    /\ ~probe /\ blocked => Spare = 1
    /\ ~probe /\ ~blocked => Spare = 0
BY DEF Spare

LEMMA SparesNext ==
    /\ Spare' \in Int
    /\ probe' => Spare' = -1
    /\ ~probe' /\ blocked' => Spare' = 1
    /\ ~probe' /\ ~blocked' => Spare' = 0
BY DEF Spare

LEMMA CountedInit == Init => Counted
<1> SUFFICES ASSUME Init PROVE Counted
  OBVIOUS
<1>1. Spare = 0
  BY DEF Init, Spare
<1>2. /\ offered = 0 /\ captured = 0 /\ lastProbed = 0 /\ saved = 0 /\ valid = 0
      /\ ~probe /\ captured \in 0 .. MaxEvents
  BY UploaderConstantsOK DEF Init
<1>3. offered <= captured + 2 * lastProbed + Spare
  BY <1>1, <1>2
<1>4. QED
  BY <1>2, <1>3 DEF Counted

LEMMA CountedStep ==
    ASSUME IInv, Counted, [Next]_vars
    PROVE  Counted'
<1>1. /\ offered \in Nat /\ saved \in 0 .. MaxToken /\ valid \in 0 .. MaxToken
      /\ blocked \in BOOLEAN /\ MaxToken \in Nat /\ MaxEvents \in Nat
  BY UploaderConstantsOK DEF IInv, Types, Tokens
<1>2. CASE \/ BrokerHandles \/ PostAnswered \/ PostFails
           \/ FlushContinues \/ FlushTimerFires \/ CloseDrains \/ CloseEnds
           \/ OtherSent \/ ShutdownBegins \/ CloseBegins \/ BackoffFires
           \/ UNCHANGED vars
  <2>1. UNCHANGED <<offered, captured, lastProbed, probe, blocked, saved, valid>>
    BY <1>2 DEF BrokerHandles, PostAnswered, PostFails, FlushContinues,
        FlushTimerFires, CloseDrains, CloseEnds, OtherSent, ShutdownBegins,
        CloseBegins, BackoffFires, vars, uploadVars, authVars, worldVars
  <2>2. QED
    BY <2>1 DEF Counted, Spare
<1>3. CASE Reenrolled \/ TokenSaved
  <2>1. /\ UNCHANGED <<offered, captured, lastProbed, probe, blocked>>
        /\ saved <= saved' /\ saved' <= valid'
    BY <1>1, <1>3 DEF Reenrolled, TokenSaved, uploadVars, authVars, Counted
  <2>2. saved' \in Int
    BY <1>1, <1>3 DEF Reenrolled, TokenSaved
  <2>3. QED
    BY <1>1, <2>1, <2>2 DEF Counted, Spare
<1>4. CASE Enqueue \/ EnqueueImmediate
  <2>1. /\ UNCHANGED <<lastProbed, probe, blocked, saved, valid>>
        /\ offered' = offered + 1 /\ captured' = captured + 1 /\ captured < MaxEvents
    BY <1>4 DEF Enqueue, EnqueueImmediate, authVars
  <2>2. Spare' = Spare /\ Spare \in Int
    BY <2>1 DEF Spare
  <2>3. captured' \in 0 .. MaxEvents /\ offered' <= captured' + 2 * lastProbed + Spare
    BY <1>1, <2>1, <2>2 DEF Counted
  <2>4. QED
    BY <2>1, <2>2, <2>3 DEF Counted
<1>5. CASE PostRefused \/ OtherAnswered
  <2>1. UNCHANGED <<captured, lastProbed, probe, saved, valid>>
    BY <1>5 DEF PostRefused, OtherAnswered, worldVars
  <2>2. \/ UNCHANGED <<offered, blocked>>
        \/ \E q \in {queue, <<offered + 1>> \o queue} : HandleUnauthorized(q)
    BY <1>5 DEF PostRefused, OtherAnswered
  <2>3. \/ UNCHANGED <<offered, blocked>>
        \/ blocked' = TRUE /\ offered' = offered
        \/ ~blocked /\ blocked' = TRUE /\ offered' = offered + 1
    BY <2>2 DEF HandleUnauthorized
  <2>4. QED
    BY <1>1, <2>1, <2>3, Spares, SparesNext DEF Counted
<1>6. CASE ProbeSent
  <2>1. /\ UNCHANGED <<offered, captured, saved, valid>>
        /\ ~probe /\ probe' /\ blocked /\ blocked'
        /\ saved # lastProbed /\ lastProbed' = saved
    BY <1>6 DEF ProbeSent, uploadVars, worldVars
  <2>2. lastProbed + 1 <= lastProbed' /\ lastProbed' \in Nat
    BY <1>1, <2>1 DEF Counted
  <2>3. offered <= captured + 2 * lastProbed + 1
    BY <2>1, Spares DEF Counted
  <2>4. offered <= captured + 2 * lastProbed' + -1
    <3>1. captured \in Nat /\ lastProbed \in Nat
      BY <1>1 DEF Counted
    <3>2. \A o, c, p, pp \in Int :
              o <= c + 2 * p + 1 /\ p + 1 <= pp => o <= c + 2 * pp + -1
      OBVIOUS
    <3>3. offered \in Int /\ captured \in Int /\ lastProbed \in Int
          /\ lastProbed' \in Int
      BY <1>1, <2>2, <3>1
    <3>4. QED
      BY <2>2, <2>3, <3>2, <3>3, Zenon
  <2>5. Spare' = -1
    BY <2>1, SparesNext
  <2>6. offered' <= captured' + 2 * lastProbed' + Spare'
    BY <2>1, <2>4, <2>5
  <2>7. lastProbed' <= saved' /\ saved' <= valid'
    BY <1>1, <2>1 DEF Counted
  <2>8. QED
    BY <2>1, <2>2, <2>6, <2>7 DEF Counted
<1>7. CASE ProbeAnswered
  <2>1. /\ UNCHANGED <<captured, lastProbed, saved, valid>>
        /\ probe /\ ~probe' /\ blocked
        /\ \/ offered' = offered /\ blocked'
           \/ offered' = offered + 1 /\ ~blocked'
    BY <1>7 DEF ProbeAnswered, Unblock, worldVars, Counted
  <2>2. Spare = -1 /\ (blocked' => Spare' = 1) /\ (~blocked' => Spare' = 0)
    BY <2>1, Spares, SparesNext
  <2>3. offered' <= captured' + 2 * lastProbed' + Spare'
    BY <1>1, <2>1, <2>2 DEF Counted
  <2>4. QED
    BY <2>1, <2>3 DEF Counted
<1>8. CASE ProbeFails
  <2>1. /\ UNCHANGED <<offered, captured, lastProbed, blocked, saved, valid>>
        /\ probe /\ ~probe'
    BY <1>8 DEF ProbeFails, uploadVars, worldVars
  <2>2. QED
    BY <1>1, <2>1, Spares, SparesNext DEF Counted
<1>9. QED
  BY <1>2, <1>3, <1>4, <1>5, <1>6, <1>7, <1>8 DEF Next

LEMMA NumbersSuffice ==
    ASSUME IInv, Counted
    PROVE  offered \in 0 .. MaxEvents + 2 * MaxToken + 1
<1>1. /\ offered \in Nat /\ saved \in 0 .. MaxToken
      /\ MaxToken \in Nat /\ MaxEvents \in Nat
  BY UploaderConstantsOK DEF IInv, Types, Tokens
<1>2. Spare <= 1 /\ Spare \in Int
  BY Spares
<1>3. QED
  BY <1>1, <1>2 DEF Counted

-----------------------------------------------------------------------------
TraceInv == IInv /\ Named /\ StoredHasLanded /\ Counted

LEMMA TraceInvariance == Spec => []TraceInv
<1>1. Init => TraceInv
  BY IInvInit, NamedInit, CountedInit DEF TraceInv
<1>2. TraceInv /\ [Next]_vars => TraceInv'
  BY IInvStep, NamedStep, StoredStep, CountedStep DEF TraceInv
<1>3. QED
  BY <1>1, <1>2, PTL DEF Spec

-----------------------------------------------------------------------------
(* The refinement of TraceOutbox.                                          *)

LEMMA LostIs ==
    ASSUME TraceInv, Numbering
    PROVE  lost' = (1 .. offered \cup {offered'}) \ (ToSet(landed) \cup ToSet(hand'))
<1>1. 1 .. offered' = 1 .. offered \cup {offered'} /\ landed' = landed
  <2>1. offered \in Nat /\ offered' = offered + 1 /\ landed' = landed
    BY HandIsSeq DEF TraceInv, Numbering
  <2>2. QED
    BY <2>1
<1>2. QED
  BY <1>1 DEF lost

(* The operators of the outbox are the uploader's.                         *)
LEMMA OutboxOperators ==
    /\ \A s : Outbox!ToSet(s) = ToSet(s)
    /\ \A s, g : Outbox!Excluding(s, g) = Excluding(s, g)
    /\ \A s, k, e : Outbox!InsertAt(s, k, e) =
           SubSeq(s, 1, k - 1) \o <<e>> \o SubSeq(s, k, Len(s))
<1>1. \A s : Outbox!ToSet(s) = ToSet(s)
  BY DEF Outbox!ToSet, ToSet
<1>2. \A s, g : Outbox!Excluding(s, g) = Excluding(s, g)
  BY DEF Outbox!Excluding, Excluding
<1>3. \A s, k, e : Outbox!InsertAt(s, k, e) =
           SubSeq(s, 1, k - 1) \o <<e>> \o SubSeq(s, k, Len(s))
  BY DEF Outbox!InsertAt
<1>4. QED
  BY <1>1, <1>2, <1>3

LEMMA FreshNumber ==
    ASSUME TraceInv, Numbering
    PROVE  /\ offered' \in 1 .. MaxEvents + 2 * MaxToken + 2
           /\ offered' \notin ToSet(landed) /\ offered' \notin ToSet(hand)
           /\ offered' \notin 1 .. offered
           /\ offered' \notin Outbox!Known
<1>1. /\ offered \in 0 .. MaxEvents + 2 * MaxToken + 1
      /\ MaxEvents \in Nat /\ MaxToken \in Nat /\ offered' = offered + 1
  BY NumbersSuffice, UploaderConstantsOK DEF TraceInv, Numbering
<1>2. /\ ToSet(landed) \subseteq 1 .. offered /\ ToSet(hand) \subseteq 1 .. offered
  BY DEF TraceInv, Named
<1>3. /\ offered' \in 1 .. MaxEvents + 2 * MaxToken + 2
      /\ offered' \notin 1 .. offered
  BY <1>1
<1>4. lost \subseteq 1 .. offered
  BY DEF lost
<1>5. Outbox!Known = ToSet(hand) \cup ToSet(landed) \cup lost
  BY OutboxOperators DEF Outbox!Known
<1>6. QED
  BY <1>2, <1>3, <1>4, <1>5

LEMMA KeptMaps == ASSUME Kept PROVE UNCHANGED Outbox!vars
BY DEF Kept, Outbox!vars, lost

LEMMA TurnedAwayMaps ==
    ASSUME TraceInv, TurnedAway
    PROVE  Outbox!Accept(offered')
<1>1. Numbering /\ UNCHANGED <<hand, keyed, landed, over>>
  BY DEF TurnedAway, Numbering
<1>2. lost' = lost \cup {offered'}
  <2>1. lost' = (1 .. offered \cup {offered'}) \ (ToSet(landed) \cup ToSet(hand))
    BY <1>1, LostIs
  <2>2. QED
    BY <1>1, <2>1, FreshNumber DEF lost
<1>3. QED
  BY <1>1, <1>2, FreshNumber DEF Outbox!Accept

LEMMA ArrivesMaps ==
    ASSUME TraceInv, Arrives
    PROVE  Outbox!Accept(offered')
<1> DEFINE e == offered'
           L == ToSet(landed)
<1>1. Numbering /\ UNCHANGED landed /\ hand' = batch \o Admit(queue, e)
  BY DEF Arrives, Numbering
<1>2. /\ queue \in Seq(Nat) /\ batch \in Seq(Nat) /\ e \in Nat
      /\ Distinct(hand)
      /\ e \notin L /\ e \notin ToSet(hand) /\ e \notin 1 .. offered
      /\ ToSet(hand) \subseteq 1 .. offered
  <2>1. e = offered + 1 /\ offered \in Nat
    BY <1>1, HandIsSeq DEF Numbering, TraceInv
  <2>2. QED
    BY <1>1, <2>1, HandIsSeq, FreshNumber DEF TraceInv, Named
<1> HIDE DEF e
<1>3. PICK d \in Seq(Nat), r \in Seq(Nat) :
          /\ queue = d \o r /\ Admit(queue, e) = r \o <<e>>
          /\ Append(r, e) = r \o <<e>>
  BY <1>2, AdmitSplits, Zenon
<1> DEFINE br == batch \o r
           gone == ToSet(d)
<1>4. /\ hand = batch \o (d \o r)
      /\ d \o r \in Seq(Nat) /\ br \in Seq(Nat) /\ <<e>> \in Seq(Nat)
  BY <1>2, <1>3, ConcatProperties DEF hand
<1>5. Outbox!Without(gone) = br
  <2>1. Distinct(batch \o (d \o r))
    BY <1>2, <1>4
  <2>2. Excluding(batch \o (d \o r), ToSet(d)) = batch \o r
    BY <1>2, <2>1, LettingGo
  <2>3. Outbox!Without(gone) = Excluding(hand, gone)
    BY OutboxOperators DEF Outbox!Without
  <2>4. QED
    BY <1>4, <2>2, <2>3
<1>6. hand' = Append(br, e)
  <2> HIDE DEF br
  <2>1. batch \o (r \o <<e>>) = br \o <<e>>
    BY <1>2, <1>4, ConcatAssociative DEF br
  <2>2. Append(br, e) = br \o <<e>>
    BY <1>2, <1>4, AppendIsConcat
  <2>3. QED
    BY <1>1, <1>3, <2>1, <2>2
<1>7. /\ ToSet(hand) = ToSet(br) \cup gone
      /\ ToSet(hand') = ToSet(br) \cup {e}
      /\ ToSet(br) \cap gone = {}
  <2>1. /\ ToSet(batch \o (d \o r)) = ToSet(batch) \cup ToSet(d \o r)
        /\ ToSet(d \o r) = ToSet(d) \cup ToSet(r)
        /\ ToSet(br) = ToSet(batch) \cup ToSet(r)
    BY <1>2, <1>4, EventsOf
  <2>2. Distinct(d \o r) /\ ToSet(batch) \cap ToSet(d \o r) = {}
    BY <1>2, <1>4, DistinctConcat
  <2>3. ToSet(d) \cap ToSet(r) = {}
    BY <2>2, DistinctConcat
  <2>4. ToSet(Append(br, e)) = ToSet(br) \cup {e}
    <3> HIDE DEF br
    <3>1. QED
      BY <1>2, <1>4, EventsOf
  <2>5. QED
    BY <1>4, <1>6, <2>1, <2>2, <2>3, <2>4
<1>8. lost' = lost \cup (gone \ L)
  <2>1. lost' = (1 .. offered \cup {e}) \ (L \cup ToSet(hand'))
    BY <1>1, LostIs DEF e
  <2>2. lost = (1 .. offered) \ (L \cup ToSet(hand))
    BY DEF lost
  <2> HIDE DEF L, br, gone
  <2>3. QED
    BY <1>2, <1>7, <2>1, <2>2
<1>9. gone \in SUBSET Outbox!ToSet(hand) /\ L = Outbox!ToSet(landed)
  <2> HIDE DEF gone
  <2>1. QED
    BY <1>7, OutboxOperators
<1>10. e \notin Outbox!Known
  BY <1>1, FreshNumber DEF e
<1>11. ~over /\ UNCHANGED over /\ keyed' \in {keyed, keyed \cup {e}}
  BY DEF Arrives, Numbering, e
<1> HIDE DEF gone, L, br
<1>12. QED
  BY <1>1, <1>5, <1>6, <1>8, <1>9, <1>10, <1>11, Zenon DEF Outbox!Accept, e

LEMMA MarksMaps ==
    ASSUME TraceInv, Marks
    PROVE  Outbox!Mark(offered')
<1> DEFINE e == offered'
           k == Len(batch) + 1
<1>1. /\ Numbering /\ UNCHANGED <<landed, keyed, over>> /\ ~over
      /\ hand' = batch \o (<<e>> \o queue)
  BY DEF Marks, Numbering
<1>2. /\ queue \in Seq(Nat) /\ batch \in Seq(Nat) /\ e \in Nat
      /\ e \notin ToSet(hand) /\ e \notin 1 .. offered
      /\ ToSet(hand) = ToSet(batch) \cup ToSet(queue)
      /\ hand = batch \o queue
  <2>1. e = offered + 1 /\ offered \in Nat
    BY <1>1, HandIsSeq DEF Numbering, TraceInv
  <2>2. QED
    BY <1>1, <2>1, HandIsSeq, FreshNumber DEF TraceInv, hand
<1>3. e \notin Outbox!Known
  BY <1>1, FreshNumber
<1> HIDE DEF e
<1>4. <<e>> \in Seq(Nat) /\ <<e>> \o queue \in Seq(Nat)
  <2>1. <<e>> \in Seq(Nat)
    BY <1>2
  <2>2. QED
    BY <1>2, <2>1, ConcatProperties
<1>5. /\ SubSeq(hand, 1, k - 1) = batch /\ SubSeq(hand, k, Len(hand)) = queue
      /\ k \in 1 .. Len(hand) + 1
  <2>1. /\ Len(batch) \in Nat /\ Len(queue) \in Nat
        /\ Len(batch \o queue) = Len(batch) + Len(queue)
    BY <1>2, ConcatProperties, LenProperties
  <2>2. SubSeq(batch \o queue, 1, Len(batch)) = batch
        /\ SubSeq(batch \o queue, Len(batch) + 1, Len(batch \o queue)) = queue
    BY <1>2, Splits
  <2>3. k - 1 = Len(batch) /\ k \in 1 .. Len(batch) + Len(queue) + 1
    BY <2>1
  <2>4. QED
    BY <1>2, <2>1, <2>2, <2>3
<1>6. hand' = Outbox!InsertAt(hand, k, e)
  <2>1. Outbox!InsertAt(hand, k, e) = batch \o <<e>> \o queue
    BY <1>5, OutboxOperators
  <2>2. (batch \o <<e>>) \o queue = batch \o (<<e>> \o queue)
    BY <1>2, <1>4, ConcatAssociative
  <2>3. QED
    BY <1>1, <2>1, <2>2
<1>7. UNCHANGED lost
  <2>1. lost' = (1 .. offered \cup {e}) \ (ToSet(landed) \cup ToSet(hand'))
    BY <1>1, LostIs DEF e
  <2>2. ToSet(hand') = ToSet(hand) \cup {e}
    <3> DEFINE eq == <<e>> \o queue
    <3>1. eq \in Seq(Nat) /\ ToSet(eq) = {e} \cup ToSet(queue)
      <4>1. ToSet(<<e>> \o queue) = ToSet(<<e>>) \cup ToSet(queue)
        BY <1>2, <1>4, EventsOf
      <4>2. ToSet(<<e>>) = {e}
        BY <1>2, EventsOf
      <4>3. QED
        BY <1>4, <4>1, <4>2
    <3> HIDE DEF eq
    <3>2. ToSet(batch \o eq) = ToSet(batch) \cup ToSet(eq)
      BY <1>2, <3>1, EventsOf
    <3>3. QED
      BY <1>1, <1>2, <3>1, <3>2 DEF eq
  <2>3. lost = (1 .. offered) \ (ToSet(landed) \cup ToSet(hand))
    BY DEF lost
  <2>4. QED
    BY <1>2, <2>1, <2>2, <2>3
<1> HIDE DEF k
<1>8. QED
  BY <1>1, <1>3, <1>5, <1>6, <1>7, Zenon DEF Outbox!Mark, e

(* What is on the wire is a prefix of what is in hand.                     *)
LEMMA OnTheWire ==
    ASSUME TraceInv, batch # <<>>
    PROVE  \E n \in 1 .. Len(hand) :
              SubSeq(hand, 1, n) = batch /\ SubSeq(hand, n + 1, Len(hand)) = queue
<1>1. queue \in Seq(Nat) /\ batch \in Seq(Nat) /\ hand = batch \o queue
  BY HandIsSeq DEF TraceInv, hand
<1>2. SubSeq(hand, 1, Len(batch)) = batch
      /\ SubSeq(hand, Len(batch) + 1, Len(hand)) = queue
  BY <1>1, Splits
<1>3. Len(batch) \in 1 .. Len(hand)
  <2>1. /\ Len(batch) \in Nat /\ Len(queue) \in Nat /\ Len(batch) # 0
        /\ Len(hand) = Len(batch) + Len(queue)
    BY <1>1, ConcatProperties, LenProperties, EmptySeq
  <2>2. QED
    BY <2>1
<1>4. QED
  BY <1>2, <1>3

LEMMA LandsMaps ==
    ASSUME TraceInv, Lands
    PROVE  \E n \in 1 .. Len(hand) : Outbox!Land(n)
<1>1. PICK n \in 1 .. Len(hand) : SubSeq(hand, 1, n) = batch
  BY OnTheWire DEF Lands
<1>2. landed' = landed \o
          Outbox!Excluding(SubSeq(hand, 1, n), Outbox!ToSet(landed) \cap keyed)
  BY <1>1, OutboxOperators DEF Lands
<1>3. lost' = lost
  <2>1. ToSet(landed') \cup ToSet(hand) = ToSet(landed) \cup ToSet(hand)
    <3> DEFINE x == Excluding(batch, ToSet(landed) \cap keyed)
    <3>1. /\ x \in Seq(Nat) /\ ToSet(x) \subseteq ToSet(batch)
          /\ ToSet(hand) = ToSet(batch) \cup ToSet(queue)
      BY HandIsSeq, ExcludingRange DEF TraceInv
    <3>2. landed \in Seq(Nat) /\ landed' = landed \o x
      BY DEF TraceInv, Named, Lands
    <3> HIDE DEF x
    <3>3. ToSet(landed') = ToSet(landed) \cup ToSet(x)
      BY <3>1, <3>2, EventsOf
    <3>4. QED
      BY <3>1, <3>3
  <2>2. hand' = hand /\ offered' = offered
    BY DEF Lands
  <2>3. QED
    BY <2>1, <2>2 DEF lost
<1>4. Outbox!Land(n)
  BY <1>2, <1>3 DEF Lands, Outbox!Land
<1>5. QED
  BY <1>4

LEMMA SettlesMaps ==
    ASSUME TraceInv, Settles
    PROVE  \E n \in 1 .. Len(hand) : Outbox!Acknowledge(n)
<1>1. PICK n \in 1 .. Len(hand) :
          SubSeq(hand, 1, n) = batch /\ SubSeq(hand, n + 1, Len(hand)) = queue
  BY OnTheWire DEF Settles
<1>2. Outbox!ToSet(SubSeq(hand, 1, n)) \subseteq Outbox!ToSet(landed)
  BY <1>1, OutboxOperators DEF Settles
<1>3. hand' = SubSeq(hand, n + 1, Len(hand))
  BY <1>1 DEF Settles
<1>4. lost' = lost
  <2>1. ToSet(landed) \cup ToSet(hand) = ToSet(landed) \cup ToSet(queue)
    BY HandIsSeq DEF Settles, TraceInv
  <2>2. hand' = queue /\ landed' = landed /\ offered' = offered
    BY DEF Settles
  <2>3. QED
    BY <2>1, <2>2 DEF lost
<1>5. Outbox!Acknowledge(n)
  BY <1>2, <1>3, <1>4 DEF Settles, Outbox!Acknowledge
<1>6. QED
  BY <1>5

LEMMA FinishesMaps ==
    ASSUME TraceInv, Finishes
    PROVE  Outbox!Finish
<1>1. ~over /\ over' = TRUE /\ UNCHANGED <<keyed, landed, offered>>
  BY DEF Finishes, over
<1>2. CASE hand' = hand
  BY <1>1, <1>2 DEF Outbox!Finish, lost
<1>3. CASE hand' = <<>>
  <2>1. lost' = lost \cup (ToSet(hand) \ ToSet(landed))
    <3>1. ToSet(<<>>) = {}
      <4>1. <<>> \in Seq(Nat)
        OBVIOUS
      <4>2. QED
        BY <4>1, EventsOf
    <3>2. lost' = (1 .. offered) \ (ToSet(landed) \cup {})
      BY <1>1, <1>3, <3>1 DEF lost
    <3>3. ToSet(hand) \subseteq 1 .. offered
      BY DEF TraceInv, Named
    <3>4. QED
      BY <3>2, <3>3 DEF lost
  <2>2. QED
    BY <1>1, <1>3, <2>1, OutboxOperators DEF Outbox!Finish
<1>4. QED
  BY <1>2, <1>3 DEF Finishes

(* The uploader is the lossy outbox of TraceOutbox, for any caps, batch    *)
(* sizes, numbers of events and re-enrolments: whatever is retried, evicted*)
(* or refused, the broker's record grows by the oldest events in hand, in  *)
(* order, an event that names its source record lands once, one that was   *)
(* acknowledged is not stored again, one that was given up never lands,    *)
(* and nothing lands once close() has returned.                            *)
THEOREM UploaderKeepsPromise == Spec => ImplementsOutbox
<1>1. Init => Outbox!Init
  <2> SUFFICES ASSUME Init PROVE Outbox!Init
    OBVIOUS
  <2>1. <<>> \in Seq(Nat) /\ <<>> \o <<>> = <<>>
    <3>1. <<>> \in Seq(Nat)
      OBVIOUS
    <3>2. QED
      BY <3>1, ConcatEmptySeq
  <2>2. hand = <<>> /\ keyed = {} /\ landed = <<>> /\ over = FALSE /\ offered = 0
    BY <2>1 DEF Init, hand, over
  <2>3. lost = {}
    BY <2>2 DEF lost
  <2>4. QED
    BY <2>2, <2>3 DEF Outbox!Init
<1>2. TraceInv /\ [Next]_vars => [Outbox!Next]_Outbox!vars
  <2> SUFFICES ASSUME TraceInv, [Next]_vars PROVE Outbox!Next \/ UNCHANGED Outbox!vars
    OBVIOUS
  <2>1. \/ Kept \/ Arrives \/ TurnedAway \/ Marks
        \/ Lands \/ Settles \/ Finishes
    BY EffectOfStep DEF TraceInv
  <2>2. CASE Kept
    BY <2>2, KeptMaps
  <2>3. CASE Arrives \/ TurnedAway \/ Marks
    <3>1. Outbox!Accept(offered') \/ Outbox!Mark(offered')
      BY <2>3, ArrivesMaps, TurnedAwayMaps, MarksMaps
    <3>2. offered' \in 1 .. MaxEvents + 2 * MaxToken + 2
      BY <2>3, FreshNumber DEF Arrives, TurnedAway, Marks
    <3>3. QED
      BY <3>1, <3>2 DEF Outbox!Next
  <2>4. CASE Lands
    BY <2>4, LandsMaps DEF Outbox!Next
  <2>5. CASE Settles
    BY <2>5, SettlesMaps DEF Outbox!Next
  <2>6. CASE Finishes
    BY <2>6, FinishesMaps DEF Outbox!Next
  <2>7. QED
    BY <2>1, <2>2, <2>3, <2>4, <2>5, <2>6
<1>3. QED
  BY <1>1, <1>2, TraceInvariance, PTL DEF Spec, ImplementsOutbox, Outbox!Spec

-----------------------------------------------------------------------------
(* The session's own event. It goes on the wire with the next batch, or    *)
(* that batch is a full one; this needs a queue that holds a batch, for    *)
(* else the event may be evicted while the session waits for an earlier    *)
(* upload (the defaults of activity-uploader.ts are 1000 and 50).          *)

Ahead(x, q) == x \in ToSet(q) \/ Len(q) >= MaxBatch

Served ==
    /\ session = "posting" =>
          batch # <<>> /\ (awaited \in ToSet(batch) \/ Len(batch) = MaxBatch)
    /\ session = "settling" => Ahead(awaited, queue)

LEMMA TakenHas ==
    ASSUME NEW q \in Seq(Nat), NEW x, Ahead(x, q)
    PROVE  x \in ToSet(Taken(q)) \/ Len(Taken(q)) = MaxBatch
<1>1. Len(q) \in Nat /\ MaxBatch \in Nat
  BY LenProperties, UploaderConstantsOK
<1>2. CASE Len(q) < MaxBatch
  <2>1. Taken(q) = q
    BY <1>2, SubSeqFull DEF Taken, BatchSize
  <2>2. QED
    BY <1>1, <1>2, <2>1 DEF Ahead
<1>3. CASE ~(Len(q) < MaxBatch)
  <2>1. Taken(q) = SubSeq(q, 1, MaxBatch)
    BY <1>3 DEF Taken, BatchSize
  <2>2. \A i \in 1 .. MaxBatch : q[i] \in Nat
    BY <1>1, <1>3, ElementOfSeq
  <2>3. Len(SubSeq(q, 1, MaxBatch)) = MaxBatch
    BY <1>1, <2>2, SubSeqProperties, UploaderConstantsOK
  <2>4. QED
    BY <2>1, <2>3
<1>4. QED
  BY <1>2, <1>3

LEMMA AdmitHas ==
    ASSUME MaxBatch <= MaxQueue,
           NEW q \in Seq(Nat), NEW e \in Nat, NEW x, Ahead(x, q) \/ x = e
    PROVE  Ahead(x, Admit(q, e))
<1>1. /\ Len(q) \in Nat /\ MaxBatch \in Nat /\ MaxQueue \in Nat
      /\ Admit(q, e) \in Seq(Nat)
      /\ Len(Admit(q, e)) = Len(q) + 1 - Overflow(q)
  BY LenProperties, Admits, UploaderConstantsOK
<1>2. CASE Len(q) + 1 > MaxQueue
  <2>1. Overflow(q) = Len(q) + 1 - MaxQueue
    BY <1>2 DEF Overflow
  <2>2. Len(Admit(q, e)) = MaxQueue
    BY <1>1, <2>1
  <2>3. QED
    BY <1>1, <2>2 DEF Ahead
<1>3. CASE ~(Len(q) + 1 > MaxQueue)
  <2>1. Overflow(q) = 0
    BY <1>3 DEF Overflow
  <2>2. Admit(q, e) = Append(q, e)
    <3>1. SubSeq(q, 0 + 1, Len(q)) = q
      BY SubSeqFull
    <3>2. QED
      BY <2>1, <3>1 DEF Admit
  <2>3. ToSet(Append(q, e)) = ToSet(q) \cup {e}
    BY EventsOf
  <2>4. Len(Append(q, e)) = Len(q) + 1
    BY AppendProperties
  <2>5. QED
    BY <1>1, <2>2, <2>3, <2>4 DEF Ahead
<1>4. QED
  BY <1>2, <1>3

LEMMA LongerHas ==
    ASSUME NEW s \in Seq(Nat), NEW t \in Seq(Nat), NEW x, Ahead(x, t)
    PROVE  Ahead(x, s \o t)
<1>1. Len(s) \in Nat /\ Len(t) \in Nat /\ MaxBatch \in Nat
      /\ Len(s \o t) = Len(s) + Len(t)
  BY LenProperties, ConcatProperties, UploaderConstantsOK
<1>2. ToSet(s \o t) = ToSet(s) \cup ToSet(t)
  BY EventsOf
<1>3. QED
  BY <1>1, <1>2 DEF Ahead

LEMMA ServedInit == Init => Served
BY DEF Init, Served

LEMMA ServedStep ==
    ASSUME MaxBatch <= MaxQueue, IInv, Served, [Next]_vars
    PROVE  Served'
<1>1. /\ queue \in Seq(Nat) /\ batch \in Seq(Nat) /\ offered \in Nat
  BY DEF IInv, Types
<1>2. CASE \/ OtherSent \/ Reenrolled \/ TokenSaved \/ ProbeSent \/ ProbeFails
           \/ ShutdownBegins \/ CloseBegins \/ BackoffFires \/ BrokerHandles
           \/ UNCHANGED vars
  <2>1. UNCHANGED <<queue, batch, session, awaited>>
    BY <1>2 DEF OtherSent, Reenrolled, TokenSaved, ProbeSent, ProbeFails,
        ShutdownBegins, CloseBegins, BackoffFires, BrokerHandles, vars,
        uploadVars, runVars
  <2>2. QED
    BY <2>1 DEF Served, Ahead
<1>3. CASE Enqueue \/ ProbeAnswered
  <2>1. UNCHANGED <<batch, session, awaited>>
    BY <1>3 DEF Enqueue, ProbeAnswered, runVars
  <2>2. \/ queue' = queue
        \/ offered' = offered + 1 /\ queue' = Admit(queue, offered')
    BY <1>3 DEF Enqueue, ProbeAnswered, Unblock
  <2>3. Ahead(awaited, queue) => Ahead(awaited, queue')
    BY <1>1, <2>2, AdmitHas
  <2>4. QED
    BY <2>1, <2>3 DEF Served, Ahead
<1>4. CASE EnqueueImmediate
  <2> DEFINE q == Admit(queue, offered')
  <2>1. offered' = offered + 1 /\ awaited' = offered'
    BY <1>4 DEF EnqueueImmediate
  <2>2. q \in Seq(Nat) /\ Ahead(awaited', q) /\ q # <<>>
    <3>1. offered' \in Nat
      BY <1>1, <2>1
    <3>2. Len(q) \in 1 .. MaxQueue /\ q \in Seq(Nat)
      BY <1>1, <3>1, Admits
    <3>3. Ahead(awaited', q)
      BY <1>1, <2>1, <3>1, AdmitHas
    <3> HIDE DEF q
    <3>4. QED
      BY <3>2, <3>3, EmptySeq
  <2>3. CASE inFlight
    <3>1. session' = "settling" /\ queue' = q
      BY <1>4, <2>3 DEF EnqueueImmediate
    <3>2. QED
      BY <2>2, <3>1 DEF Served, Ahead
  <2>4. CASE ~inFlight
    <3>1. session' = "posting" /\ StartPost(q)
      BY <1>4, <2>4 DEF EnqueueImmediate
    <3> HIDE DEF q
    <3>2. batch' = Taken(q) /\ Taken(q) # <<>>
      BY <2>2, <3>1, Batches DEF StartPost
    <3>3. awaited' \in ToSet(Taken(q)) \/ Len(Taken(q)) = MaxBatch
      BY <2>2, TakenHas
    <3>4. QED
      BY <3>1, <3>2, <3>3 DEF Served
  <2>5. QED
    BY <2>3, <2>4
<1>5. CASE FlushContinues
  <2>1. session = "settling" /\ Ahead(awaited, queue)
    BY <1>5 DEF FlushContinues, Served
  <2>2. CASE queue = <<>>
    BY <1>5, <2>2 DEF FlushContinues, Served
  <2>3. CASE queue # <<>>
    <3>1. session' = "posting" /\ awaited' = awaited /\ batch' = Taken(queue)
      BY <1>5, <2>3 DEF FlushContinues, StartPost
    <3>2. Taken(queue) # <<>>
      BY <1>1, <2>3, Batches
    <3>3. awaited \in ToSet(Taken(queue)) \/ Len(Taken(queue)) = MaxBatch
      BY <1>1, <2>1, TakenHas
    <3>4. QED
      BY <3>1, <3>2, <3>3 DEF Served
  <2>4. QED
    BY <2>2, <2>3
<1>6. CASE FlushTimerFires
  <2>1. UNCHANGED <<session, awaited>>
    BY <1>6 DEF FlushTimerFires, runVars
  <2>2. UNCHANGED <<queue, batch>> \/ ~inFlight
    BY <1>6 DEF FlushTimerFires
  <2>3. ~inFlight => session = "idle"
    BY <1>6 DEF FlushTimerFires, Quiet
  <2>4. QED
    BY <2>1, <2>2, <2>3 DEF Served, Ahead
<1>7. CASE CloseDrains \/ CloseEnds
  <2>1. session = "idle" /\ session' = session
    BY <1>7 DEF CloseDrains, CloseEnds, IInv, NothingStarts
  <2>2. QED
    BY <2>1 DEF Served
<1>8. CASE PostAnswered \/ PostFails \/ PostRefused
  <2>1. SessionSettles
    BY <1>8 DEF PostAnswered, PostFails, PostRefused
  <2>2. \E q \in Seq(Nat) : queue' = q /\ (Ahead(awaited, queue) => Ahead(awaited, q))
    <3>1. CASE PostAnswered
      BY <1>1, <3>1 DEF PostAnswered
    <3>2. CASE PostFails
      <4>1. queue' = batch \o queue /\ batch \o queue \in Seq(Nat)
        BY <1>1, <3>2, ConcatProperties DEF PostFails, Requeue
      <4>2. QED
        BY <1>1, <4>1, LongerHas
    <3>3. CASE PostRefused
      <4>1. PICK q \in {queue, <<offered + 1>> \o queue} : queue' = batch \o q
        BY <3>3 DEF PostRefused, Requeue
      <4>2. q \in Seq(Nat) /\ (Ahead(awaited, queue) => Ahead(awaited, q))
        <5>1. <<offered + 1>> \in Seq(Nat)
          BY <1>1
        <5>2. QED
          BY <1>1, <4>1, <5>1, ConcatProperties, LongerHas
      <4>3. batch \o q \in Seq(Nat) /\ (Ahead(awaited, q) => Ahead(awaited, batch \o q))
        BY <1>1, <4>2, ConcatProperties, LongerHas
      <4>4. QED
        BY <4>1, <4>2, <4>3
    <3>4. QED
      BY <1>8, <3>1, <3>2, <3>3
  <2>3. \/ session' = "idle"
        \/ UNCHANGED <<session, awaited>> /\ session # "posting"
    BY <2>1 DEF SessionSettles
  <2>4. QED
    BY <2>2, <2>3 DEF Served, Ahead
<1>9. CASE OtherAnswered
  <2>1. UNCHANGED <<batch, session, awaited>>
    BY <1>9 DEF OtherAnswered, runVars
  <2>2. queue' = queue \/ queue' = <<offered + 1>> \o queue
    BY <1>9 DEF OtherAnswered
  <2>3. Ahead(awaited, queue) => Ahead(awaited, <<offered + 1>> \o queue)
    <3>1. <<offered + 1>> \in Seq(Nat)
      BY <1>1
    <3>2. QED
      BY <1>1, <3>1, LongerHas
  <2>4. QED
    BY <2>1, <2>2, <2>3 DEF Served, Ahead
<1>10. QED
  BY <1>2, <1>3, <1>4, <1>5, <1>6, <1>7, <1>8, <1>9 DEF Next

(* An enqueueImmediate that resolves with the queue as it was has its event*)
(* acknowledged, or came behind a backlog of a full batch.                 *)
THEOREM EarlyAnswersHaveABacklog ==
    ASSUME MaxBatch <= MaxQueue
    PROVE  Spec => EarlyOnlyBehindBacklog
<1> DEFINE Early == session # "idle" /\ session' = "idle" /\ queue' = queue
           Told == awaited \in ToSet(landed') \/ Len(batch) = MaxBatch
<1>1. ASSUME TraceInv, Served, Next, Early PROVE Told
  <2>1. /\ queue \in Seq(Nat) /\ batch \in Seq(Nat) /\ offered \in Nat
        /\ Len(queue) \in Nat /\ Len(batch) \in Nat
    BY <1>1, LenProperties DEF TraceInv, IInv, Types
  <2>2. phase = "up"
    BY <1>1 DEF TraceInv, IInv, NothingStarts
  <2>3. \/ FlushContinues \/ PostAnswered \/ PostFails \/ PostRefused
    BY <1>1, <2>2
    DEF Next, Enqueue, EnqueueImmediate, FlushTimerFires, BackoffFires,
        BrokerHandles, OtherSent, OtherAnswered, Reenrolled, TokenSaved,
        ProbeSent, ProbeAnswered, ProbeFails, ShutdownBegins, CloseBegins,
        CloseDrains, CloseEnds, runVars
  <2>4. CASE FlushContinues
    <3>1. queue = <<>> /\ Ahead(awaited, queue)
      BY <1>1, <2>4 DEF FlushContinues, Served
    <3>2. ToSet(<<>>) = {} /\ Len(<<>>) = 0
      BY <2>1, EventsOf, EmptySeq
    <3>3. QED
      BY <3>1, <3>2, UploaderConstantsOK DEF Ahead
  <2>5. CASE PostAnswered
    <3>1. session = "posting" /\ post.at = "stored" /\ landed' = landed
      BY <1>1, <2>5 DEF PostAnswered, SessionSettles, worldVars
    <3>2. QED
      BY <1>1, <3>1 DEF TraceInv, StoredHasLanded, Served
  <2>6. CASE PostFails
    <3>1. batch \o queue = queue /\ batch # <<>>
      BY <1>1, <2>6 DEF PostFails, Requeue
    <3>2. QED
      BY <2>1, <3>1, ConcatEqualIffEmpty
  <2>7. CASE PostRefused
    <3>1. PICK q \in {queue, <<offered + 1>> \o queue} : queue' = batch \o q
      BY <2>7 DEF PostRefused, Requeue
    <3>2. batch # <<>> /\ Len(batch) # 0
      <4>1. batch # <<>>
        <5>1. post.at = "refused"
          BY <2>7 DEF PostRefused
        <5>2. QED
          BY <1>1, <5>1 DEF TraceInv, IInv, OneBatch
      <4>2. QED
        BY <2>1, <4>1, EmptySeq
    <3>3. q \in Seq(Nat) /\ Len(q) \in Nat /\ Len(q) >= Len(queue)
      <4>1. <<offered + 1>> \in Seq(Nat) /\ Len(<<offered + 1>>) = 1
        BY <2>1
      <4>2. <<offered + 1>> \o queue \in Seq(Nat)
            /\ Len(<<offered + 1>> \o queue) = 1 + Len(queue)
        BY <2>1, <4>1, Concatenates
      <4>3. q = queue \/ q = <<offered + 1>> \o queue
        BY <3>1
      <4> DEFINE mq == <<offered + 1>> \o queue
      <4>4. mq \in Seq(Nat) /\ Len(mq) \in Nat /\ Len(mq) >= Len(queue)
            /\ (q = queue \/ q = mq)
        BY <2>1, <4>2, <4>3
      <4> HIDE DEF mq
      <4>5. QED
        BY <2>1, <4>4
    <3>4. Len(batch \o q) = Len(batch) + Len(q)
      BY <2>1, <3>3, Concatenates
    <3>5. batch \o q = queue
      BY <1>1, <3>1
    <3>6. QED
      BY <2>1, <3>2, <3>3, <3>4, <3>5
  <2>8. QED
    BY <2>3, <2>4, <2>5, <2>6, <2>7
<1>2. TraceInv /\ Served /\ [Next]_vars => [Early => Told]_vars
  BY <1>1
<1>3. Spec => []Served
  <2>1. Init => Served
    BY ServedInit
  <2>2. IInv /\ Served /\ [Next]_vars => Served'
    BY ServedStep
  <2>3. QED
    BY <2>1, <2>2, Invariance, PTL DEF Spec
<1>4. [][Early => Told]_vars => EarlyOnlyBehindBacklog
  BY DEF EarlyOnlyBehindBacklog
<1>5. QED
  BY <1>2, <1>3, <1>4, TraceInvariance, PTL DEF Spec
=============================================================================
