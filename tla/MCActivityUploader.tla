-------------------------- MODULE MCActivityUploader --------------------------
(***************************************************************************)
(* Instances of ActivityUploader for TLC.                                  *)
(***************************************************************************)
EXTENDS ActivityUploader

(* Excluding against SelectSeq, on every sequence of up to three events.   *)
ASSUME ExcludingIsSelectSeq ==
    \A s \in UNION {[1 .. n -> 1 .. 3] : n \in 0 .. 3}, gone \in SUBSET (1 .. 3) :
        Excluding(s, gone) = SelectSeq(s, LAMBDA e : e \notin gone)

(* What the log line "authentication blocked; outbound work retained until *)
(* re-enrolment" (auth-recovery.ts) says: a runner whose saved token is    *)
(* the accepted one does not stay blocked for good.                        *)
RecoversAfterReenrolment ==
    <>[](saved = valid /\ phase = "up") => []<>~blocked
=============================================================================
