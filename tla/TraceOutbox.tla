------------------------------ MODULE TraceOutbox ------------------------------
(***************************************************************************)
(* What the activity uploader promises the agent's trace, without batches, *)
(* timers or credentials: an event that was handed over lands at the       *)
(* broker in the order it waits in, or is lost for good. The broker is     *)
(* told of an event until it acknowledges it, so it may be told again of   *)
(* one it has stored: it recognises those that name their source record,   *)
(* and stores any other a second time. An event that landed is not lost,   *)
(* one that is lost never lands, and nothing lands once the run is over.   *)
(*                                                                         *)
(* A control marker may be filed ahead of waiting events; everything else  *)
(* is handed over at the end.                                              *)
(***************************************************************************)
EXTENDS Naturals, SequencesExt, EventSequences

CONSTANT Events

VARIABLES
    hand,      \* events handed over, in order, until acknowledged or lost
    keyed,     \* events the broker recognises
    landed,    \* the broker's record
    lost,      \* events that did not land and never will
    over       \* whether the run is over

vars == <<hand, keyed, landed, lost, over>>

Known == ToSet(hand) \cup ToSet(landed) \cup lost

Init == hand = <<>> /\ keyed = {} /\ landed = <<>> /\ lost = {} /\ over = FALSE

(* What stays in hand when the events in gone are let go.                  *)
Without(gone) == Excluding(hand, gone)

(* An event is handed over; older ones may have to give way to it, or it   *)
(* is refused at once.                                                     *)
Accept(e) ==
    /\ e \notin Known
    /\ UNCHANGED <<landed, over>>
    /\ \/ /\ ~over
          /\ keyed' \in {keyed, keyed \cup {e}}
          /\ \E gone \in SUBSET ToSet(hand) :
                 /\ hand' = Append(Without(gone), e)
                 /\ lost' = lost \cup (gone \ ToSet(landed))
       \/ UNCHANGED <<hand, keyed>> /\ lost' = lost \cup {e}

(* A control marker is filed ahead of events that wait.                    *)
Mark(e) ==
    /\ ~over /\ e \notin Known
    /\ \E k \in 1 .. Len(hand) + 1 : hand' = InsertAt(hand, k, e)
    /\ UNCHANGED <<keyed, landed, lost, over>>

(* The broker is told of the oldest events and stores those that are new   *)
(* to it, as far as it can tell.                                           *)
Land(n) ==
    /\ ~over
    /\ landed' = landed \o Excluding(SubSeq(hand, 1, n), ToSet(landed) \cap keyed)
    /\ UNCHANGED <<hand, keyed, lost, over>>

(* The oldest events, which have all landed, are acknowledged.             *)
Acknowledge(n) ==
    /\ ToSet(SubSeq(hand, 1, n)) \subseteq ToSet(landed)
    /\ hand' = SubSeq(hand, n + 1, Len(hand))
    /\ UNCHANGED <<keyed, landed, lost, over>>

(* The run is over: what is left in hand is kept, unsent, or given up.     *)
Finish ==
    /\ ~over /\ over' = TRUE
    /\ \/ UNCHANGED <<hand, lost>>
       \/ hand' = <<>> /\ lost' = lost \cup (ToSet(hand) \ ToSet(landed))
    /\ UNCHANGED <<keyed, landed>>

Next ==
    \/ \E e \in Events : Accept(e) \/ Mark(e)
    \/ \E n \in 1 .. Len(hand) : Land(n) \/ Acknowledge(n)
    \/ Finish

Spec == Init /\ [][Next]_vars
=============================================================================
