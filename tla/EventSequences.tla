---------------------------- MODULE EventSequences ----------------------------
(***************************************************************************)
(* What the models of the activity uploader and of the runner's stream say *)
(* of a sequence: of events, and of the rows of the ledger.                *)
(***************************************************************************)
EXTENDS Naturals, Sequences

(* What stays of s, in order, when the events in gone are taken out:       *)
(* SelectSeq for e \notin gone, as a recursive function, which a proof can *)
(* unfold where it cannot unfold SelectSeq.                                *)
Excluding(s, gone) ==
    LET upTo[i \in 0 .. Len(s)] ==
            IF i = 0 THEN <<>>
            ELSE IF s[i] \in gone THEN upTo[i - 1]
            ELSE Append(upTo[i - 1], s[i])
    IN  upTo[Len(s)]
=============================================================================
