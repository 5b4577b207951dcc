-------------------------- MODULE MCNotifications --------------------------
(***************************************************************************)
(* Instances of Notifications for TLC.                                     *)
(***************************************************************************)
EXTENDS Notifications, TLC

CONSTANTS bob, team, d1, d2

MCAudience == team :> {bob}

(* Two deliveries to bob, whose runner comes and goes; one delivery to bob  *)
(* and to the team's channel, with clients of every generation; one to bob, *)
(* named twice.                                                            *)
MCSetups ==
    {[targets |-> <<bob>>, receipts |-> {d1, d2}, clients |-> {"runner"}],
     [targets |-> <<bob, team>>, receipts |-> {d1}, clients |-> {"observer", "legacy", "runner"}],
     [targets |-> <<bob, bob>>, receipts |-> {d1}, clients |-> {"observer", "runner"}]}

(* A request that may wait for anything, and one that waits for nothing.   *)
Patient == [ifOffline |-> "queue", ifBusy |-> "wait", critical |-> FALSE]
Urgent == [ifOffline |-> "drop", ifBusy |-> "wait", critical |-> TRUE]
MCOptions == {Patient, Urgent}
=============================================================================
