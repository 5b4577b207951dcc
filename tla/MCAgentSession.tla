--------------------------- MODULE MCAgentSession ---------------------------
(***************************************************************************)
(* Instances of AgentSession for TLC.                                      *)
(***************************************************************************)
EXTENDS AgentSession, TLC

CONSTANTS c1, c2, c3

(* One control of each verb. *)
EachVerb == c1 :> "clear" @@ c2 :> "reload" @@ c3 :> "compact"

(* No control at all. *)
NoVerb == [c \in {} |-> "clear"]
=============================================================================
