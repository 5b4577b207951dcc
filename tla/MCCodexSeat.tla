----------------------------- MODULE MCCodexSeat -----------------------------
(***************************************************************************)
(* Instances of CodexSeat for TLC, and what the documentation says of a    *)
(* degraded runner.                                                        *)
(***************************************************************************)
EXTENDS CodexSeat

(* docs/concepts/presence.mdx:87 has a degraded member as one whose every  *)
(* reported runner is unable to act. So the broker does not keep messages  *)
(* for ever from a runner whose agent is up, idle and not broken, with     *)
(* nothing left to read or to send (degraded of channel-sink.ts,           *)
(* applyStatus of adapter.ts, runnerCondition of broker.ts).               *)
AbleButDegraded ==
    /\ stream.link = "up" /\ stream.cond = "degraded" /\ stream.down = <<>>
    /\ \E m \in Msgs : stream.row[m] = "pending"
    /\ stage = "up" /\ seat.status = "idle" /\ seat.buffer = <<>>
    /\ ~codex.broken /\ out = <<>>

DegradedMeansUnable == AbleButDegraded ~> ~AbleButDegraded
=============================================================================
