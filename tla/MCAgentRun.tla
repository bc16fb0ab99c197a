----------------------------- MODULE MCAgentRun -----------------------------
(* AgentRun for TLC. *)
EXTENDS AgentRun, TLC

CONSTANTS t1, t2, q1, n1

Kinds == t1 :> "tool" @@ t2 :> "tool" @@ q1 :> "ask" @@ n1 :> "note"
=============================================================================
