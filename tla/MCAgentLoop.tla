----------------------------- MODULE MCAgentLoop -----------------------------
(* Small catalogues for AgentLoop. *)
EXTENDS AgentLoop

OneTool  == {"query"}
TwoTools == {"query", "alerts"}
MadeUp   == {"invented"}
=============================================================================
