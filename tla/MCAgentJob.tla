----------------------------- MODULE MCAgentJob -----------------------------
(* Small instances of AgentJob. *)
EXTENDS AgentJob, TLC

CONSTANTS j1, j2, h1, h2
=============================================================================
