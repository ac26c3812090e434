----------------------------- MODULE MCAgentStats ---------------------------
(* AgentStats for TLC: one scraper, one ping, a window of two ticks. *)
EXTENDS AgentStats
=============================================================================
