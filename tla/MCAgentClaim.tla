---------------------------- MODULE MCAgentClaim ----------------------------
(* AgentClaim for TLC: a few invocations of `agent start`. *)
EXTENDS AgentClaim, TLC

CONSTANTS a, b, c, none

AnyProc == Permutations({a, b, c})
=============================================================================
