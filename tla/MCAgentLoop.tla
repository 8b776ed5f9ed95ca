---------------------------- MODULE MCAgentLoop ----------------------------
(* AgentLoop with budgets a few steps wide.                               *)
EXTENDS AgentLoop
============================================================================
