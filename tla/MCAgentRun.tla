----------------------------- MODULE MCAgentRun -----------------------------
(* TLC instances of AgentRun: the tools are model values, one of which needs  *)
(* an approval.                                                               *)
EXTENDS AgentRun

=============================================================================
