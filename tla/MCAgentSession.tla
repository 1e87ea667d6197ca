---------------------------- MODULE MCAgentSession ----------------------------
(* Instances of AgentSession for TLC; the constants are given in the .cfg. *)
EXTENDS AgentSession, TLC

=============================================================================
