-------------------------- MODULE MCAgentConnection --------------------------
(* Bounded instances of AgentConnection for TLC. *)
EXTENDS AgentConnection
=============================================================================
