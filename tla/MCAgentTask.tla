---------------------------- MODULE MCAgentTask ----------------------------
(* Small instances of AgentTask for TLC.                                   *)
EXTENDS AgentTask

OneTask == [c \in Call |-> "t"]
=============================================================================
