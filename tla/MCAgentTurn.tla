---------------------------- MODULE MCAgentTurn ----------------------------
(* Small instances of AgentTurn for TLC.                                   *)
EXTENDS AgentTurn, TLC

CONSTANTS a, b, x    \* tool calls: a and b need approval, x does not

OneConversation == [t \in Turn |-> "c"]
\* Every modelled call is asked for by turn 1.
CallsOfTurn1 == [c \in Call |-> 1]

SlotSymmetry == Permutations(Slot)
=============================================================================
