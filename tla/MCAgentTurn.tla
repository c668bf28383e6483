----------------------------- MODULE MCAgentTurn -----------------------------
(* Small instances of AgentTurn.                                           *)
EXTENDS AgentTurn

\* Two urgent observations; between them an ordinary one and the agent's own.
UrgentAroundTwo == {1, 4}
OwnAction == {3}
=============================================================================
