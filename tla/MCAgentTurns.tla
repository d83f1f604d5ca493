---------------------------- MODULE MCAgentTurns -----------------------------
(* Instance of AgentTurns for TLC.                                           *)
EXTENDS AgentTurns, TLC

\* The calls of one kind are interchangeable.
Symmetry == Permutations(Send) \union Permutations(Start)
=============================================================================
