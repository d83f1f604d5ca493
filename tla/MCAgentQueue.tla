---------------------------- MODULE MCAgentQueue -----------------------------
(* Instance of AgentQueue for TLC.                                           *)
EXTENDS AgentQueue, TLC

\* Messages are interchangeable.
Symmetry == Permutations(Msg)
=============================================================================
