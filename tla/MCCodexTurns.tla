----------------------------- MODULE MCCodexTurns -----------------------------
(* Instance of CodexTurns for TLC.                                           *)
EXTENDS CodexTurns, TLC

SendSymmetry == Permutations(Send)
=============================================================================
