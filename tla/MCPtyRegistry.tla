---------------------------- MODULE MCPtyRegistry ----------------------------
(* Instance of PtyRegistry for TLC.                                          *)
EXTENDS PtyRegistry
=============================================================================
