---------------------------- MODULE MCCorrelatedWs ----------------------------
(* Instance of CorrelatedWs for TLC.                                         *)
EXTENDS CorrelatedWs
=============================================================================
