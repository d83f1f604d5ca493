---------------------------- MODULE MCRemoteLease ----------------------------
(* Instance of RemoteLease for TLC.                                          *)
EXTENDS RemoteLease
=============================================================================
