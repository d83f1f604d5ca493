--------------------------- MODULE MCVoiceSessions ---------------------------
(* The model-checked instances of VoiceSessions. *)
EXTENDS VoiceSessions
=============================================================================
