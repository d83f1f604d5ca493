---------------------------- MODULE MCAppShutdown ----------------------------
(* The model-checked instance of AppShutdown. *)
EXTENDS AppShutdown
=============================================================================
