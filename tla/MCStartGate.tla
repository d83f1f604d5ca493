----------------------------- MODULE MCStartGate -----------------------------
(* Instance of StartGate for TLC.  Starters and closers are model values.    *)
EXTENDS StartGate
=============================================================================
