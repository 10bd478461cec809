----------------------------- MODULE MCSettings -----------------------------
(* Model of Settings for TLC: one required field, three calls.             *)
EXTENDS Settings
=============================================================================
