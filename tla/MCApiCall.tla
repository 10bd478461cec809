----------------------------- MODULE MCApiCall -----------------------------
(* Model of ApiCall for TLC: three calls.                                  *)
EXTENDS ApiCall
=============================================================================
