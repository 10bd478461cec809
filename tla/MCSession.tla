----------------------------- MODULE MCSession -----------------------------
(* Model of Session for TLC.                                               *)
EXTENDS Session, TLC

Symmetry == Permutations(Calls) \cup Permutations(Users)
=============================================================================
