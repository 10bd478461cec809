----------------------------- MODULE MCPutSync ------------------------------
(* Model of PutSync for TLC.  The listens for the directory are            *)
(* interchangeable, and so are the others.                                 *)
EXTENDS PutSync, TLC

Symmetry == Permutations(ListSpecs) \cup Permutations(Specs \ ListSpecs)
=============================================================================
