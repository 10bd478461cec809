--------------------------- MODULE MCCouponEditor ---------------------------
(* Model of CouponEditor for TLC.                                          *)
EXTENDS CouponEditor, TLC

Symmetry == Permutations(Calls)
=============================================================================
