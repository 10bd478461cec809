---------------------------- MODULE MCPairCoupons ----------------------------
(* Model of PairCoupons for TLC: two people, two coupons each, two taps.   *)
EXTENDS PairCoupons
=============================================================================
