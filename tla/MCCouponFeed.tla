---------------------------- MODULE MCCouponFeed ----------------------------
(* Model of CouponFeed for TLC: two keys and two ordered descriptions.     *)
EXTENDS CouponFeed
=============================================================================
