---------------------------- MODULE MCChargeLog ----------------------------
(* Instances of ChargeLog for TLC: two people and two IDs, so that the IDs *)
(* come round.                                                             *)
EXTENDS ChargeLog
=============================================================================
