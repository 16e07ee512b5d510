-------------------------- MODULE MCChargeManager --------------------------
(* Instances of ChargeManager for TLC.                                     *)
EXTENDS ChargeManager

CONSTANTS big, small

(* One box can use everything, the other the minimum only.                 *)
BigAndSmall == [b \in {big, small} |-> IF b = big THEN 2 ELSE 1]
=============================================================================
