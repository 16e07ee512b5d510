-------------------------- MODULE MCTaskScheduler --------------------------
(* Instances of TaskScheduler for TLC.                                     *)
EXTENDS TaskScheduler

CONSTANTS often, seldom, once, later

DelayOf == [j \in {often, seldom} |-> IF j = often THEN 1 ELSE 2]
=============================================================================
