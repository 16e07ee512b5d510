--------------------------- MODULE MCPhaseSwitch ---------------------------
(* Instances of PhaseSwitch for TLC.                                       *)
EXTENDS PhaseSwitch

(* 3910 W lies between 1p/16 A and 3p/6 A, so that the rounding mode       *)
(* decides the phases; 0 W stops.                                          *)
BetweenPowers == {0, 3910}
BetweenChoice == [x \in {3910} \X {"up", "down"} \X {1, 3} |->
    IF x[2] = "up" THEN [phases |-> 3, amps |-> 6] ELSE [phases |-> 1, amps |-> 16]]
=============================================================================
