----------------------- MODULE MCPhaseSwitchSystem -----------------------
(* Instances of PhaseSwitchSystem for TLC.                                 *)
EXTENDS PhaseSwitchSystem

NoPowers == {}
NoChoice == [x \in {} |-> 0]

(* 2300 W is 1p/10 A.                                                      *)
OnePower == {2300}
OneChoice == [x \in {2300} \X {"up"} \X {1, 3} |-> [phases |-> 1, amps |-> 10]]
=============================================================================
