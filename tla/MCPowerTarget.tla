--------------------------- MODULE MCPowerTarget ---------------------------
(* Every power at which a choice can change, with its neighbours: the      *)
(* candidates and the points half way between two of them are multiples of *)
(* 115 W; 11040 W is the largest target request_power_target accepts.      *)
EXTENDS PowerTarget

EdgePowers == {w \in 0..11040 : \E d \in {-1, 0, 1} : (w + d) % 115 = 0}
=============================================================================
