----------------------------- MODULE PhaseRelay -----------------------------
(***************************************************************************)
(* What the phase switch promises, as seen from the power path: contactors *)
(* that close with the phases of the selected mode, a mode that is only    *)
(* selected while they are open, and a controller whose idea of the phase  *)
(* count (evse/phase_switch commanded_phases) only ever changes to the     *)
(* mode that is really selected.  A controller that boots selects the      *)
(* three-phase mode without asking for the contactors (configure_gd).      *)
(***************************************************************************)
EXTENDS Integers

VARIABLES
    mode,       \* the selected phase count
    relay,      \* the phases the contactors connect, 0 when open
    believed    \* commanded_phases

vars == <<mode, relay, believed>>

Init == mode = 3 /\ relay = 0 /\ believed = 3

Select(p)   == relay = 0 /\ mode' = p /\ UNCHANGED <<relay, believed>>
Close       == relay = 0 /\ relay' = mode /\ UNCHANGED <<mode, believed>>
Open        == relay' = 0 /\ UNCHANGED <<mode, believed>>
Acknowledge == believed' = mode /\ UNCHANGED <<mode, relay>>
Boot        == mode' = 3 /\ believed' = 3 /\ UNCHANGED relay

Next == (\E p \in {1, 3} : Select(p)) \/ Close \/ Open \/ Acknowledge \/ Boot

Spec == Init /\ [][Next]_vars
=============================================================================
