---------------------------- MODULE PowerTarget ----------------------------
(***************************************************************************)
(* AC011K::calculate_power_target: the search for the phase count and the  *)
(* current that represent a power target, candidate by candidate, in the   *)
(* order of the two loops: 1p/6 A .. 1p/16 A, 3p/6 A .. 3p/16 A.           *)
(***************************************************************************)
EXTENDS Integers

CONSTANT PowerTargets       \* the power targets asked for, in W

ASSUME PowerTargetsAssumption == PowerTargets \subseteq Nat

VARIABLES
    power, rounding, commanded,    \* the arguments and commanded_phases
    next,                          \* the candidate to look at
    found, best,                   \* the best one so far
    result,                        \* <<phases, amps>>, or Unknown
    previous                       \* the result before, Unknown the first time

vars == <<power, rounding, commanded, next, found, best, result, previous>>
inputs == <<power, rounding, commanded>>

Candidates == 0..21
Roundings  == {"up", "down", "nearest"}
Unknown    == <<0, 0>>

(* Variant: the first loop runs from 5 A to 15 A.                          *)
AmpsOneLess(i) == IF i < 11 THEN 5 + i ELSE i - 5

PhasesOf(i) == IF i < 11 THEN 1 ELSE 3
AmpsOf(i)   == IF i < 11 THEN 6 + i ELSE i - 5
Watts(i)    == PhasesOf(i) * AmpsOf(i) * 230
Distance(i) == IF Watts(i) > power THEN Watts(i) - power ELSE power - Watts(i)

(* No current at all, or one the pilot can signal.                         *)
Results == {Unknown} \cup ({1, 3} \X ({0} \cup 6..16))

TypeOK ==
    /\ power \in Nat /\ rounding \in Roundings /\ commanded \in {1, 3}
    /\ next \in 0..22 /\ found \in BOOLEAN /\ best \in Candidates
    /\ result \in Results /\ previous \in Results

Init ==
    /\ power \in PowerTargets /\ rounding \in Roundings /\ commanded \in {1, 3}
    /\ next = 0 /\ found = FALSE
    /\ best = 0                            \* best_phases = 1, best_current = 6
    /\ result = Unknown /\ previous = Unknown

(* A power target of 0 W keeps the commanded phases and allows no current. *)
NoPower ==
    /\ power = 0 /\ result = Unknown
    /\ result' = <<commanded, 0>>
    /\ UNCHANGED <<inputs, next, found, best, previous>>

(* Variant of the condition below: rounding up wants more than was asked   *)
(* and rounding to the nearest ignores the phases in force.                *)
TakesMoreThanAsked(i) ==
    \/ rounding = "down" /\ Watts(i) <= power /\ (~found \/ Watts(i) > Watts(best))
    \/ rounding = "nearest" /\ (~found \/ Distance(i) < Distance(best))
    \/ rounding = "up" /\ Watts(i) > power /\ (~found \/ Watts(i) < Watts(best))

(* The condition "take" for candidate i.                                   *)
Takes(i) ==
    \/ /\ rounding = "down"
       /\ Watts(i) <= power
       /\ ~found \/ Watts(i) > Watts(best)
    \/ /\ rounding = "nearest"
       /\ \/ ~found
          \/ Distance(i) < Distance(best)
          \/ /\ Distance(i) = Distance(best)
             /\ PhasesOf(i) = commanded /\ PhasesOf(best) # commanded
    \/ /\ rounding = "up"
       /\ Watts(i) >= power
       /\ ~found \/ Watts(i) < Watts(best)

Try ==
    /\ power > 0 /\ next \in Candidates
    /\ next' = next + 1
    /\ \/ Takes(next) /\ found' = TRUE /\ best' = next
       \/ ~Takes(next) /\ UNCHANGED <<found, best>>
    /\ UNCHANGED <<inputs, result, previous>>

(* Requests outside the representable range saturate at an endpoint.       *)
Saturated == IF rounding = "down" \/ power < 1380 THEN 0 ELSE 21

Conclude ==
    /\ power > 0 /\ next = 22 /\ result = Unknown
    /\ LET i == IF found THEN best ELSE Saturated
       IN  result' = <<PhasesOf(i), AmpsOf(i)>>
    /\ UNCHANGED <<inputs, next, found, best, previous>>

(* Variant: the switch records the mode it has left.                       *)
ModeLeft == 4 - result[1]

(* commanded_phases = phase_switch_target                                  *)
ModeEntered == result[1]

(* The switch has been made, commanded_phases is the chosen phase count    *)
(* and the power manager asks again.                                       *)
AskAgain ==
    /\ power > 0 /\ result # Unknown /\ previous = Unknown
    /\ previous' = result /\ result' = Unknown
    /\ commanded' = ModeEntered
    /\ next' = 0 /\ found' = FALSE /\ best' = 0
    /\ UNCHANGED <<power, rounding>>

Next == NoPower \/ Try \/ Conclude \/ AskAgain

Spec == Init /\ [][Next]_vars

-----------------------------------------------------------------------------
(* The reference: which candidates a rounding mode admits for a request,   *)
(* and when i represents it at least as well as j.                         *)
Admits(i) ==
    CASE rounding = "down"    -> Watts(i) <= power
      [] rounding = "up"      -> Watts(i) >= power
      [] rounding = "nearest" -> TRUE

AsGood(i, j, c) ==
    CASE rounding = "down"    -> Watts(i) >= Watts(j)
      [] rounding = "up"      -> Watts(i) <= Watts(j)
      [] rounding = "nearest" ->
            \/ Distance(i) < Distance(j)
            \/ Distance(i) = Distance(j) /\ (PhasesOf(j) = c => PhasesOf(i) = c)

BestOf(i, c) == Admits(i) /\ \A j \in Candidates : Admits(j) => AsGood(i, j, c)

(* A positive request gets the representable power the rounding mode asks  *)
(* for; one that no candidate satisfies gets the end of the range next to  *)
(* it: 1p/6 A when rounding down, 3p/16 A when rounding up (README.md      *)
(* lines 132-134).                                                         *)
ChoiceIsBest ==
    result # Unknown /\ power > 0 =>
        \E i \in Candidates :
            /\ result = <<PhasesOf(i), AmpsOf(i)>>
            /\ \/ BestOf(i, commanded)
               \/ /\ \A j \in Candidates : ~Admits(j)
                  /\ i = IF rounding = "down" THEN 0 ELSE 21

(* The choice is stable: asked again with the chosen phase count in force, *)
(* as after every switch, the search chooses the same, so that a request   *)
(* half way between one and three phases never makes the phase switch go   *)
(* back and forth.                                                         *)
ChoiceIsStable == previous # Unknown /\ result # Unknown => result = previous
=============================================================================
