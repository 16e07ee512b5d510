------------------------- MODULE PowerTargetProofs -------------------------
(***************************************************************************)
(* The search of calculate_power_target is correct for every request: for  *)
(* any set of power targets it stays in its types, finds the best          *)
(* candidate and, asked again after the switch, chooses the same.          *)
(*                                                                         *)
(* Beats is the strict order the loop computes the first element of: the   *)
(* rounding mode's order, ties decided by the phases in force and then by  *)
(* the order of the loop.                                                  *)
(***************************************************************************)
EXTENDS PowerTarget, TLAPS

Beats(i, j, c) ==
    CASE rounding = "down"    -> Watts(i) > Watts(j)
      [] rounding = "up"      -> Watts(i) < Watts(j)
      [] rounding = "nearest" ->
            \/ Distance(i) < Distance(j)
            \/ /\ Distance(i) = Distance(j)
               /\ \/ PhasesOf(i) = c /\ PhasesOf(j) # c
                  \/ (PhasesOf(i) = c <=> PhasesOf(j) = c) /\ i < j

Wins(i, c) == Admits(i) /\ \A j \in Candidates : Admits(j) /\ j # i => Beats(i, j, c)

Chosen(i, c) == \/ Wins(i, c)
                \/ (\A j \in Candidates : ~Admits(j)) /\ i = Saturated

(* The invariant of the loop, and what the two results are.                *)
Searched ==
    /\ found => /\ best < next /\ Admits(best)
                /\ \A j \in Candidates :
                      j < next /\ Admits(j) /\ j # best => Beats(best, j, commanded)
    /\ ~found => \A j \in Candidates : j < next => ~Admits(j)

Concluded ==
    result # Unknown /\ power > 0 =>
        /\ next = 22
        /\ \E i \in Candidates :
              result = <<PhasesOf(i), AmpsOf(i)>> /\ Chosen(i, commanded)

Repeated ==
    previous # Unknown =>
        /\ power > 0
        /\ \E i \in Candidates :
              /\ previous = <<PhasesOf(i), AmpsOf(i)>> /\ commanded = PhasesOf(i)
              /\ \E c \in {1, 3} : Chosen(i, c)

IInv == TypeOK /\ Searched /\ Concluded /\ Repeated

-----------------------------------------------------------------------------
(* The candidates have a phase count, a current from 6 A to 16 A, and      *)
(* ascending powers: the ranges of the two loops.                          *)
LEMMA CandidateRange ==
    \A i \in Candidates :
        PhasesOf(i) \in {1, 3} /\ AmpsOf(i) \in 6..16 /\ Watts(i) \in Nat
  <1> SUFFICES ASSUME NEW i \in Candidates
               PROVE  PhasesOf(i) \in {1, 3} /\ AmpsOf(i) \in 6..16 /\ Watts(i) \in Nat
      OBVIOUS
  <1>1. CASE i < 11  BY <1>1 DEF Candidates, PhasesOf, AmpsOf, Watts
  <1>2. CASE ~(i < 11)  BY <1>2 DEF Candidates, PhasesOf, AmpsOf, Watts
  <1> QED  BY <1>1, <1>2

LEMMA Ascending ==
    ASSUME NEW i \in Candidates, NEW j \in Candidates, i < j
    PROVE  Watts(i) < Watts(j)
  <1>1. CASE j < 11  BY <1>1 DEF Candidates, PhasesOf, AmpsOf, Watts
  <1>2. CASE i < 11 /\ ~(j < 11)  BY <1>2 DEF Candidates, PhasesOf, AmpsOf, Watts
  <1>3. CASE ~(i < 11)  BY <1>3 DEF Candidates, PhasesOf, AmpsOf, Watts
  <1> QED  BY <1>1, <1>2, <1>3 DEF Candidates

LEMMA DistanceType ==
    ASSUME power \in Nat, NEW i \in Candidates
    PROVE  Distance(i) \in Nat
  BY CandidateRange DEF Distance

(* Beats is transitive, and the condition "take" of the loop is exactly    *)
(* "admitted, and nothing found yet or better than the best so far".       *)
LEMMA BeatsTransitive ==
    ASSUME TypeOK,
           NEW i \in Candidates, NEW j \in Candidates, NEW k \in Candidates,
           Beats(i, j, commanded), Beats(j, k, commanded)
    PROVE  Beats(i, k, commanded)
  <1>1. /\ Watts(i) \in Nat /\ Watts(j) \in Nat /\ Watts(k) \in Nat
        /\ Distance(i) \in Nat /\ Distance(j) \in Nat /\ Distance(k) \in Nat
      BY CandidateRange, DistanceType DEF TypeOK
  <1>2. i \in Int /\ j \in Int /\ k \in Int
      BY DEF Candidates
  <1>3. CASE rounding = "down"  BY <1>1, <1>3 DEF Beats
  <1>4. CASE rounding = "up"  BY <1>1, <1>4 DEF Beats
  <1>5. CASE rounding = "nearest"
      BY <1>1, <1>2, <1>5, CandidateRange DEF Beats, TypeOK
  <1> QED  BY <1>3, <1>4, <1>5 DEF TypeOK, Roundings

LEMMA TakesMeansBeats ==
    ASSUME TypeOK, NEW i \in Candidates, best < i
    PROVE  /\ Takes(i) => Admits(i) /\ (found => Beats(i, best, commanded))
           /\ ~Takes(i) /\ Admits(i) => found /\ Beats(best, i, commanded)
  <1>1. best \in Candidates /\ best \in Int /\ i \in Int
      BY DEF TypeOK, Candidates
  <1>2. /\ Watts(i) \in Nat /\ Watts(best) \in Nat /\ power \in Nat
        /\ Distance(i) \in Nat /\ Distance(best) \in Nat
      BY <1>1, CandidateRange, DistanceType DEF TypeOK
  <1>3. Watts(best) < Watts(i)
      BY <1>1, Ascending
  <1>4. CASE rounding = "down"  BY <1>2, <1>3, <1>4 DEF Takes, Admits, Beats
  <1>5. CASE rounding = "up"  BY <1>2, <1>3, <1>5 DEF Takes, Admits, Beats
  <1>6. CASE rounding = "nearest"
      BY <1>1, <1>2, <1>6, CandidateRange DEF Takes, Admits, Beats, TypeOK
  <1> QED  BY <1>4, <1>5, <1>6 DEF TypeOK, Roundings

LEMMA SaturatedRange == Saturated \in Candidates
  BY DEF Saturated, Candidates

LEMMA ResultsRange ==
    ASSUME NEW i \in Candidates
    PROVE  <<PhasesOf(i), AmpsOf(i)>> \in Results \ {Unknown}
  BY CandidateRange DEF Results, Unknown

-----------------------------------------------------------------------------
(* The search never leaves its types: it asks for no current below 6 A or  *)
(* above 16 A, and never looks past the last candidate.                    *)
LEMMA TypeInductive == TypeOK /\ [Next]_vars => TypeOK'
  <1> SUFFICES ASSUME TypeOK, [Next]_vars PROVE TypeOK'
      OBVIOUS
  <1> USE DEF TypeOK
  <1>1. CASE NoPower
      BY <1>1 DEF NoPower, inputs, Results, Unknown
  <1>2. CASE Try
    <2>1. next' \in 0..22 /\ best' \in Candidates
        BY <1>2 DEF Try, Candidates
    <2>2. found' \in BOOLEAN
        BY <1>2 DEF Try
    <2> QED  BY <1>2, <2>1, <2>2 DEF Try, inputs
  <1>3. CASE Conclude
    <2> DEFINE i == IF found THEN best ELSE Saturated
    <2>1. i \in Candidates  BY SaturatedRange
    <2>2. result' \in Results  BY <1>3, <2>1, ResultsRange DEF Conclude
    <2> QED  BY <1>3, <2>2 DEF Conclude, inputs
  <1>4. CASE AskAgain
    <2>1. result[1] \in {1, 3}  BY <1>4 DEF AskAgain, ModeEntered, Results, Unknown
    <2>2. result' \in Results /\ previous' \in Results
        BY <1>4 DEF AskAgain, ModeEntered, Results
    <2>3. next' \in 0..22 /\ best' \in Candidates
        BY <1>4 DEF AskAgain, ModeEntered, Candidates
    <2>4. found' \in BOOLEAN
        BY <1>4 DEF AskAgain, ModeEntered
    <2> QED  BY <1>4, <2>1, <2>2, <2>3, <2>4 DEF AskAgain, ModeEntered
  <1>5. CASE UNCHANGED vars
      BY <1>5 DEF vars
  <1> QED  BY <1>1, <1>2, <1>3, <1>4, <1>5 DEF Next

LEMMA TypeInit == Init => TypeOK
  <1> SUFFICES ASSUME Init PROVE TypeOK
      OBVIOUS
  <1>1. power \in Nat /\ rounding \in Roundings /\ commanded \in {1, 3}
      BY PowerTargetsAssumption DEF Init
  <1>2. next \in 0..22 /\ best \in Candidates
      BY DEF Init, Candidates
  <1>4. found \in BOOLEAN
      BY DEF Init
  <1>3. result \in Results /\ previous \in Results
      BY DEF Init, Results
  <1> QED  BY <1>1, <1>2, <1>3, <1>4 DEF TypeOK

(* What the reference definitions and the order say of a candidate only    *)
(* depends on the request.                                                 *)
LEMMA SameRequest ==
    ASSUME power' = power, rounding' = rounding, NEW i \in Candidates
    PROVE  /\ Admits(i)' = Admits(i) /\ Saturated' = Saturated
           /\ \A j \in Candidates, c \in {1, 3} : Beats(i, j, c)' = Beats(i, j, c)
           /\ \A c \in {1, 3} : Chosen(i, c)' = Chosen(i, c)
  <1>1. \A j \in Candidates : Watts(j)' = Watts(j) /\ Distance(j)' = Distance(j)
      BY DEF Distance
  <1>2. \A j \in Candidates : Admits(j)' = Admits(j)
      BY <1>1 DEF Admits
  <1>3. \A j \in Candidates, c \in {1, 3} : Beats(i, j, c)' = Beats(i, j, c)
      BY <1>1 DEF Beats
  <1>4. Saturated' = Saturated
      BY DEF Saturated
  <1>5. \A c \in {1, 3} : Wins(i, c)' = Wins(i, c)
      BY <1>2, <1>3 DEF Wins
  <1> QED  BY <1>2, <1>3, <1>4, <1>5 DEF Chosen

LEMMA SearchInductive == IInv /\ [Next]_vars => IInv'
  <1> SUFFICES ASSUME IInv, [Next]_vars PROVE IInv'
      OBVIOUS
  <1>t. TypeOK /\ TypeOK' /\ Searched /\ Concluded /\ Repeated
      BY TypeInductive DEF IInv
  <1>c. commanded \in {1, 3} /\ next \in 0..22 /\ power \in Nat /\ power' = power /\ rounding' = rounding
      BY <1>t DEF TypeOK, Next, NoPower, Try, Conclude, AskAgain, ModeEntered, inputs, vars
  <1>1. CASE NoPower
    <2>1. /\ power = 0 /\ UNCHANGED <<commanded, next, found, best, previous>>
          /\ previous = Unknown
        BY <1>1, <1>t DEF NoPower, inputs, Repeated
    <2>2. Searched'
        BY <1>c, <1>t, <2>1, SameRequest DEF Searched, TypeOK
    <2>3. Concluded' /\ Repeated'
        BY <1>c, <2>1 DEF Concluded, Repeated
    <2> QED  BY <1>t, <2>2, <2>3 DEF IInv
  <1>2. CASE Try
    <2>1. /\ power > 0 /\ next \in Candidates /\ next' = next + 1
          /\ UNCHANGED <<commanded, result, previous>>
          /\ \/ Takes(next) /\ found' = TRUE /\ best' = next
             \/ ~Takes(next) /\ UNCHANGED <<found, best>>
        BY <1>2 DEF Try, inputs
    <2>2. found => best < next /\ best \in Candidates
        BY <1>t DEF Searched, TypeOK
    <2>3. \A j \in Candidates : j < next' <=> j < next \/ j = next
        BY <2>1 DEF Candidates
    <2>4. Searched'
      <3>1. CASE Takes(next)
        <4>1. found' = TRUE /\ best' = next /\ best' < next'
            BY <2>1, <3>1 DEF Candidates
        <4>2. Admits(next) /\ (found => Beats(next, best, commanded))
          <5>1. CASE best < next  BY <5>1, <1>t, <2>1, <3>1, TakesMeansBeats
          <5>2. CASE ~(best < next)
            <6>1. ~found  BY <5>2, <2>2
            <6> QED  BY <6>1, <3>1, <1>t DEF Takes, Admits, TypeOK, Roundings
          <5> QED  BY <5>1, <5>2
        <4>3. ASSUME NEW j \in Candidates, j < next, Admits(j)
              PROVE  Beats(next, j, commanded)
          <5>1. found /\ best \in Candidates  BY <4>3, <1>t, <2>2 DEF Searched
          <5>2. CASE j = best  BY <5>1, <5>2, <4>2
          <5>3. CASE j # best
              BY <5>1, <5>3, <4>2, <4>3, <1>t, <2>1, BeatsTransitive DEF Searched
          <5> QED  BY <5>2, <5>3
        <4> QED  BY <1>c, <2>1, <2>3, <4>1, <4>2, <4>3, SameRequest DEF Searched
      <3>2. CASE ~Takes(next)
        <4>1. UNCHANGED <<found, best>>  BY <2>1, <3>2
        <4>2. CASE found
          <5>1. best < next /\ best \in Candidates /\ best < next'
              BY <4>2, <2>1, <2>2 DEF Candidates
          <5>2. Admits(next) => Beats(best, next, commanded)
              BY <5>1, <3>2, <1>t, <2>1, TakesMeansBeats
          <5>3. Admits(best) /\ \A j \in Candidates :
                    j < next' /\ Admits(j) /\ j # best => Beats(best, j, commanded)
              BY <4>2, <5>2, <2>3, <1>t DEF Searched
          <5> QED  BY <1>c, <2>1, <4>1, <4>2, <5>1, <5>3, SameRequest DEF Searched
        <4>3. CASE ~found
          <5>1. ~Admits(next)
              BY <4>3, <3>2, <1>t DEF Takes, Admits, TypeOK, Roundings
          <5> QED  BY <1>c, <1>t, <2>1, <2>3, <4>1, <4>3, <5>1, SameRequest DEF Searched
        <4> QED  BY <4>2, <4>3
      <3> QED  BY <3>1, <3>2
    <2>5. Concluded'
      <3>1. result = Unknown  BY <1>t, <2>1 DEF Concluded, Candidates
      <3> QED  BY <3>1, <2>1 DEF Concluded, Unknown
    <2>6. Repeated'
        BY <1>c, <1>t, <2>1, SameRequest DEF Repeated, Unknown, PhasesOf, AmpsOf
    <2> QED  BY <1>t, <2>4, <2>5, <2>6 DEF IInv
  <1>3. CASE Conclude
    <2>1. /\ power > 0 /\ next = 22
          /\ UNCHANGED <<commanded, next, found, best, previous>>
        BY <1>3 DEF Conclude, inputs
    <2>2. PICK i \in Candidates : i = IF found THEN best ELSE Saturated
        BY <1>t, SaturatedRange DEF TypeOK
    <2>3. \A j \in Candidates : j < next  BY <2>1 DEF Candidates
    <2>4. Chosen(i, commanded)  BY <1>t, <2>2, <2>3 DEF Searched, Chosen, Wins
    <2>5. Searched'
        BY <1>c, <1>t, <2>1, SameRequest DEF Searched, TypeOK
    <2>6. Concluded'
      <3>1. Chosen(i, commanded)'  BY <1>c, <2>1, <2>4, SameRequest
      <3>2. result' = <<PhasesOf(i), AmpsOf(i)>>  BY <1>3, <2>2 DEF Conclude
      <3> QED  BY <2>1, <3>1, <3>2 DEF Concluded, PhasesOf, AmpsOf
    <2>7. Repeated'
        BY <1>c, <1>t, <2>1, SameRequest DEF Repeated, Unknown, PhasesOf, AmpsOf
    <2> QED  BY <1>t, <2>5, <2>6, <2>7 DEF IInv
  <1>4. CASE AskAgain
    <2>1. /\ power > 0 /\ result # Unknown /\ previous' = result /\ result' = Unknown
          /\ commanded' = result[1] /\ next' = 0 /\ found' = FALSE /\ best' = 0
        BY <1>4 DEF AskAgain, ModeEntered
    <2>2. Searched'  BY <2>1 DEF Searched, Candidates
    <2>3. Concluded'  BY <2>1 DEF Concluded, Unknown
    <2>4. Repeated'
      <3>1. PICK i \in Candidates :
                result = <<PhasesOf(i), AmpsOf(i)>> /\ Chosen(i, commanded)
          BY <1>t, <2>1 DEF Concluded
      <3>2. commanded' = PhasesOf(i)
          BY <2>1, <3>1
      <3> QED  BY <1>c, <2>1, <3>1, <3>2, SameRequest DEF Repeated, PhasesOf, AmpsOf
    <2> QED  BY <1>t, <2>2, <2>3, <2>4 DEF IInv
  <1>5. CASE UNCHANGED vars
    <2>1. UNCHANGED <<commanded, next, found, best, result, previous>>
        BY <1>5 DEF vars
    <2>2. Searched'
        BY <1>c, <1>t, <2>1, SameRequest DEF Searched, TypeOK
    <2>3. Concluded'
        BY <1>c, <1>t, <2>1, SameRequest DEF Concluded, Unknown, PhasesOf, AmpsOf
    <2>4. Repeated'
        BY <1>c, <1>t, <2>1, SameRequest DEF Repeated, Unknown, PhasesOf, AmpsOf
    <2> QED  BY <1>t, <2>2, <2>3, <2>4 DEF IInv
  <1> QED  BY <1>1, <1>2, <1>3, <1>4, <1>5 DEF Next

LEMMA SearchInit == Init => IInv
  BY TypeInit DEF Init, IInv, Searched, Concluded, Repeated, Candidates

-----------------------------------------------------------------------------
(* Only the first of two equally good candidates wins, whatever the phases *)
(* in force were: a winner still wins once its phase count is in force.    *)
LEMMA WinnerStays ==
    ASSUME TypeOK, NEW i \in Candidates, NEW k \in Candidates,
           NEW c \in {1, 3}, Chosen(i, c), Chosen(k, PhasesOf(i))
    PROVE  k = i
  <1>1. CASE \A j \in Candidates : ~Admits(j)
      BY <1>1 DEF Chosen, Wins
  <1>2. CASE ~\A j \in Candidates : ~Admits(j)
    <2>1. Wins(i, c) /\ Wins(k, PhasesOf(i))  BY <1>2 DEF Chosen
    <2> SUFFICES ASSUME k # i PROVE FALSE
        OBVIOUS
    <2>2. Beats(i, k, c) /\ Beats(k, i, PhasesOf(i))  BY <2>1 DEF Wins
    <2>3. /\ Watts(i) \in Nat /\ Watts(k) \in Nat /\ i \in Int /\ k \in Int
          /\ Distance(i) \in Nat /\ Distance(k) \in Nat
        BY CandidateRange, DistanceType DEF TypeOK, Candidates
    <2>4. CASE rounding = "down"  BY <2>2, <2>3, <2>4 DEF Beats
    <2>5. CASE rounding = "up"  BY <2>2, <2>3, <2>5 DEF Beats
    <2>6. CASE rounding = "nearest"  BY <2>2, <2>3, <2>6, CandidateRange DEF Beats
    <2> QED  BY <2>4, <2>5, <2>6 DEF TypeOK, Roundings
  <1> QED  BY <1>1, <1>2

(* A candidate that wins is as good as every admitted one; when none is    *)
(* admitted the request lies outside the range, and the search takes the   *)
(* end next to it.                                                         *)
LEMMA WinnerIsBest ==
    ASSUME TypeOK, NEW i \in Candidates, Wins(i, commanded)
    PROVE  BestOf(i, commanded)
  <1> SUFFICES ASSUME NEW j \in Candidates, Admits(j)
               PROVE  Admits(i) /\ AsGood(i, j, commanded)
      BY DEF BestOf, Wins
  <1>1. Admits(i) /\ (j # i => Beats(i, j, commanded))  BY DEF Wins
  <1>2. /\ Watts(i) \in Nat /\ Watts(j) \in Nat
        /\ Distance(i) \in Nat /\ Distance(j) \in Nat
      BY CandidateRange, DistanceType DEF TypeOK
  <1>3. CASE rounding = "down"  BY <1>1, <1>2, <1>3 DEF Beats, AsGood
  <1>4. CASE rounding = "up"  BY <1>1, <1>2, <1>4 DEF Beats, AsGood
  <1>5. CASE rounding = "nearest"
      BY <1>1, <1>2, <1>5, CandidateRange DEF Beats, AsGood
  <1> QED  BY <1>3, <1>4, <1>5 DEF TypeOK, Roundings

LEMMA SaturatesAtTheEnd ==
    ASSUME TypeOK, \A j \in Candidates : ~Admits(j)
    PROVE  Saturated = IF rounding = "down" THEN 0 ELSE 21
  <1>1. 0 \in Candidates /\ ~Admits(0) /\ Watts(0) = 1380
      BY DEF Candidates, Watts, PhasesOf, AmpsOf
  <1>2. power \in Nat /\ rounding \in Roundings  BY DEF TypeOK
  <1>3. CASE rounding = "down"  BY <1>3 DEF Saturated
  <1>4. CASE rounding = "up"  BY <1>1, <1>2, <1>4 DEF Saturated, Admits
  <1>5. CASE rounding = "nearest"  BY <1>1, <1>5 DEF Admits
  <1> QED  BY <1>2, <1>3, <1>4, <1>5 DEF Roundings

LEMMA InvariantImplies == IInv => TypeOK /\ ChoiceIsBest /\ ChoiceIsStable
  <1> SUFFICES ASSUME IInv PROVE ChoiceIsBest /\ ChoiceIsStable
      BY DEF IInv
  <1>t. TypeOK /\ Concluded /\ Repeated  BY DEF IInv
  <1>1. ASSUME result # Unknown, power > 0
        PROVE  \E i \in Candidates :
                  /\ result = <<PhasesOf(i), AmpsOf(i)>>
                  /\ \/ BestOf(i, commanded)
                     \/ /\ \A j \in Candidates : ~Admits(j)
                        /\ i = IF rounding = "down" THEN 0 ELSE 21
    <2>1. PICK i \in Candidates :
              result = <<PhasesOf(i), AmpsOf(i)>> /\ Chosen(i, commanded)
        BY <1>1, <1>t DEF Concluded
    <2>2. CASE Wins(i, commanded)  BY <1>t, <2>1, <2>2, WinnerIsBest
    <2>3. CASE (\A j \in Candidates : ~Admits(j)) /\ i = Saturated
        BY <1>t, <2>1, <2>3, SaturatesAtTheEnd
    <2> QED  BY <2>1, <2>2, <2>3 DEF Chosen
  <1>2. ASSUME previous # Unknown, result # Unknown PROVE result = previous
    <2>1. PICK i \in Candidates :
              /\ previous = <<PhasesOf(i), AmpsOf(i)>> /\ commanded = PhasesOf(i)
              /\ \E c \in {1, 3} : Chosen(i, c)
        BY <1>2, <1>t DEF Repeated
    <2>2. PICK k \in Candidates :
              result = <<PhasesOf(k), AmpsOf(k)>> /\ Chosen(k, commanded)
        BY <1>2, <1>t DEF Concluded, Repeated
    <2>3. k = i  BY <1>t, <2>1, <2>2, WinnerStays
    <2> QED  BY <2>1, <2>2, <2>3
  <1> QED  BY <1>1, <1>2 DEF ChoiceIsBest, ChoiceIsStable

-----------------------------------------------------------------------------
(* The search keeps to its types: any current it yields is 0 A or between  *)
(* 6 A and 16 A, for every set of power targets.                           *)
THEOREM SearchTyped == Spec => []TypeOK
  BY TypeInit, TypeInductive, PTL DEF Spec

(* For every power target, rounding mode and phase count in force, the     *)
(* search yields the representable power that the rounding mode asks for.  *)
THEOREM SearchFindsBest == Spec => []ChoiceIsBest
  <1>1. IInv => ChoiceIsBest  BY InvariantImplies
  <1> QED  BY <1>1, SearchInit, SearchInductive, PTL DEF Spec

(* For every power target and rounding mode, the search repeated after the *)
(* switch yields the same phases and current: no request makes the phase   *)
(* switch go back and forth.                                               *)
THEOREM SearchIsStable == Spec => []ChoiceIsStable
  <1>1. IInv => ChoiceIsStable  BY InvariantImplies
  <1> QED  BY <1>1, SearchInit, SearchInductive, PTL DEF Spec
=============================================================================
