SPECIFICATION Spec
CONSTANT PowerTargets <- EdgePowers
INVARIANTS ChoiceIsStable TypeOK ChoiceIsBest
CHECK_DEADLOCK FALSE
