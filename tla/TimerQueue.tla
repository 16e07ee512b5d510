----------------------------- MODULE TimerQueue -----------------------------
(***************************************************************************)
(* What the task scheduler promises: every job that is scheduled waits     *)
(* until its time has come, the job that has waited longest beyond its     *)
(* time runs first, and a repeated job is scheduled again when it ends.    *)
(* Time is an unbounded count; a waiting job knows how much is left.       *)
(***************************************************************************)
EXTENDS Integers

CONSTANTS
  Jobs,
  Once,    \* the jobs that run once
  Delay    \* of a repeated job, from its end to its next run

VARIABLES
  left,    \* the time left of each waiting job; late when negative
  running  \* the jobs that run: one at most

vars == <<left, running>>

Waiting == DOMAIN left

Init == left = [j \in {} |-> 0] /\ running = {}

With(j, t) == [k \in Waiting \cup {j} |-> IF k = j THEN t ELSE left[k]]

Schedule(j) ==
  /\ j \notin Waiting \cup running
  /\ j \in Waiting' /\ left'[j] >= 0 /\ left' = With(j, left'[j])
  /\ UNCHANGED running

Run(j) ==
  /\ running = {} /\ j \in Waiting
  /\ left[j] <= 0 /\ \A k \in Waiting : left[j] <= left[k]
  /\ running' = {j}
  /\ left' = [k \in Waiting \ {j} |-> left[k]]

End(j) ==
  /\ running = {j} /\ running' = {}
  /\ left' = IF j \in Once THEN left ELSE With(j, Delay[j])

Tick == left' = [k \in Waiting |-> left[k] - 1] /\ UNCHANGED running

Next == Tick \/ \E j \in Jobs : Schedule(j) \/ Run(j) \/ End(j)

Spec == Init /\ [][Next]_vars
=============================================================================
