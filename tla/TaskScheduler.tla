--------------------------- MODULE TaskScheduler ---------------------------
(***************************************************************************)
(* The task scheduler of src/software/src/task_scheduler.cpp: a priority   *)
(* queue of tasks with 32-bit deadlines.  The order of two tasks depends   *)
(* on millis() at the moment they are compared.  The clock is millis() mod *)
(* W; the queue is the binary heap of the C++ library.  A critical section *)
(* is one step, and takes no time.                                         *)
(***************************************************************************)
EXTENDS Integers, Sequences

CONSTANTS
  W,            \* 2^32
  Jobs,
  Once,         \* the jobs of scheduleOnce; the others have a fixed delay
  Delay,        \* delay_ms of the others
  FirstDelays,  \* the delays jobs are scheduled with
  MaxLate,      \* bound: how late the main loop runs a task
  Punctual      \* whether no task is late when the clock's upper half begins or ends

Half == W \div 2 - 1  \* 0x7FFFFFFF, and UINT32_MAX / 2

ASSUME SchedulerAssumption ==
  /\ W \in Nat \ {0} /\ W % 2 = 0
  /\ Once \subseteq Jobs
  /\ FirstDelays \subseteq Nat
  /\ Delay \in [Jobs \ Once -> Nat \ {0}]
  /\ MaxLate \in Nat /\ MaxLate < Half
  /\ \A d \in FirstDelays \cup {Delay[j] : j \in Jobs \ Once} : d + MaxLate < Half
  /\ Punctual \in BOOLEAN

VARIABLES
  clock,    \* millis()
  tasks,    \* the heap: records of a job and its next_deadline_ms
  running   \* the job whose function runs

vars == <<clock, tasks, running>>

Init == clock = 0 /\ tasks = <<>> /\ running = {}

---------------------------------------------------------------------------
(* Deadlines.                                                              *)

AfterB(a, b) == (a - b) % W < Half

\* Variant: a millisecond too early.
ElapsedTooEarly(deadline) == AfterB(clock + 1, deadline)
DeadlineElapsed(deadline) == AfterB(clock, deadline)

\* Variant: deadlines behind the overflow come first.
PlainCompare(a, b) == a.due >= b.due
\* compare: whether a is run after b.
Compare(a, b) ==
  IF clock > Half /\ (a.due <= Half) # (b.due <= Half)
  THEN a.due <= Half
  ELSE a.due >= b.due

---------------------------------------------------------------------------
(* The heap (std::push_heap, std::pop_heap).                               *)

\* The nodes from hole up to the root.
Ancestors(hole) ==
  LET up[i \in 0..hole] == IF i = 0 THEN {} ELSE {i} \cup up[i \div 2] IN up[hole]

\* t goes in at hole and rises.
SiftUp(heap, hole, t) ==
  LET rise[i \in 1..hole] ==
        IF i > 1 /\ Compare(heap[i \div 2], t) THEN rise[i \div 2] ELSE i
      place == rise[hole]
  IN  [i \in DOMAIN heap |->
        IF i = place THEN t
        ELSE IF i > place /\ i \in Ancestors(hole) THEN heap[i \div 2] ELSE heap[i]]

Pushed(heap, t) == SiftUp(Append(heap, t), Len(heap) + 1, t)

\* The child of i that is run first; the last task has left its place.
FirstChild(heap, i) ==
  IF 2*i + 1 < Len(heap) /\ ~Compare(heap[2*i + 1], heap[2*i]) THEN 2*i + 1 ELSE 2*i

\* Variant: top() without pop().
NotPopped(heap) == heap
\* The hole at the root sinks to a leaf, then the last task rises from there.
Popped(heap) ==
  LET last     == Len(heap)
      rest     == SubSeq(heap, 1, last - 1)
      sink[i \in 1..last] == IF 2*i < last THEN sink[FirstChild(heap, i)] ELSE i
      leaf     == sink[1]
      sunk     == [i \in DOMAIN rest |->
                    IF i # leaf /\ i \in Ancestors(leaf) THEN heap[FirstChild(heap, i)] ELSE heap[i]]
  IN  IF last = 1 THEN <<>> ELSE SiftUp(sunk, leaf, heap[last])

---------------------------------------------------------------------------
(* The tasks.                                                              *)

Waiting == {tasks[i].job : i \in DOMAIN tasks}

\* The Task constructor and emplace.
Task(j, delay) == [job |-> j, due |-> (clock + delay) % W]

\* scheduleOnce, scheduleWithFixedDelay: from a task or another thread.
Schedule(j, delay) ==
  /\ j \notin Waiting \cup running
  /\ tasks' = Pushed(tasks, Task(j, delay))
  /\ UNCHANGED <<clock, running>>

\* loop: the front task is popped and its function runs,
RunFront ==
  /\ running = {} /\ tasks # <<>>
  /\ DeadlineElapsed(Head(tasks).due)
  /\ running' = {Head(tasks).job}
  /\ tasks' = Popped(tasks)
  /\ UNCHANGED clock

\* or nothing is due.
NothingToRun ==
  /\ running = {}
  /\ tasks # <<>> => ~DeadlineElapsed(Head(tasks).due)
  /\ UNCHANGED vars

\* The function ends.  A task that is not run once is pushed again.
FunctionEnds ==
  /\ \E j \in running :
       tasks' = IF j \in Once THEN tasks ELSE Pushed(tasks, Task(j, Delay[j]))
  /\ running' = {}
  /\ UNCHANGED clock

\* How much time a task has left, as a signed distance from the clock.
TimeLeft(t) == ((t.due - clock + W \div 2) % W) - (W \div 2)

OnTime(late) == \A i \in DOMAIN tasks : TimeLeft(tasks[i]) > -late

\* The clock; "late" includes a task whose millisecond is now.
Tick ==
  /\ OnTime(MaxLate)
  /\ Punctual /\ clock \in {Half, W - 1} => OnTime(0)
  /\ clock' = (clock + 1) % W
  /\ UNCHANGED <<tasks, running>>

Next ==
  \/ \E j \in Jobs, delay \in FirstDelays : Schedule(j, delay)
  \/ RunFront \/ NothingToRun \/ FunctionEnds \/ Tick

Spec == Init /\ [][Next]_vars

\* The main loop runs on; nothing is scheduled for the same millisecond for ever.
FairSpec ==
  /\ Spec /\ WF_vars(RunFront) /\ WF_vars(FunctionEnds)
  /\ <>[][\A j \in Jobs : ~Schedule(j, 0)]_vars

---------------------------------------------------------------------------
(* Properties.                                                             *)

\* Types; a job waits at most once.
TypeOK ==
  /\ clock \in 0..W-1
  /\ tasks \in Seq([job : Jobs, due : 0..W-1])
  /\ \A i, k \in DOMAIN tasks : tasks[i].job = tasks[k].job => i = k
  /\ running \subseteq Jobs /\ running \cap Waiting = {}

\* The queue of deadlines that wrap, ordered by a comparison that changes with
\* the clock, is a queue of timers in the order of real time: no task is lost
\* or doubled by the heap, none runs early, the earliest runs first.
TimerOf(j) == CHOOSE t \in {tasks[i] : i \in DOMAIN tasks} : t.job = j
Timers == INSTANCE TimerQueue WITH left <- [j \in Waiting |-> TimeLeft(TimerOf(j))]
ImplementsTimers == Timers!Spec

\* A task whose time has come runs.
DueTasksRun == \A j \in Jobs :
  (j \in Waiting /\ TimeLeft(TimerOf(j)) <= 0) ~> j \in running
=============================================================================
