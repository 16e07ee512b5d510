---------------------------- MODULE ChargeManager ----------------------------
(***************************************************************************)
(* Load management: one manager shares the available current between       *)
(* charge boxes (modules/charge_manager, modules/cm_networking, and the    *)
(* box's side in modules/ac011k/ac011evse_v2.cpp).  Every second the       *)
(* manager tells a box its allocation and the box reports what it has      *)
(* taken; every 10 s (a cycle) the manager distributes anew.  Packets and  *)
(* reports get lost; a delayed one is dropped by its sequence number.      *)
(* Time is counted in cycles.                                              *)
(***************************************************************************)
EXTENDS Integers, FiniteSets, Sequences, SequencesExt

CONSTANTS
  Boxes,
  Supported,   \* [Boxes -> Nat], what the cable and the other slots of a box allow
  Minimum,     \* minimum_current
  Availables,  \* the currents charge_manager/available_current_update sets
  MaxSilence   \* the cycles that fit into 30 s

ASSUME ManagerAssumption ==
  /\ IsFiniteSet(Boxes)
  /\ Supported \in [Boxes -> Nat]
  /\ Minimum \in Nat \ {0}
  /\ Availables \subseteq Nat
  /\ MaxSilence \in Nat \ {0}

VARIABLES
  available,  \* charge_manager_available_current
  record,     \* what the manager knows of each box: demand and allowed_current
  allocated,  \* allocated_current of each box
  order,      \* idx_array
  vehicle,    \* at each box
  current,    \* the charge manager's slot of each box
  unreported, \* cycles without a report, for the manager
  unheard     \* cycles without a packet, for the box

managerVars == <<available, record, allocated, order>>
boxVars == <<vehicle, current>>
contactVars == <<unreported, unheard>>
vars == <<managerVars, boxVars, contactVars>>

Init ==
  /\ available \in Availables  \* default_available_current
  /\ record = [b \in Boxes |-> [demand |-> "none", allowed |-> 0]]
  /\ allocated = [b \in Boxes |-> 0]
  /\ order \in SetToSeqs(Boxes)
  /\ vehicle = [b \in Boxes |-> "none"]
  /\ current = [b \in Boxes |-> 0]
  /\ unreported = [b \in Boxes |-> 1] /\ unheard = [b \in Boxes |-> 1]

---------------------------------------------------------------------------
(* The distribution: pure functions of a ranking of the boxes.             *)

\* std::stable_sort by a number.
Precedes(o, b, c) == \E h, k \in DOMAIN o : h < k /\ o[h] = b /\ o[k] = c
Before(o, key, b, c) == key[b] < key[c] \/ (key[b] = key[c] /\ Precedes(o, b, c))
Sorted(o, key) ==
  CHOOSE p \in SetToSeqs(Boxes) : \A i, j \in DOMAIN p : i < j => Before(o, key, p[i], p[j])

\* Variant: only the first of the two sorts.
RankedBySupport(o, demand) == Sorted(o, Supported)
\* Two stable sorts: by supported current, then those that charge first.
Ranked(o, demand) ==
  Sorted(Sorted(o, Supported), [b \in Boxes |-> IF demand[b] = "charging" THEN 0 ELSE 1])

Asks(demand, b) == demand[b] \in {"wants", "charging"} /\ Supported[b] >= Minimum
AsksAgain(demand, b) == demand[b] = "low" /\ Supported[b] >= Minimum

Nothing == [b \in Boxes |-> 0]

\* The minimum for each box that asks; once it is not there, nothing more.
MinimumTo(s, b) ==
  IF s.step > s.left
  THEN [s EXCEPT !.step = 0]
  ELSE [s EXCEPT !.left = @ - s.step, !.target[b] = s.step]
WithMinimum(split, o, asking) ==
  LET after[i \in 0..Len(o)] ==
        IF i = 0 THEN [step |-> Minimum, left |-> split.left, target |-> split.target]
        ELSE IF o[i] \in asking THEN MinimumTo(after[i - 1], o[i]) ELSE after[i - 1]
  IN  after[Len(o)]

\* The rest in equal shares, as far as each box supports it.
ShareTo(s, b) ==
  LET add == Min({Supported[b] - s.target[b], s.left \div s.waiting})
  IN  [waiting |-> s.waiting - 1, left |-> s.left - add,
       target |-> [s.target EXCEPT ![b] = @ + add]]
WithRest(split, o) ==
  LET served == {b \in Boxes : split.target[b] > 0}
      after[i \in 0..Len(o)] ==
        IF i = 0
        THEN [waiting |-> Cardinality(served), left |-> split.left, target |-> split.target]
        ELSE IF o[i] \in served THEN ShareTo(after[i - 1], o[i]) ELSE after[i - 1]
  IN  after[Len(o)]

\* distribute_current, up to "Apply current limits": the targets.
Split(o, demand, amount) ==
  LET first  == WithMinimum([left |-> amount, target |-> Nothing], o,
                            {b \in Boxes : Asks(demand, b)})
      second == WithRest(first, o)
      third  == WithMinimum(second, o, {b \in Boxes : AsksAgain(demand, b)})
  IN  third.target

Demand == [b \in Boxes |-> record[b].demand]

---------------------------------------------------------------------------
(* The manager.                                                            *)

\* Stage 1 lowers (or corrects) boxes above their target; stage 2 raises the
\* others only if stage 1 had nothing to do.
\* Variant: what the box has reported is not looked at.
AboveItsAllocation(target, b) == target[b] < allocated[b]
Throttles(target, b) == target[b] < allocated[b] \/ target[b] < record[b].allowed

Applied(target) ==
  LET throttled == {b \in Boxes : Throttles(target, b)}
  IN  IF throttled # {}
      THEN [b \in Boxes |-> IF b \in throttled THEN target[b] ELSE allocated[b]]
      ELSE target

\* TIMEOUT_MS, 32 s without a report, ends in this cycle or has ended.
MayBeSilent == {b \in Boxes : unreported[b] >= MaxSilence}
IsSilent == {b \in Boxes : unreported[b] > MaxSilence}
\* A box that has not taken its throttled allocation (for 32 s).
MayBeUnreactive == {b \in Boxes : allocated[b] < record[b].allowed}

\* One box that is lost stops them all.
Usable(lost) == IF lost = {} THEN available ELSE 0

Older(n) == IF n <= MaxSilence THEN n + 1 ELSE n

\* distribute_current, the end of a cycle.
Distribute(silent, unreactive) ==
  LET o      == Ranked(order, Demand)
      target == Split(o, Demand, Usable(silent \cup unreactive))
  IN  /\ IsSilent \subseteq silent /\ silent \subseteq MayBeSilent
      /\ unreactive \subseteq MayBeUnreactive
      /\ unreported' = [b \in Boxes |-> Older(unreported[b])]
      /\ unheard' = [b \in Boxes |-> Older(unheard[b])]
      /\ UNCHANGED <<available, record, boxVars>>
      /\ order' = o
      /\ allocated' = Applied(target)

\* charge_manager/available_current_update, or its watchdog.
UpdateAvailable(a) ==
  /\ available' = a
  /\ UNCHANGED <<record, allocated, order, boxVars, contactVars>>

---------------------------------------------------------------------------
(* The box's controller: no charging without current.                      *)

\* Variant: a vehicle goes on charging.
StillCharging(v, c) == v
VehicleUnder(v, c) == IF v = "charging" /\ c = 0 THEN "paused" ELSE v

---------------------------------------------------------------------------
(* A packet to a box, and its report back; both may be lost.               *)

\* register_client, set_managed_current.
TakePacket(b) ==
  /\ current' = [current EXCEPT ![b] = allocated[b]]
  /\ vehicle' = [vehicle EXCEPT ![b] = VehicleUnder(@, allocated[b])]
  /\ unheard' = [unheard EXCEPT ![b] = 0]
  /\ UNCHANGED <<managerVars, unreported>>

\* The manager's callback: a vehicle that has charged and is only blocked by
\* the manager has low priority.
DemandOf(b) ==
  CASE vehicle[b] = "none"     -> "none"
    [] vehicle[b] = "charging" -> "charging"
    [] vehicle[b] = "fresh"    -> "wants"
    [] vehicle[b] = "paused"   -> IF current[b] = 0 THEN "low" ELSE "wants"

TakeReport(b) ==
  /\ record' = [record EXCEPT ![b] = [demand |-> DemandOf(b), allowed |-> current[b]]]
  /\ unreported' = [unreported EXCEPT ![b] = 0]
  /\ UNCHANGED <<available, allocated, order, boxVars, unheard>>

---------------------------------------------------------------------------
(* The box.                                                                *)

\* Variant: a running charge is not interrupted.
WatchdogOfIdleBox(b) ==
  /\ unheard[b] >= MaxSilence /\ vehicle[b] # "charging"
  /\ current' = [current EXCEPT ![b] = 0]
  /\ UNCHANGED <<managerVars, vehicle, contactVars>>

\* No packet for 30 s: no current.
BoxWatchdog(b) ==
  /\ unheard[b] >= MaxSilence
  /\ current' = [current EXCEPT ![b] = 0]
  /\ vehicle' = [vehicle EXCEPT ![b] = VehicleUnder(@, 0)]
  /\ UNCHANGED <<managerVars, contactVars>>

VehicleActs(b, v) ==
  /\ \/ vehicle[b] = "none" /\ v = "fresh"
     \/ vehicle[b] \in {"fresh", "paused"} /\ current[b] > 0 /\ v = "charging"
     \/ vehicle[b] = "charging" /\ v = "paused"
     \/ vehicle[b] # "none" /\ v = "none"
  /\ vehicle' = [vehicle EXCEPT ![b] = v]
  /\ UNCHANGED <<managerVars, current, contactVars>>

---------------------------------------------------------------------------
Cycle == \E silent, unreactive \in SUBSET Boxes : Distribute(silent, unreactive)

Next ==
  \/ Cycle
  \/ \E a \in Availables : UpdateAvailable(a)
  \/ \E b \in Boxes :
       \/ TakePacket(b) \/ TakeReport(b) \/ BoxWatchdog(b)
       \/ \E v \in {"none", "fresh", "charging", "paused"} : VehicleActs(b, v)

Spec == Init /\ [][Next]_vars

\* Only the end of a cycle makes a box older or changes an allocation.
CycleEnds ==
  \/ allocated' # allocated
  \/ \E b \in Boxes : unreported'[b] > unreported[b] \/ unheard'[b] > unheard[b]
CycleIsDue ==
  \E b \in Boxes :
    unreported[b] <= MaxSilence \/ unheard[b] <= MaxSilence \/ allocated[b] > 0

\* The manager's task comes round: WF_vars(Cycle), without asking TLC whether a
\* distribution is enabled.  The watchdog of each box comes round.  Nothing is
\* said of packets and reports: they may all be lost.
FairSpec ==
  /\ Spec /\ ([]<>~CycleIsDue \/ []<><<CycleEnds>>_vars)
  /\ \A b \in Boxes : WF_vars(BoxWatchdog(b))

---------------------------------------------------------------------------
(* Properties.                                                             *)

Total(f) == FoldFunction(LAMBDA x, y : x + y, 0, f)

TypeOK ==
  /\ available \in Availables
  /\ record \in [Boxes -> [demand : {"none", "low", "wants", "charging"}, allowed : Nat]]
  /\ allocated \in [Boxes -> Nat] /\ current \in [Boxes -> Nat]
  /\ \A b \in Boxes : /\ allocated[b] <= Supported[b] /\ current[b] <= Supported[b]
                      /\ record[b].allowed <= Supported[b]
  /\ order \in SetToSeqs(Boxes)
  /\ vehicle \in [Boxes -> {"none", "fresh", "charging", "paused"}]
  /\ \A b \in Boxes : vehicle[b] = "charging" => current[b] > 0
  /\ unreported \in [Boxes -> 0..MaxSilence + 1]
  /\ unheard \in [Boxes -> 0..MaxSilence + 1]

\* The split of any demand fits, gives a box nothing or what it can use, and
\* serves no box of a lower rank (charging, wanting, low priority) while one of
\* a higher rank that could use it gets nothing (distribute_current).
Rank(demand) == CASE demand = "charging" -> 3 [] demand = "wants" -> 2
                  [] demand = "low" -> 1 [] OTHER -> 0
SplitIsFair ==
  LET target == Split(Ranked(order, Demand), Demand, available)
  IN  /\ Total(target) <= available
      /\ \A b \in Boxes :
           target[b] # 0 =>
             /\ Rank(Demand[b]) > 0 /\ target[b] \in Minimum..Supported[b]
             /\ \A c \in Boxes : Rank(Demand[c]) > Rank(Demand[b]) /\ Supported[c] >= Minimum
                  => target[c] # 0

\* A box that the manager's record may understate has been reached, or has
\* been heard of, since the last cycle.
Contact(b) == unreported[b] = 0 \/ unheard[b] = 0 \/ current[b] <= record[b].allowed

\* "Skip this stage if even one charger needs to be throttled to be sure that
\* the available current is never exceeded": when a box is raised above what it
\* has reported and all are in contact, what every box still has, or is about to
\* take, fits.  It says nothing of a raise while some box is out of contact.
Raised == \E b \in Boxes :
  allocated'[b] > allocated[b] /\ allocated'[b] >= record[b].allowed
RaiseFits ==
  [][Raised /\ (\A b \in Boxes : Contact(b)) =>
       Total([b \in Boxes |-> Max({current[b], allocated'[b]})]) <= available]_vars

\* A box that is not heard of any more stops all of them: itself too, though no
\* packet may ever reach it again, and it may draw what it was last allowed.
LostBoxStopsAll ==
  \A b \in Boxes :
    <>[](unreported[b] > 0) => <>[](\A c \in Boxes : allocated[c] = 0 /\ current[c] = 0)
=============================================================================
