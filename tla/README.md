# Verification of the AC011K phase switch and the firmware around it

TLA+ models of the core of this repository: the firmware of the ESP32 in an
AC011K-AE-25 wallbox that switches a charging vehicle between one and three
phases and follows power targets (`src/software/src/modules/ac011k/ac011k.cpp`),
and of the parts of the WARP firmware it runs in whose behaviour over time is
their own: web sockets, task scheduler, load management, charge log and users.
TLC checks small instances, TLAPS proves what matters for every instance.
Line numbers without a file are those of `ac011k.cpp`; the other files are in
`src/software/src/` and its `modules/`.

## The system

The ESP32 talks to the GD32 microcontroller of the wallbox over a serial line
(PrivComm frames). The GD32 drives the contactors and the control pilot (CP); a
patch of its firmware makes the start mode "minPower" close the contactors for
one phase only. Clients (web interface, MQTT, Home Assistant) send commands
through the API of the ESP32 and get its states over web sockets.

| part | state | operations | interacts with |
|---|---|---|---|
| phase switch | stage, target, requested and commanded phases, CP proof, restart attempts, readback and close marker, pending verification | `request_phase_switch`, `process_phase_switch` (every 250 ms), `finish_phase_switch`, `validate_physical_phase_count`, frames 0x02, 0x03, 0x04, 0x08, 0x0A/0x09, 0x0D, 0x0E | GD32 (commands, frames), power manager, slot machine |
| power manager | active, dirty, power, rounding mode, applied current | `request_power_target`, `process_power_manager`, `calculate_power_target`, rounding update | phase switch, external slot |
| slot machine | twelve current limits, the last minimum, the last IEC state | `evse_slot_machine` (every 250 ms), slot commands | GD32 (start, stop, limit), users, charge manager, Modbus, OCPP |
| GD32, contactors, vehicle | start mode byte, offer, fault, relay, CP state | answers, status and current reports | ESP32 |
| GD firmware update, relay diagnostic | boot, erase, chunk and verify steps; one pending diagnostic | reflash URL, frame 0x0B | GD32 |
| task scheduler | a heap of tasks with 32-bit deadlines, one mutex | `scheduleOnce`, `scheduleWithFixedDelay`, `loop` | every periodic part; called by two threads |
| API | states, commands, files in flash | command, state update, `writeConfig`, `restorePersistentConfig` | everything |
| web sockets | sessions, list of watched clients, queue of messages, the worker | broadcast, ping, check of the clients, greeting, worker | main loop and HTTP thread |
| charge manager and its protocol | current per box, the last report of each, sequence numbers | distribution (every 10 s), packets, watchdogs | other boxes over UDP |
| charge tracker, users, NFC | charge records in flash, users, file of names, the slot info | start and stop of a charge, record rotation, users/add, remove, modify | slot machine, API |
| meter, value history | live values, ring buffers | update, history tick | charge tracker, web interface |

`PROJECT.json` lists every component, modelled or not, with the reason.

### What is hard

The handlers of the ESP32 run on one main loop and are atomic to each other;
the HTTP server is a second thread that overwrites the argument of a command
before its callback runs, accepts clients and sends. The difficulties:

* ordering: frames, commands and the 250 ms task interleave in any order; an
  answer of the GD is attributed by what is pending, not by a sequence number;
* stale state: the GD status and the CP sample are seconds old when used, the
  report of a box up to 30 s, a descriptor may have been reused;
* loss and retries: frames, UDP packets and the control packet that starts the
  web socket worker are lost; restarts are tried three times;
* crashes: either controller restarts in any state, the power is cut between any
  two writes to flash;
* replacement: power targets change while a switch for the older one runs;
* threads: two mutexes and four places that need both;
* edges: `millis()` overflows, the IDs of users come round, files are full.

The correctness of the parts: the mode is changed only with open contactors,
`commanded_phases` is the mode of the GD, a switch ends unless the vehicle goes
back to drawing power over and over, charging restarts only in an acknowledged
mode and a bounded number of times, a settled power manager has applied the last
target, the search for phases and current is the best and a stable one; every
message buffer has one owner and every open socket is watched; tasks run when
due, in the order of their time; boxes together stay within the available
current and a lost box stops all; the log can be read after a power cut at any
write but those that remove all charges, and names the right user, whose charge
nobody else ends. `PROJECT.json` ("hazards") names the lines where each of these
could go wrong and the property that would show it.

## Modules

| module | models |
|---|---|
| `PhaseSwitch` | the ESP32 side with an *open* GD: any frame may arrive at any time |
| `PhaseSwitchSystem` | `PhaseSwitch` with the patched GD32, contactors, vehicle, serial line, faults |
| `PhaseRelay` | the abstract specification: what the power path is promised |
| `PowerTarget` | `calculate_power_target`, candidate by candidate, and its reference |
| `WebSockets` | `web_sockets.cpp`: two threads, lock by lock |
| `TaskScheduler` | `task_scheduler.cpp`: wrapping deadlines in the binary heap of the C++ library |
| `TimerQueue` | the abstract specification of the scheduler: a set of timers in real time |
| `ChargeManager` | `charge_manager.cpp`, `cm_networking.cpp` and the box's side in `ac011evse_v2.cpp` |
| `ChargeLog` | `charge_tracker.cpp`, `users.cpp`, `writeConfig` of `api.cpp`, write by write |
| `PhaseSwitchProofs`, `PhaseSwitchSystemProofs`, `PowerTargetProofs`, `WebSocketsProofs`, `TaskSchedulerProofs`, `ChargeManagerProofs`, `ChargeLogProofs`, `ChargeAccountProofs` | the theorems |
| `MC...` | the values TLC gives to constants |

`PhaseSwitchSystem` composes the controller with its surroundings. The other
modules stand alone: the parts they model meet the phase switch only in values
that `PhaseSwitch` leaves open (the minimum of the other slots, the order of
tasks, the time between two runs of one).

### How `PhaseSwitch` corresponds to the code

| variable | code |
|---|---|
| `stage`, `target`, `attempts`, `cpSafe`, `resume` | `phase_switch_stage`, `phase_switch_target`, `restart_attempts`, `phase_switch_cp_safe`, `resume_after_phase_switch` |
| `requested`, `commanded`, `verified` | `requested_phases`, `commanded_phases`, `physically_verified` of `evse/phase_switch` |
| `verifyPending` | `physical_phase_verification_pending` |
| `getReason` | `gd_start_power_get_pending` and `..._reason`: none, 1 ("profile"), 2 ("marker") |
| `markerQuery`, `markerOk` | `gd_close_marker_query_sent`, `gd_close_marker_verified` |
| `pmActive`, `pmDirty`, `power`, `applied` | `power_target_control_active`, `power_target_dirty`, `requested_power_w`, `applied_current_ma` |
| `rounding`, `newRounding` | `power_manager_config`, and whether its callback is still to run |
| `ext`, `other`, `allowed`, `lastIec` | external slot, minimum of the other active slots, `allowed_charging_current`, `last_iec61851_state` |
| `gdSeen`, `loaded` | last GD status; some phase above 0.5 A in the last 0x08 |
| `initialized`, `fwUpdate` | `initialized`, `firmware_update_running` |
| `pc` | which half of `update_all_data` runs next |
| `sent` | the commands sent by the last step (an observation) |

An action is a handler. `UpdateCurrents` is the first half of `update_all_data`
(slot machine, then power manager), `ProcessPhaseSwitch` the second half, with
one disjunct for each way through `process_phase_switch`. The halves are
separate steps because an API thread may write between them; the frames and
callbacks of the main loop are excluded by `pc`. The upkeep of the readback
(lines 1029-1069), done before the stages, is part of every disjunct that gets
that far (`InStages`, `Upkeep`).

Abstractions:

* **Time.** A task run sees an arbitrary subset of the deadlines it looks at as
  expired (`Running`, `expired`). This includes every real timing and some that
  cannot happen, so safety is not at risk. The 250 ms between two marker queries
  are the period of the task. The modular arithmetic of `deadline_elapsed` and
  the wrap of `millis()` are not modelled.
* **Currents** are whole amperes; 32 stands for no limit. The current carried by
  the profile frame is not modelled.
* **The board.** `phase_switch_supported` is `initialized`: the paired board and
  firmware, the only one the code switches. The change of the PrivComm address
  (line 1905) belongs to other firmware.
* **GD states** 1, {2,6}, 3, {4,5}, {7,8,9} are told apart, as in
  `update_evseStatus`; other status bytes are not sent by this GD.
* **Commands.** Two commands in quick succession run both callbacks with the
  second argument. `RequestPhases`, `RequestPower` and `SetSlots` read their
  argument and act in one step, which is the same as that argument sent twice.
  The rounding mode is not: it is live when written, so `WriteRounding` and its
  callback `RoundingWritten` are two actions.
* **Firmware update.** Only that it runs. The check that no vehicle is plugged in
  is made 2 s before the update begins, so the model requires nothing then.
* **ESP restart.** The slots come back as last saved (`SavedCurrents`),
  `default_phases` and a rounding mode being written as any of the values.

### `PhaseSwitchSystem`

The commands the ESP sends in a step reach the GD in the same step (or, with
"loss", any subset of them); the answers wait in `wire`, at most `MaxWire`, and a
step that would overflow it is not taken: the receive buffer of 1024 bytes is
never filled by answers to commands that are sent one at a time, and two waiting
answers are enough for an answer of an earlier switch to meet the next one (how
far the theorems go beyond two is said with them).
Status, current and CP reports are of the moment they are read. `gdMode`,
`gdHandler` and `gdHook` are bits 0, 0x20 and 0x40 of the patched mode byte; the
mode handler and the close hook are translated from the assembly in
`src/extras/ac011k-phase-switch/tools/build_gd_selectable_1p_3p_1_2_460.py`. The
rest of the GD and the vehicle are external: a stop withdraws the offer, the
contactors follow the offer, the vehicle and the absence of a fault, and a
vehicle takes the offer and lets go of it when it likes.

`Faults` chooses what may go wrong: loss on the serial line, unplugging,
replugging, a vehicle (simulator) that asks without an offer, reports older than
the off delay, GD faults, restarts of either controller. **ReportsHold** is the
one assumption about the environment: without "lateReports" the last status and
CP reports still hold when the mode command is sent, because they come at every
change and every few seconds and the off delay is longer. Where it is not
assumed, contactors may close unseen: `v_race` shows it.

`PhaseRelay` has three variables (mode, relay, believed phases) and says: the
mode is selected while the contactors are open, they close with the selected
mode, the belief becomes the selected mode. A controller that boots selects three
phases without asking, as `configure_gd` does on every boot.
`ImplementsPhaseRelay` is the refinement `mode <- gdMode, relay <- relay,
believed <- commanded`.

### `WebSockets`

| variable | code |
|---|---|
| `session` | what `httpd_ws_get_fd_info` says of a descriptor: invalid, HTTP, web socket |
| `keepAlive`, `keepAliveLock` | `keep_alive_fds`, `keep_alive_mutex` |
| `queue`, `queueLock` | `work_queue`, `work_queue_mutex` |
| `allocated` | payload buffers between `malloc` and `free` |
| `workerActive`, `overdue` | `worker_active`, and whether `last_worker_run` is 20 s ago |
| `pending` | control packets of `httpd_queue_work` on their way |
| `main`, `http` | program counter and locals of the main loop and the HTTP thread |

A critical section is one step; between two of them the other thread runs.
`checkActiveClients` and `updateDebugState` hold one mutex while they wait for
the other, so they are several steps with the lock held. The thread of
`updateDebugState` is in `DebugNext` only. The age of the last pong is not kept:
any client may be taken for dead at any check. Contents of messages, the size of
a frame and the plain HTTP requests are left out.

### `TaskScheduler` and `TimerQueue`

`clock` is `millis()` modulo `W`, `tasks` the vector of the priority queue,
`running` the task popped by `loop`. `Pushed` and `Popped` are `std::push_heap`
and `std::pop_heap` of libstdc++ (external), because whether a heap that was
built with one comparison survives another one depends on how it is changed.
`compare` and `deadline_elapsed` are translated with their modular arithmetic.
Time passes in `Tick`, also between the pop and the push of a task; how late the
main loop may be is bounded by `MaxLate`. **Punctual** is an assumption: no task
is late in the millisecond in which the clock leaves a half of its range.

`TimerQueue` knows no clock and no heap: each waiting job has a time left that
every tick lowers by one; the job with the least time left runs, none early.
`ImplementsTimers` is the refinement `left <- TimeLeft`, the signed distance of
the deadline from the clock.

### `ChargeManager`

| variable | code |
|---|---|
| `available`, `allocated`, `order` | `charge_manager_available_current`, `allocated_current` of each box, `idx_array` |
| `record` | of a box's last report: what it asks for (from `wants_to_charge`, `wants_to_charge_low_priority`, `is_charging`) and `allowed_current` |
| `current`, `vehicle` | the charge manager's slot of the box; its vehicle |
| `unreported`, `unheard` | cycles since the last report for the manager, since the last packet for the box |

Time is counted in distribution cycles (10 s); `MaxSilence` is the cycles that
fit into the 30 s of both timeouts, which end within the same cycle in any
order. `Split` is `distribute_current` up to the targets, with its three passes;
`Applied` the two stages that lower first. The available current may change at
any time, which is also what its watchdog does. A packet takes the allocation of
the moment, a report the box of the moment: those that come later are dropped by
their sequence numbers. Packets and reports may all be lost, also for ever.
**Contact** is a condition of `RaiseFits` alone: it says nothing of a raise while
some box was neither heard nor reached since the last cycle and the manager's
record understates it. Error codes of incompatible boxes, the stale uptime and name resolution are not
modelled.

### `ChargeLog`

| variable | code |
|---|---|
| `files`, `removed` | the record files of `charge_tracker.cpp`, oldest first, and which of them `remove_directory` has unlinked |
| `names`, `stored` | `/users/all_usernames`, `users/config` in flash |
| `config`, `slot` | `user_config` with `next_user_id`, the user slot info |
| `todo` | the writes the main thread has still to do in this handler |
| `request` | a command checked on the HTTP thread, its callback not finished (`user_api_blocked`) |
| `charger`, `last` | `charger_state`, `last_charger_state` of the task in `Users::setup` |
| `userSlot`, `plugged` | the user slot, the cable |

A handler of the main thread puts its writes into `todo`, and each is a step
(`UnlinkConfig`, `RenameConfig`, `WriteName`, ..., `WriteEnd`), because a power
cut may come before any of them (`PowerCut`, at most `MaxCuts`) and the HTTP
thread checks commands between them. To remove all charges, the files go one by
one in any order (`RemoveFile`; the order of the directory is that of the file
system), then the directory (`Wipe`) and the names. A boot looks at the files
that are left: without a gap they are the log (`Found`); with one
(`~Consecutive`) `setupRecords` refuses it, and the model follows that box only
to its next restart. Otherwise it restores the configuration, rebuilds the file
of names if it is missing, and ends a charge that was tracked. A write
itself is atomic: the file system is a log. Each record keeps the person it was
charged to, which is not in the file; only `ChargesKeepTheirName` looks at it.
Passwords, meter values, times and the reading back of records are left out.
**Unhurried** and **Sturdy** are assumptions: the plug is not pulled before the
task, once a second, has seen the last change; and the power is not cut before
the writes named in `Sturdy` (the entry of a name).

## Runs

| run | instance | properties | shows |
|---|---|---|---|
| `esp` | requests 1 and 2, 0 W and 3910 W, rounding up and down (3p/6 A and 1p/16 A), limits 0 and none, three GD states, ESP restarts | `TypeOK`, `SwitchFollowsRequest`, `RestartsAcknowledgedMode`, `SettledOnTarget` | a running switch keeps to its request; restarts are acknowledged and at most three; what is not pending is the last target |
| `power_search` | every power where a choice can change (multiples of 115 W and neighbours, 0 to 11040 W), three rounding modes | `TypeOK`, `ChoiceIsBest`, `ChoiceIsStable` | the search is the best or saturates; the choice survives the switch it causes |
| `sys_loss` | lost commands and answers, GD faults | `CloseMarkerIsFresh`, `ImplementsPhaseRelay` | stale and missing answers are harmless; a release is proven anew for each switch |
| `sys_restart` | ESP restarts, firmware updates, currents, unplugging, state C on its own | `SystemTypeOK`, `ImplementsPhaseRelay` | neither a restart nor an unplugged cable breaks the promise |
| `sys_live` | load reports, late reports, GD restarts, unplugging, state C on its own | `SwitchEnds` | a switch ends, unless the vehicle goes back to state C while it waits for the contactors, over and over |
| `sys_power` | one power target, rounding writes, late reports, a vehicle plugged in | `TargetSettles` | a target that is not replaced settles |
| `web_sockets` | two descriptors, one slot, one buffer, a queue of two | `TypeOK`, `EveryBufferHasOneOwner`, `OpenSocketIsWatched`, `BuffersReturn` | no buffer leaks or is freed twice, no socket is forgotten, every buffer returns |
| `task_scheduler` | two repeated and two single tasks, a clock of 14 values that overflows for ever, up to 2 ms late | `TypeOK`, `ImplementsTimers`, `DueTasksRun` | the heap is a queue of timers in real time; every task runs |
| `charge_manager` | two boxes, one that can use the minimum and one twice that; enough for one or for both | `TypeOK`, `SplitIsFair`, `RaiseFits`, `LostBoxStopsAll` | boxes are raised only within what is available; a lost box stops all, also if no packet reaches it any more |
| `charge_log` | two persons, two IDs, three files of one record, a power cut | `TypeOK`, `LogBoots`, `ChargesKeepTheirName`, `OwnerMayStop`, `GoneVehicleIsLogged` | the log survives a cut at any write, except in the removal of all charges; charges keep their user and end |

Why the bounds are enough. *Phase switch:* two phase counts, two powers and one
value of each limit, because the code compares them only with each other, with 0
and with 6 A; `MaxWire` is 2, one answer of an earlier switch and one of this
one. `ImplementsPhaseRelay` is checked under two sets of faults, as all of them
at once exceed what TLC finishes; the proof below has no such bound. *Web
sockets:* with one slot and two descriptors the list is full, a descriptor is
reused and a second client refused; with one buffer a leak stops everything. The
theorems have no bound. `SwitchEnds` is checked for the switch to one phase, which
takes every stage and waits for the close marker too, and one current above 6 A,
without which the switch ends before its restarts. *Scheduler:* four tasks make a heap of three levels, and
delays of 1, 2 and 3 with a lateness of 2 stay below half of 14, as those of the
code stay below half of 2^32. *Charge manager:* two boxes compete for the
minimum, and one of them for the rest; more boxes only lengthen the lists.
*Charge log:* IDs come round after two, the oldest file is dropped in the fourth
charge, three files are the fewest that can be left with a gap, and a file of one
record is full and not full like any other. The second cut would only repeat the
boot that the first one needs (two cuts hold too, in four minutes).

All runs check for deadlock except `power_search`, which ends.

### Runs that find a disagreement

| run | the code | what is said |
|---|---|---|
| `v_race` | the plug-in edge (1446-1449) starts charging in the off delay, as the slot machine does not look at the stage; the contactors close and the last report and CP sample, from before, still allow the mode command | 1173, logged with the command: "Contactors are load-free; applying %u-phase start mode"; 1109: "fresh raw CP sample in state B before changing the relay mode" |
| `v_mutex` | `checkActiveClients` (`web_sockets.cpp` 326, 257) and `updateDebugState` (509-510) take two mutexes in opposite orders and wait for each other for ever | `web_sockets.cpp` 401: "Copy over to not hold both mutexes at the same time." |

The trace of `v_race`: a box with a stored default of one phase boots with the
vehicle plugged in. The switch starts before any status of the GD has come, so
that STOPPING takes the vehicle for unplugged. In OFF_DELAY the first status
(state B) and a CP sample (state B) arrive, the slot machine sees an edge from A
to B and starts, the vehicle takes the offer, the GD closes for three phases, and
the mode of one phase is sent. TLC's shortest trace has the start and the closing
between the two halves of one task run; what it needs is that the contactors
close after the last sample. That it needs a report older than that (or an ESP
restart) is the theorem `ContactorsFollowMode`. `v_mutex` needs somebody who opens the
debug page in the millisecond of a check.

### Deviations

What the models showed beyond that, without a run of its own. Where a constant
is named, setting it makes TLC produce the counterexample.

| where | what happens | to reproduce |
|---|---|---|
| 1209 | `RESTART_PAUSE` starts again although the target has become 0 W ("Do not close the contactors for an intermediate or obsolete target.", 963-964); the stop follows with the next change of the external slot | - |
| 1015, 2404 | an answer read after a fault status and before the next task run still sends the profile or start ("Never send ... commands while the GD reports an unavailable/fault state", 1010-1012); the GD has opened the contactors itself | - |
| 1099, 1217-1255 | a verification left pending by one switch is judged against the target of the next and ends in error 8, which stops charging for no reason | - |
| `task_scheduler.cpp` 48-58 | near the middle and the end of the range of `millis()`, a late task is compared as if it were far in the future: tasks run in the wrong order, or the heap is no heap for a while | `Punctual = FALSE` in `task_scheduler`, `ImplementsTimers` |
| `users.cpp` 671-672 | the configuration with a new user is written before its name; after a power cut in between, the ID counts as free and may be given to somebody else | `Sturdy = {}` in `charge_log`, `ChargesKeepTheirName` |
| `users.cpp` 404 | a charge started by a tag and unplugged within the second between two runs of the task stays open until the next vehicle leaves | `Unhurried = FALSE` in `charge_log`, `GoneVehicleIsLogged` |
| `charge_manager.cpp` 555-566 | stage 2 trusts the last report; if packets and reports of a box that took a larger current are lost for a cycle, the others are raised on top of it | `RaiseFits` without `Contact` |
| `charge_tracker.cpp` 461-466, `tools.cpp` 697-712 | a power cut in the middle of removing all charges may leave record files with a gap; `setupRecords` (297-302) then refuses the log at this boot and all later ones, and the box works without its charge tracker | invariant `~Refused` in `charge_log` |
| 1142-1154 | the off delay goes back to STOPPING as often as the vehicle goes back to state C; neither stage counts it and the deadline of 30 s begins anew | `SwitchEnds` without `Teased` |

Seen while reading, and not the subject of a property: `configure_gd` selects
three phases at a boot whatever the contactors do (1733; `Boot` of `PhaseRelay`
allows it); a rejected request ends a running switch in ERROR (924), and the
request of a failed one stays (1136); `physically_verified` outlives a GD restart
(1217); `Serial2write` loops on "bytes left OR more than 1 s passed" (488); the
acknowledgement of the relay diagnostic is that of a mode (2450); two commands
in quick succession both run with the second argument (`http.cpp` 113); a full
web socket queue is only cleaned from its head (`web_sockets.cpp` 76) and a
message that is dropped is reported as sent (409); tasks of the same millisecond
run in no fixed order (`task_scheduler.cpp` 58); error codes of 192 and above are
never cleared (`charge_manager.cpp` 222), and in shutdown the old allocation goes
on being sent (638); `user_api_blocked` is tested and set without a lock
(`users.cpp` 224).

### Fairness

* `PhaseSwitchSystem`: the task comes round (weak); the task run that sees all
  its deadlines expired, the reading of answers, of the identification or else
  the status, and of CP reports happen again and again (strong, because frames
  are not read between the two halves of the task). No fairness is asked of the
  vehicle, the driver, the client, the contactors or current reports: they may do
  what the faults of the run include, or nothing. What they may do for ever and
  still keep a switch from ending is named in `SwitchEnds` (`Teased`). The meter
  is honest: it reports a load only while the contactors are closed.
* `WebSockets`: both threads go on once they have begun something and get a
  mutex they wait for (FreeRTOS mutexes are given in the order of the waiting);
  the main loop tries again and again to start and to reset the worker; the HTTP
  thread reads its control socket. Every start may be lost: `BuffersReturn` then
  rests on the timeout.
* `TaskScheduler`: the main loop runs a task that is due, and the function of a
  task returns. Tasks scheduled for the same millisecond for ever would keep all
  others from running; `FairSpec` excludes them.
* `ChargeManager`: cycles go on (the 10 s task of the manager, written without
  ENABLED because TLC would enumerate every distribution for it) and the watchdog
  of each box comes round (`ac011evse_v2.cpp` 605-618). Nothing is asked of
  packets and reports.
* `ChargeLog`: the main thread goes on with its writes, comes back to its tasks
  and to the status frames of the GD; clients may send commands for ever. A box
  that has refused its log is not asked to end a charge.

## Proofs

`PhaseSwitchProofs` (an open GD, every value of the constants that satisfies
`ChoiceAssumption` and `InputAssumption`):

* `SwitchIsTyped` and `RestartsAreAcknowledged`: `[]TypeOK` and
  `[]RestartsAcknowledgedMode`. Neither is inductive alone. `attempts \in 0..3`
  is kept by `RestartAgain` only because the pause is entered with fewer than
  three attempts, which is part of `RestartsAcknowledgedMode`; the latter needs
  the types. Their conjunction is the inductive invariant (`TypedRestarts`).
* `SwitchPursuesRequest`: `[]SwitchFollowsRequest`, inductive relative to
  `TypeOK`.
* `PowerTargetSettled`: `[]SettledOnTarget` for every table `Choice` that
  `calculate_power_target` might compute. The argument: the three places that
  clear `pmDirty` have just evaluated the target with the phases in force, and
  every other step keeps the variables it depends on or sets the flag. A switch
  that only applies a current (`StartSwitch`) changes no phases.

`PhaseSwitchSystemProofs` (the closed loop, `SystemAssumption`: the GD reports
any of its states; any `MaxWire`, any choice of inputs):

* `LoopImplementsSwitch`: `SystemSpec => Spec`. Every step of the loop is a step
  of the open controller or leaves it alone, given the types of the waiting
  answers; so the theorems above hold in the loop. `SystemIsTyped` follows.
* `ContactorsFollowMode`: `[]ModeChangesOnlyWhenOpen` without late reports and
  ESP restarts. The invariants: closed contactors mean a vehicle in state C and
  no fault (`ClosedIsLoaded`), and a CP proof that counts is the last sample
  (`ProofIsLast`), because a switch starts without one. At the mode command both
  reports hold (`ReportsHold`), so the contactors cannot be closed. Loss,
  faults, GD restarts and replugging are all allowed.
* `LoopImplementsRelay`: `SystemSpec => ImplementsPhaseRelay` for any length of
  the receive buffer, with commands and answers lost or with restarts of the
  controller (not both: nobody repeats the mode command of a boot), without late
  reports and GD restarts. `ModeInv` is the inductive invariant. Of the answers
  that wait, those behind a readback of the mode now selected are of that mode
  too (`InOrder`), because from one switch to the next the GD changes only from
  the mode believed in to the other. So when the readback for the profile shows
  the wanted mode, the GD has it. An outdated one may still take a *later*
  switch to CONFIRMING, which is harmless only because with two phase counts the
  later switch has the same target. It rests on `SwitchFollowsRequest`.
* `MarkersAreFresh`: `[]CloseMarkerIsFresh` for `MaxWire <= 4` without GD
  restarts, all other faults allowed. `MarkerInv`, relative to `ModeInv`, says
  what may still wait: an outdated readback has an acknowledgement behind it
  (`AckBehind`); none is behind the answer that ends a switch
  (`ProfileIsLast`); so while a mode is verified every readback is of it
  (`VerifiesMode`), and a marker is that of this start (`OneMarked`,
  `ThreeUnmarked`). The bound is the largest one: with five waiting answers and
  lost commands, TLC finds a switch that ends with an outdated readback, and its
  acknowledgement, still to come. The code sends a query again after 1 s and gives
  a switch up after 5 to 30 s, so five answers wait only for a GD that answers
  seconds late; no line of the code excludes that.

`PowerTargetProofs` (every power):

* `SearchTyped`, `SearchFindsBest`, `SearchIsStable`. The loop invariant says that
  `best` is the best of the candidates looked at so far, and for the tie of
  "nearest", that it has the phases in force if an equally near one has. Stability
  follows from `previous` being best for the phases it has itself put in force.

`WebSocketsProofs` (`QueueAssumption`: any finite set of descriptors, any
buffers, clients, length of the queue and number of control packets):

* `WebSocketsTyped`, `BuffersOwned`, `SocketsWatched`: the three invariants of
  the run. Beyond the types the induction needs which program counters of a
  thread may hold a buffer or a descriptor, and for `SocketsWatched` that the
  list has room when a handshake ends, as only the HTTP thread adds to it.

`TaskSchedulerProofs` (`SchedulerAssumption`: any even `W`, so 2^32 too):

* `CompareIsRealTime`: if two tasks belong to the half of the range the clock is
  in or to a later time (`SameHalf`), `compare` is the order of the time left.
  `ScheduledInOrder` and `TickKeepsOrder` show that tasks are so when scheduled
  and stay so under `Punctual`; `ElapsedIsDue` that `deadline_elapsed` is exact.
  The lemmas say how often a deadline can have wrapped (`Distance`, `DueOf`).
* `JobsWaitOnce`: `[]TypeOK`, no job is in the heap twice, running or not.
* `HeapInOrder`: `Spec => []InOrder` under `Punctual`: types, at most one task
  running, every waiting task in the clock's half of the range or a later one and
  late by at most `MaxLate`, and the heap ordered by the time left. Without
  `Punctual` a late task of the half just left would be compared as if it were
  due only after the wrap.
* `SchedulerIsATimerQueue`: `Spec => ImplementsTimers` under `Punctual`: with
  wrapping deadlines in a heap the scheduler does what a set of timers in real
  time does. The task taken is the earliest because it is at the front of an
  ordered heap (`FrontIsFirst`).

Also in `TaskSchedulerProofs` (the heap of the C++ library, a heap of any length, any
comparison that is the order of the time left, `ByTime`):

* `PushedRearranges`, `PoppedRearranges`: push and pop lose and repeat nothing.
* `PushedIsOrdered`, `PoppedIsOrdered`: they give an ordered heap for an ordered
  one, `FrontIsFirst` that nothing in it comes before the first element.
  `SiftUp` and the like are recursive functions; the induction is on an explicit
  set of counterexamples, which is empty as it has no least element.

`ChargeManagerProofs` (`ManagerAssumption`: any finite set of boxes, any available
and minimum currents, supported currents and loss):

* `RankedInOrder`: both stable sorts of `distribute_current` list each box once,
  and in the order of the two comparisons: a sort is the listing of a strict
  total order (`SortedIs`).
* `SplitFits`: what a round allocates is at most what is available, and no box is
  given more than it supports. The loop invariants `MinimumGiven` and `RestGiven`
  say that what the boxes have been given and what is left is what was
  available, and that the first box that finds too little ends the round.
* `BoxesStayInBounds`: `[]TypeOK`, in which allocated, believed and reported
  current are bounded by what a box supports.
* `SplitStaysFair`: `[]SplitIsFair`, from the three above.
* `RaisesFit`: `RaiseFits`, with any loss. A raise is only sent when no box is
  throttled, and then its new current is its target; the sum of the others needs
  `InContact`: a box just reached holds at most its allocation, a box just heard
  at most what it reported or was given. The condition `Contact` of the property
  covers the third case, a box that was neither but is not understated.

`ChargeLogProofs` (`LogAssumption`: any finite set of people, any number of IDs,
records per file, files from two on, active users and power cuts, before any
write, whether the plug is hurried or not):

* `LogIsTyped`, `LogAlwaysBoots`, `OwnerCanStop`: three invariants of the run,
  from one inductive invariant (`Inv`). What they need is what the writes still in
  `todo` promise: a start is the last write, comes after the end of every record
  and behind a pending new file if the last one is full (`StartWaits`); the oldest
  file goes first, and only if there are too many (`RollOverWaits`); after an end
  nothing else touches the log (`EndWaits`); nothing is written between a wipe
  and the restart (`WipeWaits`); files are only missing while a removal goes on or
  after the log was refused (`RemovalWaits`), so that a log with a gap has no other
  cause (`GapsAreMissing`), and what a boot finds without a gap is a stretch of the
  old log, full but for its last file (`FoundIsOrderly`); the slot info has the ID of the open record
  unless its end is pending, as after a boot (`OwnerWaits`); a missing file of
  names is created, or the box restarts, before anything else is written
  (`NamesWait`); and an accepted user fits the table until stored (`UserFits`).
  A save that `remove_from_username_file` puts before the rest disturbs none of
  them (`Rest`).

`ChargeAccountProofs` (the same, and `"name" \in Sturdy`: the power may be cut
before any write but the entry of a name):

* `ChargesAreAttributed`: `[]ChargesKeepTheirName`. Its own inductive invariant
  (`Accounted`, beside `Inv`) relates the users in RAM, the stored users and the
  file of names between any two writes: each user in RAM has the entry of his ID,
  or it is free and its write is pending (`ConfigFits`); so have the stored users,
  but an entry may only be missing while names are being written, which is where
  `Sturdy` is needed (`StoredFits`); the next ID is that of no user and its entry
  is free; an ID about to be freed is that of no user and of no record in a file
  that stays (`FreedAreUnused`); the names go only when the log is empty
  (`WipeComesFirst`); and a command that waits was checked against the users of
  now, as another one is blocked until its last write (`RequestFits`).

The lemmas have one step per action and one sub-step per group of variables.

Every safety property and every refinement of the runs is stated by a theorem.
Only model-checked is liveness (`SwitchEnds`, `TargetSettles`, `BuffersReturn`,
`DueTasksRun`, `LostBoxStopsAll`, `GoneVehicleIsLogged`), which with fairness and
ENABLED is out of the prover's reach. That `Choice` is the function `PowerTarget`
computes is by reading: the instances of `Choice` are entries of its results.

## Not modelled

The relay diagnostic, the steps of a GD firmware update, framing and CRC, time,
RFID and energy frames, the individual slots, the profile's current, the values
of API states and their migrations, mDNS and the error codes of foreign boxes,
the reading back of charge records, and the components listed as `not_modelled`
in `PROJECT.json`. Most of the repository by lines is vendored and generated code
(`bindings/`, `net_arduino_esp32/`), modules of other boards, the web interface
and factory scripts; they are left out for good.

## What is left

* The GD firmware update (boot, erase, write, verify with retries) together with
  the relay diagnostic.
* MQTT as a second writer of commands; the ring buffer of the value history.
