---------------------------- MODULE PhaseSwitch ----------------------------
(***************************************************************************)
(* The ESP32 side of the dynamic 1p/3p phase switch of the AC011K wallbox: *)
(* modules/ac011k/ac011k.cpp.  All of it runs on the Arduino main loop, so *)
(* a handler is one step: an API command, a frame of the GD32, or one of   *)
(* the two halves of the 250 ms task update_all_data (pc sequences them:   *)
(* slot machine and power manager, then the phase-switch state machine).   *)
(*                                                                         *)
(* The GD32 is open here: any frame may arrive at any time, so what holds  *)
(* holds whatever the GD, the vehicle and the serial line do.  Module      *)
(* PhaseSwitchSystem closes the loop with a GD and a vehicle.              *)
(*                                                                         *)
(* Time: a task run sees an arbitrary set of expired deadlines, which      *)
(* includes every real timing.  Currents are in ampere.                    *)
(***************************************************************************)
EXTENDS Integers

CONSTANTS
    ManualRequests,  \* phase counts a client may ask for by hand
    Powers,          \* power targets a client may ask for (W)
    Roundings,       \* values of power_manager_config.rounding_mode
    RoundingWrites,  \* ... those a client may write
    Choice,          \* calculate_power_target: <<power, rounding, commanded>>
                     \*   -> [phases, amps]   (module PowerTarget computes it)
    ExternalCurrents,\* values a client may write to the external slot
    OtherCurrents,   \* values the minimum of the other active slots may take
    FirmwareUpdates, \* BOOLEAN if GD firmware updates happen, {} if not
    OtherClears,     \* does the limiting other slot clear on disconnect?
    GdReports,       \* the GD states that occur
    LoadReports      \* the numbers of loaded phases the meter reports

Phases  == {1, 3}
NoLimit == 32        \* an inactive slot, or one at 32000 mA
Nobody  == 0         \* power target 0 W: no charging

(* GD states 1, {2,6}, 3, {4,5} and {7,8,9}: update_evseStatus tells no    *)
(* others apart.                                                           *)
GdStates == {"available", "preparing", "charging", "suspended", "fault"}

ASSUME ChoiceAssumption ==
    /\ Powers \subseteq Nat
    /\ Choice \in [(Powers \ {Nobody}) \X Roundings \X Phases -> [phases : Phases, amps : 6..16]]
ASSUME InputAssumption ==
    /\ ManualRequests \subseteq Nat
    /\ RoundingWrites \subseteq Roundings
    /\ ExternalCurrents \subseteq 0..NoLimit
    /\ OtherCurrents \subseteq 0..NoLimit
    /\ OtherClears \in BOOLEAN /\ FirmwareUpdates \subseteq BOOLEAN
    /\ GdReports \subseteq GdStates
    /\ LoadReports \subseteq 0..3

VARIABLES
    stage, target, requested, commanded,          \* the switch itself
    cpSafe, resume, attempts,
    verifyPending, verified,                      \* physical verification by currents
    getReason, markerQuery, markerOk,             \* start-mode readback, close marker
    pmActive, pmDirty, power, rounding, applied,  \* power manager
    newRounding,                                  \* rounding written, callback due
    ext, other, allowed, lastIec,                 \* charging slots and slot machine
    gdSeen, loaded,                               \* last status and currents of the GD
    initialized, fwUpdate, pc,
    sent                                          \* commands sent by the last step

switchVars == <<stage, target, requested, commanded, cpSafe, resume, attempts>>
verifyVars == <<verifyPending, verified, getReason, markerQuery, markerOk>>
powerVars  == <<pmActive, pmDirty, power, rounding, applied, newRounding>>
slotVars   == <<ext, other, allowed, lastIec>>
gdVars     == <<gdSeen, loaded>>
modeVars   == <<initialized, fwUpdate, pc>>
vars == <<switchVars, verifyVars, powerVars, slotVars, gdVars, modeVars, sent>>

-----------------------------------------------------------------------------
Stages    == {"idle", "stopping", "offdelay", "applying", "confirming",
              "restarting", "pause", "error"}
Switching == Stages \ {"idle", "error"}
LoadFree  == {"stopping", "offdelay", "applying", "confirming"}
Timers    == {"stage", "readback", "marker", "interval", "meter"}
Commands  == {"start", "stop", "limit", "get", "mode1", "mode3", "profile"}

Iec(g) == CASE g = "available" -> "A"
            [] g = "charging"  -> "C"
            [] g = "fault"     -> "EF"
            [] OTHER           -> "B"

ModeCommand(p) == IF p = 1 THEN "mode1" ELSE "mode3"

(* calculate_power_target for the present request: 0 W keeps the commanded *)
(* phases and allows no current.                                           *)
Goal(c) == IF power = Nobody THEN [phases |-> c, amps |-> 0]
                             ELSE Choice[<<power, rounding, c>>]

AllowedBy(e, o) == IF e < o THEN e ELSE o

SwitchTypes ==
    /\ stage \in Stages
    /\ target \in Phases /\ requested \in Phases /\ commanded \in Phases
    /\ cpSafe \in BOOLEAN /\ resume \in BOOLEAN
    /\ attempts \in 0..3

VerifyTypes ==
    /\ verifyPending \in BOOLEAN /\ verified \in BOOLEAN
    /\ getReason \in {"none", "profile", "marker"}
    /\ markerQuery \in BOOLEAN /\ markerOk \in BOOLEAN

PowerTypes ==
    /\ pmActive \in BOOLEAN /\ pmDirty \in BOOLEAN
    /\ power \in Powers \cup {Nobody} /\ rounding \in Roundings
    /\ applied \in 0..NoLimit /\ newRounding \in BOOLEAN

SlotTypes ==
    /\ ext \in 0..NoLimit /\ other \in 0..NoLimit /\ allowed \in 0..NoLimit
    /\ lastIec \in {"A", "B", "C", "EF"}

GdTypes   == gdSeen \in GdStates /\ loaded \in BOOLEAN
ModeTypes == initialized \in BOOLEAN /\ fwUpdate \in BOOLEAN /\ pc \in {"loop", "switch"}

TypeOK ==
    /\ SwitchTypes /\ VerifyTypes /\ PowerTypes /\ SlotTypes /\ GdTypes /\ ModeTypes
    /\ sent \subseteq Commands

Init ==
    /\ requested \in Phases          \* default_phases, restored from flash
    /\ rounding \in Roundings
    /\ ext = NoLimit /\ other \in OtherCurrents
    /\ stage = "idle" /\ target = 3 /\ commanded = 3
    /\ cpSafe = FALSE /\ resume = FALSE /\ attempts = 0
    /\ verifyPending = FALSE /\ verified = FALSE
    /\ getReason = "none" /\ markerQuery = FALSE /\ markerOk = FALSE
    /\ pmActive = FALSE /\ pmDirty = FALSE /\ power = Nobody /\ applied = 0
    /\ newRounding = FALSE
    /\ allowed = 0 /\ lastIec = "A" /\ gdSeen = "available" /\ loaded = FALSE
    /\ initialized = FALSE /\ fwUpdate = FALSE /\ pc = "loop"
    /\ sent = {}

-----------------------------------------------------------------------------
(* API commands.                                                           *)

(* Variant: any phase count is taken.                                      *)
AnyPhaseCount(p) == TRUE

ValidPhases(p) == p \in Phases

(* evse/phase_switch_update -> request_phase_switch(phases, true).  A phase *)
(* count other than 1 and 3 (error 2), or any request before the GD has    *)
(* identified itself (error 1), ends in the error stage, whatever ran.     *)
RejectRequest(p) ==
    /\ pc = "loop"
    /\ ~ValidPhases(p) \/ ~initialized
    /\ stage' = "error"
    /\ verifyPending' = FALSE
    /\ sent' = {}
    /\ UNCHANGED <<target, requested, commanded, cpSafe, resume, attempts, verified,
                   getReason, markerQuery, markerOk, powerVars, slotVars, gdVars, modeVars>>

(* Variant: the check for a running switch is forgotten.                   *)
RequestAnyTime == TRUE

(* A valid request is only taken while no switch runs (error 3).           *)
MayRequest == stage \notin Switching

RequestPhases(p) ==
    /\ pc = "loop"
    /\ ValidPhases(p) /\ initialized
    /\ MayRequest
    /\ stage' = IF stage = "error" THEN "idle" ELSE stage
    /\ requested' = p
    /\ sent' = {}
    /\ UNCHANGED <<target, commanded, cpSafe, resume, attempts, verifyVars, powerVars,
                   slotVars, gdVars, modeVars>>

(* evse/power_target_update -> request_power_target.                       *)
RequestPower(w) ==
    /\ pc = "loop"
    /\ pmActive' = TRUE /\ pmDirty' = TRUE /\ power' = w
    /\ stage' = IF stage = "error" THEN "idle" ELSE stage
    /\ \/ w = Nobody /\ ext' = 0 /\ applied' = 0 /\ resume' = FALSE
       \/ w # Nobody /\ UNCHANGED <<ext, applied, resume>>
    /\ sent' = {}
    /\ UNCHANGED <<target, requested, commanded, cpSafe, attempts, verifyVars, rounding,
                   newRounding, other, allowed, lastIec, gdVars, modeVars>>

(* evse/power_manager_config_update.  The argument of the command is the   *)
(* configuration itself: the thread of the API client overwrites it, even  *)
(* between the two halves of the task, and only then schedules the callback *)
(* on the main loop.  More writes may be waiting when one is called back.  *)
WriteRounding(r) ==
    /\ rounding' = r
    /\ newRounding' = TRUE
    /\ sent' = {}
    /\ UNCHANGED <<switchVars, verifyVars, pmActive, pmDirty, power, applied, slotVars,
                   gdVars, modeVars>>

RoundingWritten ==
    /\ pc = "loop"
    /\ newRounding /\ newRounding' \in BOOLEAN
    /\ pmDirty' = (pmDirty \/ pmActive)
    /\ sent' = {}
    /\ UNCHANGED <<switchVars, verifyVars, pmActive, power, rounding, applied, slotVars,
                   gdVars, modeVars>>

(* The external slot (evse/external_current_update) and any of the others: *)
(* user, charge manager, button, modbus, OCPP, ...                         *)
SetSlots(e, o) ==
    /\ pc = "loop"
    /\ ext' = e /\ other' = o
    /\ sent' = {}
    /\ UNCHANGED <<switchVars, verifyVars, powerVars, allowed, lastIec, gdVars, modeVars>>

-----------------------------------------------------------------------------
(* The 250 ms task, first half: evse_slot_machine, process_power_manager.  *)

(* Only the reaction to a changed current is deferred during a load-free   *)
(* switch, and only under power control.                                   *)
DeferCurrent == pmActive /\ stage \in LoadFree

SlotCommands(iec, now) ==
    LET changed   == now # allowed /\ ~DeferCurrent
        released  == changed /\ allowed = 0 /\ gdSeen = "preparing"
        plugged   == lastIec = "A" /\ iec = "B" /\ now > 0
        unplugged == lastIec # "A" /\ iec = "A"
    IN  {c \in {"start", "stop", "limit"} :
            \/ c = "start" /\ (plugged \/ released)
            \/ c = "stop"  /\ (unplugged \/ (changed /\ now = 0))
            \/ c = "limit" /\ changed /\ ~released /\ now > 0
                           /\ lastIec # "A" /\ iec \in {"B", "C"}}

SlotMachine ==
    LET iec == Iec(gdSeen)
        o   == IF lastIec # "A" /\ iec = "A" /\ OtherClears THEN 0 ELSE other
        now == AllowedBy(ext, o)
    IN  /\ other' = o
        /\ allowed' = now
        /\ lastIec' = iec
        /\ sent' = SlotCommands(iec, now)

PowerManagerBusy == pmActive /\ pmDirty /\ initialized /\ ~fwUpdate /\ stage = "idle"

ProcessPowerManager ==
    \/ /\ PowerManagerBusy /\ Goal(commanded).phases # commanded
       /\ requested' = Goal(commanded).phases      \* request_phase_switch(phases, false)
       /\ UNCHANGED <<ext, applied, pmDirty>>
    \/ /\ PowerManagerBusy /\ Goal(commanded).phases = commanded
       /\ ext' = Goal(commanded).amps /\ applied' = Goal(commanded).amps
       /\ pmDirty' = FALSE
       /\ UNCHANGED requested
    \/ /\ ~PowerManagerBusy
       /\ UNCHANGED <<requested, ext, applied, pmDirty>>

UpdateCurrents ==
    /\ pc = "loop" /\ pc' = "switch"
    /\ SlotMachine
    /\ ProcessPowerManager
    /\ UNCHANGED <<stage, target, commanded, cpSafe, resume, attempts, verifyVars,
                   pmActive, power, rounding, newRounding, gdVars, initialized, fwUpdate>>

-----------------------------------------------------------------------------
(* The 250 ms task, second half: process_phase_switch.  "expired" is the   *)
(* set of deadlines that have passed when the task runs.                   *)

Listening == initialized /\ ~fwUpdate

InTask ==
    /\ pc = "switch" /\ pc' = "loop"
    /\ UNCHANGED <<pmActive, power, rounding, newRounding, other, allowed, lastIec, gdVars,
                   initialized, fwUpdate>>

SwitchAsleep ==
    /\ InTask
    /\ ~Listening
    /\ sent' = {}
    /\ UNCHANGED <<switchVars, verifyVars, pmDirty, applied, ext>>

(* The guard at the top: nothing is sent while the GD reports a fault.     *)
FaultAbort ==
    /\ InTask
    /\ Listening /\ gdSeen = "fault"
    /\ stage' = IF stage \in Switching THEN "error" ELSE stage
    /\ getReason' = "none" /\ markerQuery' = FALSE /\ verifyPending' = FALSE
    /\ sent' = {}
    /\ UNCHANGED <<target, requested, commanded, cpSafe, resume, attempts, verified,
                   markerOk, pmDirty, applied, ext>>

(* Upkeep of the start-mode readback, done on every run before the stages. *)
(* A marker query that is 1 s old is given up and repeated at once, a      *)
(* profile query is repeated; the 250 ms between two marker queries are    *)
(* the period of the task.                                                 *)
MarkerOutstanding == markerQuery /\ verifyPending /\ ~markerOk
KeptReason(expired) ==
    IF getReason = "marker" /\ "readback" \in expired THEN "none" ELSE getReason
PollMarker(expired) == MarkerOutstanding /\ KeptReason(expired) = "none"
NextReason(expired) == IF PollMarker(expired) THEN "marker" ELSE KeptReason(expired)
Resent(expired) ==
    IF getReason = "profile" /\ "readback" \in expired THEN {"get"} ELSE {}
Gets(expired) == Resent(expired) \cup (IF PollMarker(expired) THEN {"get"} ELSE {})

(* The close hook of a one-phase start was not reached within 25 s.        *)
MarkerTimeout(expired) ==
    /\ InTask
    /\ Listening /\ gdSeen # "fault"
    /\ MarkerOutstanding /\ "marker" \in expired
    /\ stage' = "error" /\ verifyPending' = FALSE
    /\ getReason' = KeptReason(expired)
    /\ sent' = {"stop"} \cup Resent(expired)
    /\ UNCHANGED <<target, requested, commanded, cpSafe, resume, attempts, verified,
                   markerQuery, markerOk, pmDirty, applied, ext>>

(* What every run that reaches the stages has in common: it sends cmds.    *)
InStages(expired, cmds) ==
    /\ InTask
    /\ Listening /\ gdSeen # "fault"
    /\ ~(MarkerOutstanding /\ "marker" \in expired)
    /\ sent' = cmds \cup Gets(expired)

Upkeep(expired) ==
    /\ getReason' = NextReason(expired)
    /\ UNCHANGED <<verified, markerQuery, markerOk>>

RecoverFromError(expired) ==
    /\ stage = "error" /\ requested = commanded
    /\ stage' = "idle"
    /\ InStages(expired, {}) /\ Upkeep(expired)
    /\ UNCHANGED <<target, requested, commanded, cpSafe, resume, attempts, verifyPending,
                   pmDirty, applied, ext>>

(* Variant: the minimum interval is asked of the power manager, and the    *)
(* switches it requests never start.                                       *)
MayStartByHand(expired) ==
    stage = "idle" /\ requested # commanded /\ ~pmActive /\ "interval" \in expired

(* The minimum switch interval only holds back switches asked for by hand. *)
MayStart(expired) ==
    stage = "idle" /\ requested # commanded /\ (pmActive \/ "interval" \in expired)

(* Variant: the proof of an earlier switch is kept.                        *)
CpProofKept == cpSafe

(* The CP proof of an earlier switch is worth nothing.                     *)
CpProofAtStart == FALSE

StartSwitch(expired) ==
    /\ MayStart(expired)
    /\ target' = requested
    /\ resume' = (Iec(gdSeen) # "A" /\ (IF pmActive THEN power # Nobody ELSE allowed >= 6))
    /\ cpSafe' = CpProofAtStart
    /\ stage' = "stopping"
    /\ \/ pmActive /\ ext' = Goal(commanded).amps /\ applied' = Goal(commanded).amps
       \/ ~pmActive /\ UNCHANGED <<ext, applied>>
    /\ InStages(expired, {"stop"}) /\ Upkeep(expired)
    /\ UNCHANGED <<requested, commanded, attempts, verifyPending, pmDirty>>

(* Variant: the status after a stop is taken for the release.              *)
ReleasedByStatus == gdSeen # "charging"

(* The EV has left state C, shown by the pilot or by being unplugged.      *)
Released    == Iec(gdSeen) = "A" \/ cpSafe
StopProven  == gdSeen # "charging" /\ Released

StopConfirmed(expired) ==
    /\ stage = "stopping" /\ StopProven
    /\ stage' = "offdelay"
    /\ InStages(expired, {}) /\ Upkeep(expired)
    /\ UNCHANGED <<target, requested, commanded, cpSafe, resume, attempts, verifyPending,
                   pmDirty, applied, ext>>

(* 30 s without a release, 20 s without an acknowledgement.                *)
StageTimeout(expired) ==
    /\ \/ stage = "stopping" /\ ~StopProven
       \/ stage \in {"applying", "confirming"}
    /\ "stage" \in expired
    /\ stage' = "error" /\ verifyPending' = FALSE
    /\ InStages(expired, {}) /\ Upkeep(expired)
    /\ UNCHANGED <<target, requested, commanded, cpSafe, resume, attempts, pmDirty,
                   applied, ext>>

LoadIsBack == gdSeen = "charging" \/ ~Released

StopAgain(expired) ==
    /\ stage = "offdelay" /\ LoadIsBack
    /\ stage' = "stopping"
    /\ InStages(expired, {"stop"}) /\ Upkeep(expired)
    /\ UNCHANGED <<target, requested, commanded, cpSafe, resume, attempts, verifyPending,
                   pmDirty, applied, ext>>

(* A meter report older than 15 s does not hold the switch back.           *)
LoadFreeLongEnough(expired) == (loaded => "meter" \in expired) /\ "stage" \in expired

(* Variant: the marker of the earlier start is kept.                       *)
MarkerKept == markerOk

(* send_start_power_mode forgets the readback and the marker.              *)
MarkerAfterMode == FALSE

ApplyMode(expired) ==
    /\ stage = "offdelay" /\ ~LoadIsBack /\ LoadFreeLongEnough(expired)
    /\ stage' = "applying"
    /\ getReason' = "none" /\ markerQuery' = FALSE /\ markerOk' = MarkerAfterMode
    /\ InStages(expired, {ModeCommand(target)})
    /\ UNCHANGED <<target, requested, commanded, cpSafe, resume, attempts, verifyPending,
                   verified, pmDirty, applied, ext>>

ChargingResumed(expired) ==
    /\ stage = "restarting" /\ gdSeen = "charging"
    /\ stage' = "idle" /\ resume' = FALSE
    /\ InStages(expired, {}) /\ Upkeep(expired)
    /\ UNCHANGED <<target, requested, commanded, cpSafe, attempts, verifyPending,
                   pmDirty, applied, ext>>

(* Variants: one attempt too many; attempts that are not counted.          *)
OneAttemptMore == 4
Uncounted == 1

MaxAttempts == 3
NextAttempt == attempts + 1

RestartFailed(expired) ==
    /\ stage = "restarting" /\ gdSeen # "charging" /\ "stage" \in expired
    /\ \/ /\ attempts >= MaxAttempts
          /\ stage' = "error" /\ verifyPending' = FALSE
          /\ InStages(expired, {})
       \/ /\ attempts < MaxAttempts
          /\ stage' = "pause"
          /\ InStages(expired, {"stop"})
          /\ UNCHANGED verifyPending
    /\ Upkeep(expired)
    /\ UNCHANGED <<target, requested, commanded, cpSafe, resume, attempts, pmDirty,
                   applied, ext>>

RestartAgain(expired) ==
    /\ stage = "pause" /\ "stage" \in expired
    /\ stage' = "restarting" /\ attempts' = NextAttempt
    /\ InStages(expired, {"start"}) /\ Upkeep(expired)
    /\ UNCHANGED <<target, requested, commanded, cpSafe, resume, verifyPending, pmDirty,
                   applied, ext>>

NothingDue(expired) ==
    /\ \/ stage = "error" /\ requested # commanded
       \/ stage = "idle" /\ ~MayStart(expired)
       \/ stage = "stopping" /\ ~StopProven /\ "stage" \notin expired
       \/ stage = "offdelay" /\ ~LoadIsBack /\ ~LoadFreeLongEnough(expired)
       \/ stage \in {"applying", "confirming", "pause"} /\ "stage" \notin expired
       \/ stage = "restarting" /\ gdSeen # "charging" /\ "stage" \notin expired
    /\ InStages(expired, {}) /\ Upkeep(expired)
    /\ UNCHANGED <<switchVars, verifyPending, pmDirty, applied, ext>>

ProcessPhaseSwitch(expired) ==
    \/ SwitchAsleep \/ FaultAbort \/ MarkerTimeout(expired)
    \/ RecoverFromError(expired) \/ StartSwitch(expired) \/ StopConfirmed(expired)
    \/ StageTimeout(expired) \/ StopAgain(expired) \/ ApplyMode(expired)
    \/ ChargingResumed(expired) \/ RestartFailed(expired) \/ RestartAgain(expired)
    \/ NothingDue(expired)

-----------------------------------------------------------------------------
(* Frames of the GD, handled in loop().                                    *)

InLoop ==
    /\ pc = "loop"
    /\ UNCHANGED <<modeVars, power, rounding, newRounding, pmActive, other, allowed, lastIec>>

(* 0x02: the GD identifies itself as the board that can switch phases.     *)
RxInfo ==
    /\ pc = "loop"
    /\ initialized' = TRUE
    /\ sent' = {}
    /\ UNCHANGED <<switchVars, verifyVars, powerVars, slotVars, gdVars, fwUpdate, pc>>

(* update_evseStatus, called for each of the three frames with a status.   *)
(* The first charging report of a one-phase start begins the marker query. *)
UpdateStatus(g) ==
    /\ gdSeen' = IF Listening THEN g ELSE gdSeen
    /\ markerQuery' =
          (markerQuery \/ (Listening /\ g = "charging" /\ verifyPending /\ target = 1))

(* 0x03 status, 0x04 heartbeat.                                            *)
RxStatus(g) ==
    /\ InLoop
    /\ UpdateStatus(g)
    /\ sent' = {}
    /\ UNCHANGED <<switchVars, verifyPending, verified, getReason, markerOk, pmDirty,
                   applied, ext, loaded>>

(* validate_physical_phase_count: n phases carry 1 A or more.  Currents of *)
(* a one-phase start count only after its close marker.                    *)
MayJudge == verifyPending /\ (target = 1 => markerOk)

ValidatePhaseCount(n) ==
    \/ /\ ~MayJudge \/ n = 0
       /\ sent' = {}
       /\ UNCHANGED <<verifyPending, verified, stage>>
    \/ /\ MayJudge /\ n = target
       /\ verifyPending' = FALSE /\ verified' = TRUE
       /\ sent' = {}
       /\ UNCHANGED stage
    \/ /\ MayJudge /\ n # 0 /\ n # target
       /\ verifyPending' = FALSE /\ verified' = FALSE
       /\ stage' = "error"
       /\ sent' = {"stop"}

(* 0x08: status and currents; some phase carries more than 0.5 A if l.     *)
RxMeter(g, n, l) ==
    /\ InLoop
    /\ UpdateStatus(g)
    /\ loaded' = l
    /\ ValidatePhaseCount(n)
    /\ UNCHANGED <<target, requested, commanded, cpSafe, resume, attempts, getReason,
                   markerOk, pmDirty, applied, ext>>

(* 0x0E: a CP sample; safe is the pilot in state B (8 V or more).          *)
CpCounts == stage \in {"stopping", "offdelay"}

RxCp(safe) ==
    /\ InLoop
    /\ cpSafe' = IF CpCounts THEN safe ELSE cpSafe
    /\ sent' = {}
    /\ UNCHANGED <<stage, target, requested, commanded, resume, attempts, verifyVars,
                   pmDirty, applied, ext, gdVars>>

(* 0x0A/0x09, the acknowledgement of a mode command.                       *)
RxModeAck ==
    /\ InLoop
    /\ getReason' = IF stage = "applying" THEN "profile" ELSE getReason
    /\ sent' = {}
    /\ UNCHANGED <<switchVars, verifyPending, verified, markerQuery, markerOk, pmDirty,
                   applied, ext, gdVars>>

(* 0x0A/0x09, a readback: start mode m, "the selectable handler ran" and   *)
(* "the final close hook ran".  Only getReason decides what it is for, the *)
(* stage does not; one nobody waits for passes for a mode acknowledgement. *)
(* Variant: the mode read back is not compared.                            *)
ReadbackOfAnyMode(m, handler) == handler

ReadbackOk(m, handler) == m = target /\ handler

TakeReadback(m, handler, hook) ==
    /\ InLoop
    /\ getReason' = "none"
    /\ \/ /\ ~ReadbackOk(m, handler)
          /\ stage' = "error" /\ verifyPending' = FALSE
          /\ sent' = {"stop"}
          /\ UNCHANGED markerOk
       \/ /\ ReadbackOk(m, handler) /\ getReason = "marker"
          /\ markerOk' = (markerOk \/ hook)
          /\ sent' = {}
          /\ UNCHANGED <<stage, verifyPending>>
       \/ /\ ReadbackOk(m, handler) /\ getReason = "profile"
          /\ stage' = "confirming"
          /\ sent' = {"profile"}
          /\ UNCHANGED <<verifyPending, markerOk>>
    /\ UNCHANGED <<target, requested, commanded, cpSafe, resume, attempts, verified,
                   markerQuery, pmDirty, applied, ext, gdVars>>

RxReadback(m, handler, hook) ==
    \/ getReason # "none" /\ TakeReadback(m, handler, hook)
    \/ getReason = "none" /\ RxModeAck

(* Variant: only a target of 0 W makes the phase count obsolete.           *)
ObsoleteAtZero == pmActive /\ power = Nobody

(* finish_phase_switch.  Under power control the target is looked at anew; *)
(* one that is obsolete or 0 W leaves the contactors open.                 *)
Obsolete == pmActive /\ (power = Nobody \/ Goal(target).phases # target)

WantsRestart ==
    /\ Iec(gdSeen) # "A"
    /\ pmActive \/ (resume /\ allowed >= 6)

FinishPhaseSwitch ==
    /\ commanded' = target /\ verified' = FALSE
    /\ \/ /\ Obsolete
          /\ verifyPending' = FALSE
          /\ ext' = 0 /\ applied' = 0
          /\ pmDirty' = (power # Nobody)
          /\ resume' = FALSE /\ stage' = "idle"
          /\ sent' = {}
          /\ UNCHANGED attempts
       \/ /\ ~Obsolete
          /\ verifyPending' = TRUE
          /\ \/ pmActive /\ ext' = Goal(target).amps /\ applied' = Goal(target).amps
                         /\ pmDirty' = FALSE
             \/ ~pmActive /\ UNCHANGED <<ext, applied, pmDirty>>
          /\ resume' = WantsRestart
          /\ \/ WantsRestart /\ stage' = "restarting" /\ attempts' = 1 /\ sent' = {"start"}
             \/ ~WantsRestart /\ stage' = "idle" /\ sent' = {} /\ UNCHANGED attempts

(* 0x0D, the acknowledgement of a charging limit or profile.  Only the     *)
(* stage tells which.                                                      *)
RxLimitAck ==
    /\ InLoop
    /\ \/ /\ stage # "confirming"
          /\ sent' = {}
          /\ UNCHANGED <<stage, commanded, resume, attempts, verifyPending, verified,
                         pmDirty, applied, ext>>
       \/ stage = "confirming" /\ FinishPhaseSwitch
    /\ UNCHANGED <<target, requested, cpSafe, getReason, markerQuery, markerOk, gdVars>>

-----------------------------------------------------------------------------
(* A firmware update of the GD.  The check that no vehicle is plugged in   *)
(* is made when the update is asked for, 2 s before it begins: nothing is  *)
(* known of the GD then.  Frames are still parsed, but no status is taken. *)
SetFirmwareUpdate(running) ==
    /\ pc = "loop"
    /\ fwUpdate # running
    /\ fwUpdate' = running
    /\ sent' = {}
    /\ UNCHANGED <<switchVars, verifyVars, powerVars, slotVars, gdVars, initialized, pc>>

(* The ESP restarts: default_phases, the rounding mode and the slots come  *)
(* back from flash as they were when last saved, which the power manager   *)
(* does when it takes the external slot; everything else starts afresh.    *)
SavedCurrents ==
    ExternalCurrents \cup {NoLimit} \cup {0 : w \in Powers}
        \cup {Choice[x].amps : x \in DOMAIN Choice}

EspRestart ==
    /\ requested' \in Phases
    /\ ext' \in SavedCurrents /\ other' \in OtherCurrents
    /\ applied' = IF ext' = NoLimit THEN 0 ELSE ext'
    /\ stage' = "idle" /\ target' = 3 /\ commanded' = 3
    /\ cpSafe' = FALSE /\ resume' = FALSE /\ attempts' = 0
    /\ verifyPending' = FALSE /\ verified' = FALSE
    /\ getReason' = "none" /\ markerQuery' = FALSE /\ markerOk' = FALSE
    /\ pmActive' = FALSE /\ pmDirty' = FALSE /\ power' = Nobody
    /\ allowed' = 0 /\ lastIec' = "A" /\ gdSeen' = "available" /\ loaded' = FALSE
    /\ initialized' = FALSE /\ fwUpdate' = FALSE /\ pc' = "loop"
    /\ sent' = {"mode3"}                       \* configure_gd: normal start mode
    /\ newRounding' = FALSE
    /\ rounding' \in IF newRounding THEN Roundings ELSE {rounding}

Command ==
    \/ \E p \in ManualRequests : RejectRequest(p) \/ RequestPhases(p)
    \/ \E w \in Powers : RequestPower(w)
    \/ (\E r \in RoundingWrites : WriteRounding(r)) \/ RoundingWritten
    \/ \E e \in ExternalCurrents, o \in OtherCurrents : SetSlots(e, o)

(* The deadlines a task run looks at in the present state.                 *)
Running ==
    {t \in Timers :
        \/ t = "stage"    /\ stage \in Switching
        \/ t = "readback" /\ getReason # "none"
        \/ t = "marker"   /\ MarkerOutstanding
        \/ t = "interval" /\ stage = "idle" /\ requested # commanded /\ ~pmActive
        \/ t = "meter"    /\ stage = "offdelay" /\ loaded}

Task == UpdateCurrents \/ \E expired \in SUBSET Running : ProcessPhaseSwitch(expired)

Frame ==
    \/ RxInfo
    \/ \E g \in GdReports : RxStatus(g)
    \/ \E g \in GdReports, n \in LoadReports, l \in BOOLEAN : (n > 0 => l) /\ RxMeter(g, n, l)
    \/ \E safe \in BOOLEAN : RxCp(safe)
    \/ RxModeAck
    \/ \E m \in Phases, handler, hook \in BOOLEAN : RxReadback(m, handler, hook)
    \/ RxLimitAck

Next == Command \/ Task \/ Frame \/ (\E b \in FirmwareUpdates : SetFirmwareUpdate(b)) \/ EspRestart

Spec == Init /\ [][Next]_vars

-----------------------------------------------------------------------------
(* A running switch pursues the request it was started for: the target is  *)
(* still the requested phase count and not yet the one in force, whatever  *)
(* commands and power targets arrive before the mode is sent               *)
(* (request_phase_switch refuses, process_power_manager waits for idle).   *)
SwitchFollowsRequest ==
    stage \in {"stopping", "offdelay", "applying"}
        => target = requested /\ target # commanded

(* Charging is only restarted in a phase mode the GD has acknowledged, and *)
(* in at most three attempts (finish_phase_switch, RESTARTING and          *)
(* RESTART_PAUSE of process_phase_switch).                                 *)
RestartsAcknowledgedMode ==
    stage \in {"restarting", "pause"}
        => commanded = target /\ attempts \in 1..3 /\ (stage = "pause" => attempts < 3)

(* When the power manager reports nothing pending, the current it applied  *)
(* and the phases in force are the ones calculate_power_target gives for   *)
(* the last target and rounding mode, however requests, manual switches    *)
(* and failed switches interleave (finish_phase_switch re-evaluates an     *)
(* obsolete target).                                                       *)
SettledOnTarget ==
    pmActive /\ ~pmDirty /\ ~newRounding
        => applied = Goal(commanded).amps /\ Goal(commanded).phases = commanded
=============================================================================
