------------------------- MODULE PhaseSwitchProofs -------------------------
(***************************************************************************)
(* The ESP side of the phase switch, whatever the GD sends and whenever    *)
(* deadlines pass: types, the restart in an acknowledged mode, the pursuit *)
(* of the request, and the power target that is settled.  The lemmas have  *)
(* one step for each action, and under it one for each group of variables  *)
(* the action can disturb.                                                 *)
(***************************************************************************)
EXTENDS PhaseSwitch, TLAPS

(* A group of variables that is left alone keeps its types.                *)
LEMMA KeptTypes ==
    ASSUME TypeOK
    PROVE  /\ UNCHANGED switchVars => SwitchTypes'
           /\ UNCHANGED verifyVars => VerifyTypes'
           /\ UNCHANGED powerVars  => PowerTypes'
           /\ UNCHANGED slotVars   => SlotTypes'
           /\ UNCHANGED gdVars     => GdTypes'
           /\ UNCHANGED modeVars   => ModeTypes'
  <1>1. UNCHANGED switchVars => SwitchTypes'  BY DEF TypeOK, SwitchTypes, switchVars
  <1>2. UNCHANGED verifyVars => VerifyTypes'  BY DEF TypeOK, VerifyTypes, verifyVars
  <1>3. UNCHANGED powerVars => PowerTypes'  BY DEF TypeOK, PowerTypes, powerVars
  <1>4. UNCHANGED slotVars => SlotTypes'  BY DEF TypeOK, SlotTypes, slotVars
  <1>5. UNCHANGED gdVars => GdTypes'  BY DEF TypeOK, GdTypes, gdVars
  <1>6. UNCHANGED modeVars => ModeTypes'  BY DEF TypeOK, ModeTypes, modeVars
  <1> QED  BY <1>1, <1>2, <1>3, <1>4, <1>5, <1>6

(* calculate_power_target yields a phase count and at most 16 A.           *)
LEMMA GoalType ==
    ASSUME PowerTypes, NEW c \in Phases
    PROVE  Goal(c).phases \in Phases /\ Goal(c).amps \in 0..16
  <1>1. CASE power = Nobody  BY <1>1 DEF Goal, Phases
  <1>2. CASE power # Nobody
    <2>1. <<power, rounding, c>> \in (Powers \ {Nobody}) \X Roundings \X Phases
        BY <1>2 DEF PowerTypes
    <2>2. Choice[<<power, rounding, c>>] \in [phases : Phases, amps : 6..16]
        BY <2>1, ChoiceAssumption
    <2> QED  BY <1>2, <2>2 DEF Goal
  <1> QED  BY <1>1, <1>2

(* What every action of the task's second half leaves alone.               *)
LEMMA TaskFrame ==
    ASSUME TypeOK, InTask
    PROVE  /\ GdTypes' /\ ModeTypes'
           /\ UNCHANGED <<pmDirty, applied>> => PowerTypes'
           /\ applied' \in 0..NoLimit /\ UNCHANGED pmDirty => PowerTypes'
           /\ ext' \in 0..NoLimit => SlotTypes'
           /\ UNCHANGED ext => SlotTypes'
  <1>1. GdTypes'  BY DEF TypeOK, GdTypes, gdVars, InTask
  <1>2. ModeTypes'  BY DEF TypeOK, ModeTypes, InTask
  <1>3. UNCHANGED <<pmDirty, applied>> => PowerTypes'
      BY DEF TypeOK, PowerTypes, InTask
  <1>4. applied' \in 0..NoLimit /\ UNCHANGED pmDirty => PowerTypes'
      BY DEF TypeOK, PowerTypes, InTask
  <1>5. ext' \in 0..NoLimit => SlotTypes'
      BY DEF TypeOK, SlotTypes, InTask
  <1>6. UNCHANGED ext => SlotTypes'
      BY DEF TypeOK, SlotTypes, InTask
  <1> QED  BY <1>1, <1>2, <1>3, <1>4, <1>5, <1>6

(* The commands of a task run and the upkeep of the readback.              *)
LEMMA StageFrame ==
    ASSUME TypeOK, NEW expired, NEW cmds, cmds \subseteq Commands, InStages(expired, cmds)
    PROVE  /\ InTask /\ sent' \subseteq Commands
           /\ Upkeep(expired) /\ verifyPending' \in BOOLEAN => VerifyTypes'
  <1>1. InTask  BY DEF InStages
  <1>2. sent' \subseteq Commands  BY DEF InStages, Gets, Resent, Commands
  <1>3. Upkeep(expired) => getReason' \in {"none", "profile", "marker"}
      BY DEF TypeOK, VerifyTypes, Upkeep, NextReason, KeptReason
  <1>4. Upkeep(expired) /\ verifyPending' \in BOOLEAN => VerifyTypes'
      BY <1>3 DEF TypeOK, VerifyTypes, Upkeep
  <1> QED  BY <1>1, <1>2, <1>4

-----------------------------------------------------------------------------
(* Types are kept by the API commands and the slot machine.                *)
LEMMA CommandTyped ==
    ASSUME TypeOK, Command
    PROVE  TypeOK'
  <1>1. ASSUME NEW p \in ManualRequests, RejectRequest(p) PROVE TypeOK'
    <2>1. SwitchTypes'  BY <1>1 DEF RejectRequest, TypeOK, SwitchTypes, Stages
    <2>2. VerifyTypes'  BY <1>1 DEF RejectRequest, TypeOK, VerifyTypes
    <2> QED  BY <1>1, <2>1, <2>2, KeptTypes DEF RejectRequest, TypeOK
  <1>2. ASSUME NEW p \in ManualRequests, RequestPhases(p) PROVE TypeOK'
    <2>1. SwitchTypes'  BY <1>2 DEF RequestPhases, ValidPhases, TypeOK, SwitchTypes, Stages
    <2> QED  BY <1>2, <2>1, KeptTypes DEF RequestPhases, TypeOK
  <1>3. ASSUME NEW w \in Powers, RequestPower(w) PROVE TypeOK'
    <2>1. SwitchTypes'  BY <1>3 DEF RequestPower, TypeOK, SwitchTypes, Stages
    <2>2. PowerTypes'  BY <1>3 DEF RequestPower, TypeOK, PowerTypes, NoLimit
    <2>3. SlotTypes'  BY <1>3 DEF RequestPower, TypeOK, SlotTypes, NoLimit
    <2> QED  BY <1>3, <2>1, <2>2, <2>3, KeptTypes DEF RequestPower, TypeOK
  <1>4. ASSUME NEW r \in RoundingWrites, WriteRounding(r) PROVE TypeOK'
    <2>1. PowerTypes'  BY <1>4, InputAssumption DEF WriteRounding, TypeOK, PowerTypes
    <2> QED  BY <1>4, <2>1, KeptTypes DEF WriteRounding, TypeOK
  <1>6. ASSUME RoundingWritten PROVE TypeOK'
    <2>1. PowerTypes'  BY <1>6 DEF RoundingWritten, TypeOK, PowerTypes
    <2> QED  BY <1>6, <2>1, KeptTypes DEF RoundingWritten, TypeOK
  <1>5. ASSUME NEW e \in ExternalCurrents, NEW o \in OtherCurrents, SetSlots(e, o)
        PROVE  TypeOK'
    <2>1. SlotTypes'  BY <1>5, InputAssumption DEF SetSlots, TypeOK, SlotTypes
    <2> QED  BY <1>5, <2>1, KeptTypes DEF SetSlots, TypeOK
  <1> QED  BY <1>1, <1>2, <1>3, <1>4, <1>5, <1>6 DEF Command

LEMMA UpdateTyped ==
    ASSUME TypeOK, UpdateCurrents
    PROVE  TypeOK'
  <1>1. commanded \in Phases /\ PowerTypes /\ SlotTypes  BY DEF TypeOK, SwitchTypes
  <1>2. Goal(commanded).phases \in Phases /\ Goal(commanded).amps \in 0..NoLimit
      BY <1>1, GoalType DEF NoLimit
  <1>3. SwitchTypes'
      BY <1>2 DEF UpdateCurrents, ProcessPowerManager, TypeOK, SwitchTypes
  <1>4. VerifyTypes' /\ GdTypes'  BY KeptTypes DEF UpdateCurrents
  <1>5. PowerTypes'
      BY <1>2 DEF UpdateCurrents, ProcessPowerManager, TypeOK, PowerTypes
  <1>6. SlotTypes'
    <2>1. ext' \in 0..NoLimit
        BY <1>1, <1>2 DEF UpdateCurrents, ProcessPowerManager, SlotTypes
    <2>2. other' \in 0..NoLimit /\ allowed' \in 0..NoLimit
        BY <1>1 DEF UpdateCurrents, SlotMachine, AllowedBy, SlotTypes, NoLimit
    <2>3. lastIec' \in {"A", "B", "C", "EF"}
        BY DEF UpdateCurrents, SlotMachine, Iec
    <2> QED  BY <2>1, <2>2, <2>3 DEF SlotTypes
  <1>7. ModeTypes'  BY DEF UpdateCurrents, TypeOK, ModeTypes
  <1>8. sent' \subseteq Commands
      BY DEF UpdateCurrents, SlotMachine, SlotCommands, Commands
  <1> QED  BY <1>3, <1>4, <1>5, <1>6, <1>7, <1>8 DEF TypeOK

(* ... by the stages of process_phase_switch.  Only RESTART_PAUSE counts   *)
(* attempts up, and it is entered with less than three.                    *)
LEMMA SwitchTyped ==
    ASSUME TypeOK, RestartsAcknowledgedMode, NEW expired, ProcessPhaseSwitch(expired)
    PROVE  TypeOK'
  <1>1. CASE SwitchAsleep
      BY <1>1, KeptTypes, TaskFrame DEF SwitchAsleep, TypeOK
  <1>2. CASE FaultAbort
    <2>1. SwitchTypes'  BY <1>2 DEF FaultAbort, TypeOK, SwitchTypes, Stages
    <2>2. VerifyTypes'  BY <1>2 DEF FaultAbort, TypeOK, VerifyTypes
    <2> QED  BY <1>2, <2>1, <2>2, TaskFrame DEF FaultAbort, TypeOK
  <1>3. CASE MarkerTimeout(expired)
    <2>1. SwitchTypes'  BY <1>3 DEF MarkerTimeout, TypeOK, SwitchTypes, Stages
    <2>2. VerifyTypes'  BY <1>3 DEF MarkerTimeout, KeptReason, TypeOK, VerifyTypes
    <2>3. sent' \subseteq Commands  BY <1>3 DEF MarkerTimeout, Resent, Commands
    <2> QED  BY <1>3, <2>1, <2>2, <2>3, TaskFrame DEF MarkerTimeout, TypeOK
  <1>4. CASE RecoverFromError(expired)
    <2>1. SwitchTypes'  BY <1>4 DEF RecoverFromError, TypeOK, SwitchTypes, Stages
    <2>2. VerifyTypes' /\ sent' \subseteq Commands /\ InTask
        BY <1>4, StageFrame DEF RecoverFromError, TypeOK, VerifyTypes
    <2> QED  BY <1>4, <2>1, <2>2, TaskFrame DEF RecoverFromError, TypeOK
  <1>5. CASE StartSwitch(expired)
    <2>1. SwitchTypes'
        BY <1>5 DEF StartSwitch, CpProofAtStart, TypeOK, SwitchTypes, Stages
    <2>2. VerifyTypes' /\ sent' \subseteq Commands /\ InTask
        BY <1>5, StageFrame DEF StartSwitch, Commands, TypeOK, VerifyTypes
    <2>3. Goal(commanded).amps \in 0..NoLimit
        BY GoalType DEF TypeOK, SwitchTypes, NoLimit
    <2>4. ext' \in 0..NoLimit /\ applied' \in 0..NoLimit
        BY <1>5, <2>3 DEF StartSwitch, TypeOK, PowerTypes, SlotTypes
    <2>5. UNCHANGED pmDirty  BY <1>5 DEF StartSwitch
    <2> QED  BY <2>1, <2>2, <2>4, <2>5, TaskFrame DEF TypeOK
  <1>6. CASE StopConfirmed(expired)
    <2>1. SwitchTypes'  BY <1>6 DEF StopConfirmed, TypeOK, SwitchTypes, Stages
    <2>2. VerifyTypes' /\ sent' \subseteq Commands /\ InTask
        BY <1>6, StageFrame DEF StopConfirmed, TypeOK, VerifyTypes
    <2> QED  BY <1>6, <2>1, <2>2, TaskFrame DEF StopConfirmed, TypeOK
  <1>7. CASE StageTimeout(expired)
    <2>1. SwitchTypes'  BY <1>7 DEF StageTimeout, TypeOK, SwitchTypes, Stages
    <2>2. VerifyTypes' /\ sent' \subseteq Commands /\ InTask
        BY <1>7, StageFrame DEF StageTimeout
    <2> QED  BY <1>7, <2>1, <2>2, TaskFrame DEF StageTimeout, TypeOK
  <1>8. CASE StopAgain(expired)
    <2>1. SwitchTypes'  BY <1>8 DEF StopAgain, TypeOK, SwitchTypes, Stages
    <2>2. VerifyTypes' /\ sent' \subseteq Commands /\ InTask
        BY <1>8, StageFrame DEF StopAgain, Commands, TypeOK, VerifyTypes
    <2> QED  BY <1>8, <2>1, <2>2, TaskFrame DEF StopAgain, TypeOK
  <1>9. CASE ApplyMode(expired)
    <2>1. SwitchTypes'  BY <1>9 DEF ApplyMode, TypeOK, SwitchTypes, Stages
    <2>2. VerifyTypes'  BY <1>9 DEF ApplyMode, MarkerAfterMode, TypeOK, VerifyTypes
    <2>3. sent' \subseteq Commands /\ InTask
        BY <1>9, StageFrame DEF ApplyMode, ModeCommand, Commands
    <2> QED  BY <1>9, <2>1, <2>2, <2>3, TaskFrame DEF ApplyMode, TypeOK
  <1>10. CASE ChargingResumed(expired)
    <2>1. SwitchTypes'  BY <1>10 DEF ChargingResumed, TypeOK, SwitchTypes, Stages
    <2>2. VerifyTypes' /\ sent' \subseteq Commands /\ InTask
        BY <1>10, StageFrame DEF ChargingResumed, TypeOK, VerifyTypes
    <2> QED  BY <1>10, <2>1, <2>2, TaskFrame DEF ChargingResumed, TypeOK
  <1>11. CASE RestartFailed(expired)
    <2>1. SwitchTypes'  BY <1>11 DEF RestartFailed, TypeOK, SwitchTypes, Stages
    <2>2. sent' \subseteq Commands /\ InTask
        BY <1>11, StageFrame DEF RestartFailed, Commands
    <2>3. VerifyTypes'
        BY <1>11, StageFrame DEF RestartFailed, Commands, TypeOK, VerifyTypes
    <2> QED  BY <1>11, <2>1, <2>2, <2>3, TaskFrame DEF RestartFailed, TypeOK
  <1>12. CASE RestartAgain(expired)
    <2>1. attempts' \in 0..3
        BY <1>12 DEF RestartAgain, NextAttempt, RestartsAcknowledgedMode, TypeOK, SwitchTypes
    <2>2. SwitchTypes'
        BY <1>12, <2>1 DEF RestartAgain, TypeOK, SwitchTypes, Stages
    <2>3. VerifyTypes' /\ sent' \subseteq Commands /\ InTask
        BY <1>12, StageFrame DEF RestartAgain, Commands, TypeOK, VerifyTypes
    <2> QED  BY <1>12, <2>2, <2>3, TaskFrame DEF RestartAgain, TypeOK
  <1>13. CASE NothingDue(expired)
    <2>1. VerifyTypes' /\ sent' \subseteq Commands /\ InTask
        BY <1>13, StageFrame DEF NothingDue, TypeOK, VerifyTypes
    <2> QED  BY <1>13, <2>1, TaskFrame, KeptTypes DEF NothingDue, TypeOK
  <1> QED  BY <1>1, <1>2, <1>3, <1>4, <1>5, <1>6, <1>7, <1>8, <1>9, <1>10, <1>11,
              <1>12, <1>13 DEF ProcessPhaseSwitch

-----------------------------------------------------------------------------
(* ... by the frames of the GD.                                            *)
LEMMA LoopFrame ==
    ASSUME TypeOK, InLoop
    PROVE  /\ ModeTypes'
           /\ UNCHANGED <<pmDirty, applied>> => PowerTypes'
           /\ UNCHANGED ext => SlotTypes'
  BY DEF TypeOK, InLoop, ModeTypes, PowerTypes, SlotTypes, modeVars

LEMMA FrameTyped ==
    ASSUME TypeOK, Frame
    PROVE  TypeOK'
  <1>1. CASE RxInfo
    <2>1. ModeTypes'  BY <1>1 DEF RxInfo, TypeOK, ModeTypes
    <2> QED  BY <1>1, <2>1, KeptTypes DEF RxInfo, TypeOK
  <1>g. ASSUME NEW g \in GdReports, UpdateStatus(g)
        PROVE  gdSeen' \in GdStates /\ markerQuery' \in BOOLEAN
    <2>1. gdSeen' \in GdStates
        BY <1>g, InputAssumption DEF UpdateStatus, TypeOK, GdTypes
    <2>2. markerQuery' \in BOOLEAN
        BY <1>g DEF UpdateStatus, TypeOK, VerifyTypes
    <2> QED  BY <2>1, <2>2
  <1>2. ASSUME NEW g \in GdReports, RxStatus(g) PROVE TypeOK'
    <2>1. gdSeen' \in GdStates /\ markerQuery' \in BOOLEAN  BY <1>g, <1>2 DEF RxStatus
    <2>2. VerifyTypes'  BY <1>2, <2>1 DEF RxStatus, TypeOK, VerifyTypes
    <2>3. GdTypes'  BY <1>2, <2>1 DEF RxStatus, TypeOK, GdTypes
    <2> QED  BY <1>2, <2>2, <2>3, KeptTypes, LoopFrame DEF RxStatus, TypeOK
  <1>3. ASSUME NEW g \in GdReports, NEW n \in LoadReports, NEW l \in BOOLEAN, RxMeter(g, n, l)
        PROVE  TypeOK'
    <2>1. gdSeen' \in GdStates /\ markerQuery' \in BOOLEAN  BY <1>g, <1>3 DEF RxMeter, ValidatePhaseCount
    <2>2. SwitchTypes'  BY <1>3 DEF RxMeter, ValidatePhaseCount, TypeOK, SwitchTypes, Stages
    <2>3. VerifyTypes'  BY <1>3, <2>1 DEF RxMeter, ValidatePhaseCount, TypeOK, VerifyTypes
    <2>4. GdTypes'  BY <1>3, <2>1 DEF RxMeter, ValidatePhaseCount, TypeOK, GdTypes
    <2>5. sent' \subseteq Commands  BY <1>3 DEF RxMeter, ValidatePhaseCount, Commands
    <2> QED  BY <1>3, <2>2, <2>3, <2>4, <2>5, LoopFrame DEF RxMeter, ValidatePhaseCount, TypeOK
  <1>4. ASSUME NEW safe \in BOOLEAN, RxCp(safe) PROVE TypeOK'
    <2>1. SwitchTypes'  BY <1>4 DEF RxCp, TypeOK, SwitchTypes
    <2> QED  BY <1>4, <2>1, KeptTypes, LoopFrame DEF RxCp, TypeOK
  <1>5. ASSUME RxModeAck PROVE TypeOK'
    <2>1. VerifyTypes'  BY <1>5 DEF RxModeAck, TypeOK, VerifyTypes
    <2> QED  BY <1>5, <2>1, KeptTypes, LoopFrame DEF RxModeAck, TypeOK
  <1>6. ASSUME NEW m \in Phases, NEW handler \in BOOLEAN, NEW hook \in BOOLEAN,
               RxReadback(m, handler, hook)
        PROVE  TypeOK'
    <2>1. CASE TakeReadback(m, handler, hook)
      <3>1. SwitchTypes'  BY <2>1 DEF TakeReadback, TypeOK, SwitchTypes, Stages
      <3>2. VerifyTypes'  BY <2>1 DEF TakeReadback, TypeOK, VerifyTypes
      <3>3. sent' \subseteq Commands  BY <2>1 DEF TakeReadback, Commands
      <3> QED  BY <2>1, <3>1, <3>2, <3>3, KeptTypes, LoopFrame DEF TakeReadback, TypeOK
    <2> QED  BY <1>5, <1>6, <2>1 DEF RxReadback
  <1>7. CASE RxLimitAck
    <2>1. target \in Phases /\ Goal(target).amps \in 0..NoLimit
        BY GoalType DEF TypeOK, SwitchTypes, NoLimit
    <2>2. SwitchTypes'
      <3>1. attempts' \in 0..3  BY <1>7 DEF RxLimitAck, FinishPhaseSwitch, TypeOK, SwitchTypes, switchVars
      <3>2. resume' \in BOOLEAN
          BY <1>7 DEF RxLimitAck, FinishPhaseSwitch, WantsRestart, TypeOK, SwitchTypes, switchVars
      <3>3. commanded' \in Phases  BY <1>7 DEF RxLimitAck, FinishPhaseSwitch, TypeOK, SwitchTypes, switchVars
      <3>4. stage' \in Stages /\ UNCHANGED <<target, requested, cpSafe>>
          BY <1>7 DEF RxLimitAck, FinishPhaseSwitch, TypeOK, SwitchTypes, Stages, switchVars
      <3> QED  BY <3>1, <3>2, <3>3, <3>4 DEF TypeOK, SwitchTypes
    <2>3. VerifyTypes'  BY <1>7 DEF RxLimitAck, FinishPhaseSwitch, TypeOK, VerifyTypes
    <2>4. PowerTypes'
      <3>1. applied' \in 0..NoLimit
          BY <1>7, <2>1 DEF RxLimitAck, FinishPhaseSwitch, TypeOK, PowerTypes, NoLimit
      <3>2. pmDirty' \in BOOLEAN  BY <1>7 DEF RxLimitAck, FinishPhaseSwitch, TypeOK, PowerTypes
      <3> QED  BY <1>7, <3>1, <3>2 DEF RxLimitAck, FinishPhaseSwitch, InLoop, TypeOK, PowerTypes
    <2>5. SlotTypes'
        BY <1>7, <2>1 DEF RxLimitAck, FinishPhaseSwitch, InLoop, TypeOK, SlotTypes, NoLimit
    <2>6. sent' \subseteq Commands  BY <1>7 DEF RxLimitAck, FinishPhaseSwitch, Commands
    <2> QED  BY <1>7, <2>2, <2>3, <2>4, <2>5, <2>6, KeptTypes, LoopFrame
             DEF RxLimitAck, FinishPhaseSwitch, TypeOK
  <1> QED  BY <1>1, <1>2, <1>3, <1>4, <1>5, <1>6, <1>7 DEF Frame

(* ... and by a firmware update, a restart and a step that does nothing.   *)
LEMMA TypeInductive ==
    ASSUME TypeOK, RestartsAcknowledgedMode, [Next]_vars
    PROVE  TypeOK'
  <1>1. CASE Command  BY <1>1, CommandTyped
  <1>2. CASE Task  BY <1>2, UpdateTyped, SwitchTyped DEF Task
  <1>3. CASE Frame  BY <1>3, FrameTyped
  <1>4. ASSUME NEW b \in FirmwareUpdates, SetFirmwareUpdate(b) PROVE TypeOK'
    <2>1. ModeTypes'
        BY <1>4, InputAssumption DEF SetFirmwareUpdate, TypeOK, ModeTypes
    <2> QED  BY <1>4, <2>1, KeptTypes DEF SetFirmwareUpdate, TypeOK
  <1>5. CASE EspRestart
    <2>1. SwitchTypes'
      <3>1. attempts' \in 0..3 /\ target' \in Phases /\ commanded' \in Phases
          BY <1>5 DEF EspRestart, Phases
      <3>2. cpSafe' \in BOOLEAN /\ resume' \in BOOLEAN /\ stage' \in Stages
          BY <1>5 DEF EspRestart, Stages
      <3> QED  BY <1>5, <3>1, <3>2 DEF EspRestart, SwitchTypes
    <2>2. VerifyTypes'  BY <1>5 DEF EspRestart, VerifyTypes
    <2>3. PowerTypes' /\ SlotTypes'
      <3>s. SavedCurrents \subseteq 0..NoLimit
        <4>1. \A x \in DOMAIN Choice : Choice[x].amps \in 6..16  BY ChoiceAssumption
        <4>2. {Choice[x].amps : x \in DOMAIN Choice} \subseteq 0..NoLimit  BY <4>1 DEF NoLimit
        <4>3. {0 : w \in Powers} \cup {NoLimit} \subseteq 0..NoLimit  BY DEF NoLimit
        <4> QED  BY <4>2, <4>3, InputAssumption DEF SavedCurrents
      <3>1. ext' \in 0..NoLimit /\ other' \in 0..NoLimit
          BY <1>5, <3>s, InputAssumption DEF EspRestart
      <3>2. applied' \in 0..NoLimit  BY <1>5, <3>1 DEF EspRestart, NoLimit
      <3>3. allowed' \in 0..NoLimit  BY <1>5 DEF EspRestart, NoLimit
      <3> QED  BY <1>5, <3>1, <3>2, <3>3 DEF EspRestart, PowerTypes, SlotTypes, TypeOK
    <2>4. GdTypes' /\ ModeTypes'  BY <1>5 DEF EspRestart, GdTypes, GdStates, ModeTypes
    <2>5. sent' \subseteq Commands  BY <1>5 DEF EspRestart, Commands
    <2> QED  BY <2>1, <2>2, <2>3, <2>4, <2>5 DEF TypeOK
  <1>6. CASE UNCHANGED vars
      BY <1>6, KeptTypes DEF vars, TypeOK
  <1> QED  BY <1>1, <1>2, <1>3, <1>4, <1>5, <1>6 DEF Next

LEMMA TypeInit == Init => TypeOK
  <1> SUFFICES ASSUME Init PROVE TypeOK
      OBVIOUS
  <1>1. SwitchTypes /\ VerifyTypes
    <2>1. attempts \in 0..3 /\ target \in Phases /\ commanded \in Phases
        BY DEF Init, Phases
    <2>2. cpSafe \in BOOLEAN /\ resume \in BOOLEAN /\ stage \in Stages
        BY DEF Init, Stages
    <2> QED  BY <2>1, <2>2 DEF Init, SwitchTypes, VerifyTypes
  <1>2. PowerTypes
    <2>1. applied \in 0..NoLimit  BY DEF Init, NoLimit
    <2> QED  BY <2>1 DEF Init, PowerTypes
  <1>3. SlotTypes  BY InputAssumption DEF Init, SlotTypes, NoLimit
  <1>4. GdTypes /\ ModeTypes  BY DEF Init, GdTypes, GdStates, ModeTypes
  <1> QED  BY <1>1, <1>2, <1>3, <1>4 DEF Init, TypeOK

-----------------------------------------------------------------------------
(* Only the acknowledgement of the profile and the two restart stages lead *)
(* to a restart; a step of any other kind leaves the attempt alone or the  *)
(* stages of a restart behind.                                             *)
LEMMA RestartKept ==
    ASSUME RestartsAcknowledgedMode,
           \/ stage' \notin {"restarting", "pause"}
           \/ UNCHANGED <<stage, target, commanded, attempts>>
    PROVE  RestartsAcknowledgedMode'
  BY DEF RestartsAcknowledgedMode

LEMMA RestartInductive ==
    ASSUME TypeOK, RestartsAcknowledgedMode, [Next]_vars
    PROVE  RestartsAcknowledgedMode'
  <1>1. CASE Command
    <2>1. ASSUME NEW p \in ManualRequests, RejectRequest(p) \/ RequestPhases(p)
          PROVE  RestartsAcknowledgedMode'
        BY <2>1, RestartKept DEF RejectRequest, RequestPhases, ValidPhases, MayRequest, Switching, Stages
    <2>2. ASSUME NEW w \in Powers, RequestPower(w) PROVE RestartsAcknowledgedMode'
        BY <2>2, RestartKept DEF RequestPower
    <2>3. ASSUME NEW r \in RoundingWrites, WriteRounding(r) PROVE RestartsAcknowledgedMode'
        BY <2>3, RestartKept DEF WriteRounding, switchVars
    <2>5. CASE RoundingWritten  BY <2>5, RestartKept DEF RoundingWritten, switchVars
    <2>4. ASSUME NEW e \in ExternalCurrents, NEW o \in OtherCurrents, SetSlots(e, o)
          PROVE  RestartsAcknowledgedMode'
        BY <2>4, RestartKept DEF SetSlots, switchVars
    <2> QED  BY <1>1, <2>1, <2>2, <2>3, <2>4, <2>5 DEF Command
  <1>2. CASE UpdateCurrents
      BY <1>2, RestartKept DEF UpdateCurrents
  <1>3. ASSUME NEW expired, ProcessPhaseSwitch(expired) PROVE RestartsAcknowledgedMode'
    <2>1. CASE SwitchAsleep \/ NothingDue(expired)
        BY <2>1, RestartKept DEF SwitchAsleep, NothingDue, switchVars
    <2>2. CASE FaultAbort \/ MarkerTimeout(expired)
        BY <2>2, RestartKept DEF FaultAbort, MarkerTimeout
    <2>3. CASE RecoverFromError(expired) \/ StartSwitch(expired) \/ StopConfirmed(expired)
        BY <2>3, RestartKept DEF RecoverFromError, StartSwitch, StopConfirmed
    <2>4. CASE StageTimeout(expired) \/ StopAgain(expired) \/ ApplyMode(expired)
        BY <2>4, RestartKept DEF StageTimeout, StopAgain, ApplyMode
    <2>5. CASE ChargingResumed(expired)
        BY <2>5, RestartKept DEF ChargingResumed
    <2>6. CASE RestartFailed(expired)
        BY <2>6 DEF RestartFailed, MaxAttempts, RestartsAcknowledgedMode
    <2>7. CASE RestartAgain(expired)
        BY <2>7 DEF RestartAgain, NextAttempt, RestartsAcknowledgedMode
    <2> QED  BY <1>3, <2>1, <2>2, <2>3, <2>4, <2>5, <2>6, <2>7 DEF ProcessPhaseSwitch
  <1>4. CASE Frame
    <2>1. CASE RxInfo  BY <2>1, RestartKept DEF RxInfo, switchVars
    <2>2. ASSUME NEW g \in GdReports, RxStatus(g) PROVE RestartsAcknowledgedMode'
        BY <2>2, RestartKept DEF RxStatus, switchVars
    <2>3. ASSUME NEW g \in GdReports, NEW n \in LoadReports, NEW l \in BOOLEAN, RxMeter(g, n, l)
          PROVE  RestartsAcknowledgedMode'
        BY <2>3, RestartKept DEF RxMeter, ValidatePhaseCount
    <2>4. ASSUME NEW safe \in BOOLEAN, RxCp(safe) PROVE RestartsAcknowledgedMode'
        BY <2>4, RestartKept DEF RxCp
    <2>5. CASE RxModeAck  BY <2>5, RestartKept DEF RxModeAck, switchVars
    <2>6. ASSUME NEW m \in Phases, NEW handler \in BOOLEAN, NEW hook \in BOOLEAN,
                 RxReadback(m, handler, hook)
          PROVE  RestartsAcknowledgedMode'
        BY <2>5, <2>6, RestartKept DEF RxReadback, TakeReadback
    <2>7. CASE RxLimitAck
      <3>1. CASE stage' # "restarting"
        <4>1. \/ stage' \notin {"restarting", "pause"}
              \/ UNCHANGED <<stage, target, commanded, attempts>>
            BY <2>7, <3>1 DEF RxLimitAck, FinishPhaseSwitch, switchVars
        <4> QED  BY <4>1, RestartKept
      <3>2. CASE stage' = "restarting" /\ stage # "confirming"
          BY <2>7, <3>2, RestartKept DEF RxLimitAck, FinishPhaseSwitch, switchVars
      <3>3. CASE stage' = "restarting" /\ stage = "confirming"
        <4>1. commanded' = target' /\ attempts' = 1  BY <2>7, <3>3 DEF RxLimitAck, FinishPhaseSwitch
        <4> QED  BY <3>3, <4>1 DEF RestartsAcknowledgedMode
      <3> QED  BY <3>1, <3>2, <3>3
    <2> QED  BY <1>4, <2>1, <2>2, <2>3, <2>4, <2>5, <2>6, <2>7 DEF Frame
  <1>5. ASSUME NEW b \in FirmwareUpdates, SetFirmwareUpdate(b) PROVE RestartsAcknowledgedMode'
      BY <1>5, RestartKept DEF SetFirmwareUpdate, switchVars
  <1>6. CASE EspRestart  BY <1>6, RestartKept DEF EspRestart
  <1>7. CASE UNCHANGED vars  BY <1>7, RestartKept DEF vars, switchVars
  <1> QED  BY <1>1, <1>2, <1>3, <1>4, <1>5, <1>6, <1>7 DEF Next, Task

-----------------------------------------------------------------------------
(* A switch is started with its target; until the mode is sent no step     *)
(* touches the request, the target or the phases in force.                 *)
LEMMA PursuitKept ==
    ASSUME SwitchFollowsRequest,
           \/ stage' \notin {"stopping", "offdelay", "applying"}
           \/ /\ stage \in {"stopping", "offdelay", "applying"}
              /\ UNCHANGED <<target, requested, commanded>>
    PROVE  SwitchFollowsRequest'
  BY DEF SwitchFollowsRequest

LEMMA PursuitInductive ==
    ASSUME TypeOK, SwitchFollowsRequest, [Next]_vars
    PROVE  SwitchFollowsRequest'
  <1>1. CASE Command
    <2>1. ASSUME NEW p \in ManualRequests, RejectRequest(p) \/ RequestPhases(p)
          PROVE  SwitchFollowsRequest'
        BY <2>1, PursuitKept DEF RejectRequest, RequestPhases, ValidPhases, MayRequest, Switching, TypeOK,
           SwitchTypes
    <2>2. ASSUME NEW w \in Powers, RequestPower(w) PROVE SwitchFollowsRequest'
        BY <2>2, PursuitKept DEF RequestPower
    <2>3. ASSUME NEW r \in RoundingWrites, WriteRounding(r) PROVE SwitchFollowsRequest'
        BY <2>3, PursuitKept DEF WriteRounding, switchVars
    <2>5. CASE RoundingWritten  BY <2>5, PursuitKept DEF RoundingWritten, switchVars
    <2>4. ASSUME NEW e \in ExternalCurrents, NEW o \in OtherCurrents, SetSlots(e, o)
          PROVE  SwitchFollowsRequest'
        BY <2>4, PursuitKept DEF SetSlots, switchVars
    <2> QED  BY <1>1, <2>1, <2>2, <2>3, <2>4, <2>5 DEF Command
  <1>2. CASE UpdateCurrents
    <2>1. stage = "idle" \/ UNCHANGED requested
        BY <1>2 DEF UpdateCurrents, ProcessPowerManager, PowerManagerBusy
    <2> QED  BY <1>2, <2>1, PursuitKept DEF UpdateCurrents
  <1>3. ASSUME NEW expired, ProcessPhaseSwitch(expired) PROVE SwitchFollowsRequest'
    <2>1. CASE SwitchAsleep \/ NothingDue(expired)
        BY <2>1, PursuitKept DEF SwitchAsleep, NothingDue, switchVars
    <2>2. CASE FaultAbort \/ MarkerTimeout(expired)
        BY <2>2, PursuitKept DEF FaultAbort, MarkerTimeout
    <2>3. CASE StartSwitch(expired)
        BY <2>3 DEF StartSwitch, MayStart, SwitchFollowsRequest
    <2>4. CASE RecoverFromError(expired) \/ StopConfirmed(expired)
        BY <2>4, PursuitKept DEF RecoverFromError, StopConfirmed
    <2>5. CASE StageTimeout(expired) \/ StopAgain(expired) \/ ApplyMode(expired)
        BY <2>5, PursuitKept DEF StageTimeout, StopAgain, ApplyMode
    <2>6. CASE ChargingResumed(expired) \/ RestartFailed(expired) \/ RestartAgain(expired)
        BY <2>6, PursuitKept DEF ChargingResumed, RestartFailed, RestartAgain
    <2> QED  BY <1>3, <2>1, <2>2, <2>3, <2>4, <2>5, <2>6 DEF ProcessPhaseSwitch
  <1>4. CASE Frame
    <2>1. CASE RxInfo  BY <2>1, PursuitKept DEF RxInfo, switchVars
    <2>2. ASSUME NEW g \in GdReports, RxStatus(g) PROVE SwitchFollowsRequest'
        BY <2>2, PursuitKept DEF RxStatus, switchVars
    <2>3. ASSUME NEW g \in GdReports, NEW n \in LoadReports, NEW l \in BOOLEAN, RxMeter(g, n, l)
          PROVE  SwitchFollowsRequest'
        BY <2>3, PursuitKept DEF RxMeter, ValidatePhaseCount
    <2>4. ASSUME NEW safe \in BOOLEAN, RxCp(safe) PROVE SwitchFollowsRequest'
        BY <2>4, PursuitKept DEF RxCp
    <2>5. CASE RxModeAck  BY <2>5, PursuitKept DEF RxModeAck, switchVars
    <2>6. ASSUME NEW m \in Phases, NEW handler \in BOOLEAN, NEW hook \in BOOLEAN,
                 RxReadback(m, handler, hook)
          PROVE  SwitchFollowsRequest'
        BY <2>5, <2>6, PursuitKept DEF RxReadback, TakeReadback
    <2>7. CASE RxLimitAck
        BY <2>7, PursuitKept DEF RxLimitAck, FinishPhaseSwitch, switchVars
    <2> QED  BY <1>4, <2>1, <2>2, <2>3, <2>4, <2>5, <2>6, <2>7 DEF Frame
  <1>5. ASSUME NEW b \in FirmwareUpdates, SetFirmwareUpdate(b) PROVE SwitchFollowsRequest'
      BY <1>5, PursuitKept DEF SetFirmwareUpdate, switchVars
  <1>6. CASE EspRestart  BY <1>6, PursuitKept DEF EspRestart
  <1>7. CASE UNCHANGED vars  BY <1>7, PursuitKept DEF vars, switchVars
  <1> QED  BY <1>1, <1>2, <1>3, <1>4, <1>5, <1>6, <1>7 DEF Next, Task

-----------------------------------------------------------------------------
(* The power manager is settled by process_power_manager and by            *)
(* finish_phase_switch, both after looking at the target of the moment;    *)
(* everything else leaves it settled or makes it pending.                  *)
settledVars == <<pmActive, pmDirty, power, rounding, newRounding, applied, commanded>>

LEMMA SettledKept ==
    ASSUME SettledOnTarget, ~pmActive' \/ pmDirty' \/ UNCHANGED settledVars
    PROVE  SettledOnTarget'
  <1>1. CASE ~pmActive' \/ pmDirty'  BY <1>1 DEF SettledOnTarget
  <1>2. CASE UNCHANGED settledVars
    <2>1. UNCHANGED <<pmActive, pmDirty, newRounding, applied, commanded>>  BY <1>2 DEF settledVars
    <2>2. Goal(commanded)' = Goal(commanded)  BY <1>2 DEF settledVars, Goal
    <2> QED  BY <2>1, <2>2 DEF SettledOnTarget
  <1> QED  BY <1>1, <1>2

LEMMA SettledInductive ==
    ASSUME TypeOK, SettledOnTarget, [Next]_vars
    PROVE  SettledOnTarget'
  <1>1. CASE Command
    <2>1. ASSUME NEW p \in ManualRequests, RejectRequest(p) \/ RequestPhases(p)
          PROVE  SettledOnTarget'
        BY <2>1, SettledKept DEF RejectRequest, RequestPhases, powerVars, settledVars
    <2>2. ASSUME NEW w \in Powers, RequestPower(w) PROVE SettledOnTarget'
        BY <2>2, SettledKept DEF RequestPower
    <2>3. ASSUME NEW r \in RoundingWrites, WriteRounding(r)
          PROVE  SettledOnTarget'
        BY <2>3 DEF WriteRounding, SettledOnTarget
    <2>5. CASE RoundingWritten
        BY <2>5, SettledKept DEF RoundingWritten, TypeOK, PowerTypes
    <2>4. ASSUME NEW e \in ExternalCurrents, NEW o \in OtherCurrents, SetSlots(e, o)
          PROVE  SettledOnTarget'
        BY <2>4, SettledKept DEF SetSlots, switchVars, powerVars, settledVars
    <2> QED  BY <1>1, <2>1, <2>2, <2>3, <2>4, <2>5 DEF Command
  <1>2. CASE UpdateCurrents
    <2>1. UNCHANGED <<pmActive, power, rounding, newRounding, commanded>>
        BY <1>2 DEF UpdateCurrents
    <2>2. CASE UNCHANGED <<pmDirty, applied>>
        BY <2>1, <2>2, SettledKept DEF settledVars
    <2>3. CASE Goal(commanded).phases = commanded /\ applied' = Goal(commanded).amps
      <3>1. Goal(commanded)' = Goal(commanded)  BY <2>1 DEF Goal
      <3> QED  BY <2>1, <2>3, <3>1 DEF SettledOnTarget
    <2> QED  BY <1>2, <2>2, <2>3 DEF UpdateCurrents, ProcessPowerManager
  <1>3. ASSUME NEW expired, ProcessPhaseSwitch(expired) PROVE SettledOnTarget'
    <2>1. InTask /\ UNCHANGED <<commanded, pmDirty>>
        BY <1>3 DEF ProcessPhaseSwitch, SwitchAsleep, FaultAbort, MarkerTimeout, RecoverFromError,
           StartSwitch, StopConfirmed, StageTimeout, StopAgain, ApplyMode, ChargingResumed,
           RestartFailed, RestartAgain, NothingDue, InStages, switchVars
    <2>2. UNCHANGED <<pmActive, power, rounding, newRounding>>  BY <2>1 DEF InTask
    <2>3. CASE StartSwitch(expired)
      <3>1. CASE pmActive /\ applied' = Goal(commanded).amps
        <4>1. Goal(commanded)' = Goal(commanded)  BY <2>1, <2>2 DEF Goal
        <4> QED  BY <2>1, <2>2, <3>1, <4>1 DEF SettledOnTarget
      <3>2. CASE ~pmActive
          BY <2>2, <3>2, SettledKept
      <3> QED  BY <2>3, <3>1, <3>2 DEF StartSwitch
    <2>4. CASE ~StartSwitch(expired)
      <3>1. UNCHANGED applied
          BY <1>3, <2>4 DEF ProcessPhaseSwitch, SwitchAsleep, FaultAbort, MarkerTimeout,
             RecoverFromError, StopConfirmed, StageTimeout, StopAgain, ApplyMode,
             ChargingResumed, RestartFailed, RestartAgain, NothingDue
      <3> QED  BY <2>1, <2>2, <3>1, SettledKept DEF settledVars
    <2> QED  BY <2>3, <2>4
  <1>4. CASE Frame
    <2>1. CASE RxInfo
        BY <2>1, SettledKept DEF RxInfo, switchVars, powerVars, settledVars
    <2>2. ASSUME NEW g \in GdReports, RxStatus(g) PROVE SettledOnTarget'
        BY <2>2, SettledKept DEF RxStatus, InLoop, switchVars, settledVars
    <2>3. ASSUME NEW g \in GdReports, NEW n \in LoadReports, NEW l \in BOOLEAN, RxMeter(g, n, l)
          PROVE  SettledOnTarget'
        BY <2>3, SettledKept DEF RxMeter, ValidatePhaseCount, InLoop, settledVars
    <2>4. ASSUME NEW safe \in BOOLEAN, RxCp(safe) PROVE SettledOnTarget'
        BY <2>4, SettledKept DEF RxCp, InLoop, settledVars
    <2>5. CASE RxModeAck
        BY <2>5, SettledKept DEF RxModeAck, InLoop, switchVars, settledVars
    <2>6. ASSUME NEW m \in Phases, NEW handler \in BOOLEAN, NEW hook \in BOOLEAN,
                 RxReadback(m, handler, hook)
          PROVE  SettledOnTarget'
        BY <2>5, <2>6, SettledKept DEF RxReadback, TakeReadback, InLoop, settledVars
    <2>7. CASE RxLimitAck
      <3>1. UNCHANGED <<pmActive, power, rounding, newRounding>>
          BY <2>7 DEF RxLimitAck, FinishPhaseSwitch, InLoop
      <3>2. CASE stage # "confirming"
          BY <2>7, <3>1, <3>2, SettledKept DEF RxLimitAck, FinishPhaseSwitch, switchVars, settledVars
      <3>3. CASE stage = "confirming" /\ ~pmActive
          BY <3>1, <3>3, SettledKept
      <3>4. CASE stage = "confirming" /\ pmActive /\ Obsolete
        <4>1. commanded' = target /\ applied' = 0  BY <2>7, <3>4 DEF RxLimitAck, FinishPhaseSwitch
        <4>2. CASE power = Nobody
          <5>1. Goal(commanded)' = [phases |-> target, amps |-> 0]
              BY <3>1, <4>1, <4>2 DEF Goal
          <5> QED  BY <4>1, <5>1 DEF SettledOnTarget
        <4>3. CASE power # Nobody
          <5>1. pmDirty'  BY <2>7, <3>4, <4>3 DEF RxLimitAck, FinishPhaseSwitch
          <5> QED  BY <5>1, SettledKept
        <4> QED  BY <4>2, <4>3
      <3>5. CASE stage = "confirming" /\ pmActive /\ ~Obsolete
        <4>1. commanded' = target /\ applied' = Goal(target).amps
            BY <2>7, <3>5 DEF RxLimitAck, FinishPhaseSwitch
        <4>2. Goal(target).phases = target  BY <3>5 DEF Obsolete
        <4>3. target' = target /\ Goal(target)' = Goal(target)
            BY <2>7, <3>1, <3>5 DEF RxLimitAck, FinishPhaseSwitch, Goal
        <4> QED  BY <4>1, <4>2, <4>3 DEF SettledOnTarget
      <3> QED  BY <3>2, <3>3, <3>4, <3>5
    <2> QED  BY <1>4, <2>1, <2>2, <2>3, <2>4, <2>5, <2>6, <2>7 DEF Frame
  <1>5. ASSUME NEW b \in FirmwareUpdates, SetFirmwareUpdate(b) PROVE SettledOnTarget'
      BY <1>5, SettledKept DEF SetFirmwareUpdate, switchVars, powerVars, settledVars
  <1>6. CASE EspRestart  BY <1>6, SettledKept DEF EspRestart
  <1>7. CASE UNCHANGED vars
      BY <1>7, SettledKept DEF vars, switchVars, powerVars, settledVars
  <1> QED  BY <1>1, <1>2, <1>3, <1>4, <1>5, <1>6, <1>7 DEF Next, Task

-----------------------------------------------------------------------------
(* The types of the module and the bound on restart attempts hold for any  *)
(* frames, commands and deadlines; neither is inductive without the other, *)
(* as a restart that fails a third time must have been counted.            *)
LEMMA TypedRestarts == Spec => [](TypeOK /\ RestartsAcknowledgedMode)
  <1>1. Init => TypeOK /\ RestartsAcknowledgedMode
      BY TypeInit DEF Init, RestartsAcknowledgedMode
  <1>2. TypeOK /\ RestartsAcknowledgedMode /\ [Next]_vars
            => (TypeOK /\ RestartsAcknowledgedMode)'
      BY TypeInductive, RestartInductive
  <1> QED  BY <1>1, <1>2, PTL DEF Spec

(* Every variable keeps its type: attempts never exceeds three, currents   *)
(* never exceed 32 A, phase counts are one or three.                       *)
THEOREM SwitchIsTyped == Spec => []TypeOK
  BY TypedRestarts, PTL

(* Charging is only restarted in the mode the GD acknowledged last, and at *)
(* most three times.                                                       *)
THEOREM RestartsAreAcknowledged == Spec => []RestartsAcknowledgedMode
  BY TypedRestarts, PTL

(* A switch that has stopped charging pursues the phase count requested,   *)
(* until it has sent the mode.                                             *)
THEOREM SwitchPursuesRequest == Spec => []SwitchFollowsRequest
  <1>1. Init => SwitchFollowsRequest  BY DEF Init, SwitchFollowsRequest
  <1>2. TypeOK /\ SwitchFollowsRequest /\ [Next]_vars => SwitchFollowsRequest'
      BY PursuitInductive
  <1> QED  BY <1>1, <1>2, SwitchIsTyped, PTL DEF Spec

(* A power manager with nothing pending has applied the phases and the     *)
(* current of the last target, for every table calculate_power_target may  *)
(* compute.                                                                *)
THEOREM PowerTargetSettled == Spec => []SettledOnTarget
  <1>1. Init => SettledOnTarget  BY DEF Init, SettledOnTarget
  <1>2. TypeOK /\ SettledOnTarget /\ [Next]_vars => SettledOnTarget'
      BY SettledInductive
  <1> QED  BY <1>1, <1>2, SwitchIsTyped, PTL DEF Spec
=============================================================================
