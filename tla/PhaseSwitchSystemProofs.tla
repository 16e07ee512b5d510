---------------------- MODULE PhaseSwitchSystemProofs ----------------------
(***************************************************************************)
(* The closed loop.  It is one of the behaviours of the open PhaseSwitch,  *)
(* so whatever is proved there holds here; it keeps its types; and the     *)
(* power path gets what PhaseRelay promises, for any length of the receive *)
(* buffer and any choice of inputs, under the faults each theorem allows.  *)
(***************************************************************************)
EXTENDS PhaseSwitchSystem, PhaseSwitchProofs

Modes == {"mode1", "mode3"}

(* The part of SystemTypeOK that PhaseSwitch does not know.                *)
PlantTypes ==
    /\ gdMode \in Phases /\ gdHandler \in BOOLEAN /\ gdHook \in BOOLEAN
    /\ gdOn \in BOOLEAN /\ gdFault \in BOOLEAN
    /\ plugged \in BOOLEAN /\ evC \in BOOLEAN /\ cpLast \in BOOLEAN
    /\ relay \in Phases \cup {0}
    /\ wire \in Seq(Answers) /\ Len(wire) <= MaxWire

LEMMA StatusType == GdStatus \in GdStates
  BY DEF GdStatus, GdStates

(* The GD answers in kind.                                                 *)
LEMMA AnswerType ==
    ASSUME PlantTypes, NEW cmds
    PROVE  Answer(cmds) \in Seq(Answers)
  <1>1. [kind |-> "readback", mode |-> gdMode, handler |-> gdHandler, hook |-> gdHook] \in Answers
      BY DEF PlantTypes, Answers
  <1>2. [kind |-> "ack"] \in Answers /\ [kind |-> "limit"] \in Answers
      BY DEF Answers
  <1> QED  BY <1>1, <1>2 DEF Answer

LEMMA WireType ==
    ASSUME PlantTypes, NEW waiting \in Seq(Answers), GdObeys(waiting)
    PROVE  /\ wire' \in Seq(Answers) /\ Len(wire') <= MaxWire
           /\ gdMode' \in Phases /\ gdHandler' \in BOOLEAN /\ gdHook' \in BOOLEAN
           /\ gdOn' \in BOOLEAN
  <1>1. PICK cmds \in Delivered(sent') :
            /\ SelectMode(cmds)
            /\ gdOn' = (/\ "stop" \notin cmds
                        /\ gdOn \/ ("start" \in cmds /\ plugged /\ ~gdFault))
            /\ wire' = waiting \o Answer(cmds)
            /\ Len(wire') <= MaxWire
      BY DEF GdObeys
  <1>2. Answer(cmds) \in Seq(Answers)  BY AnswerType
  <1>3. wire' \in Seq(Answers)  BY <1>1, <1>2
  <1>4. gdMode' \in Phases /\ gdHandler' \in BOOLEAN /\ gdHook' \in BOOLEAN
      BY <1>1 DEF SelectMode, gdModeVars, PlantTypes, Phases
  <1> QED  BY <1>1, <1>3, <1>4

LEMMA TailType ==
    ASSUME PlantTypes, wire # <<>>
    PROVE  Tail(wire) \in Seq(Answers) /\ Len(Tail(wire)) <= MaxWire /\ Head(wire) \in Answers
  BY SystemAssumption DEF PlantTypes

LEMMA PlantTyped ==
    ASSUME PlantTypes, [SystemNext]_sysVars
    PROVE  PlantTypes'
  <1>1. ASSUME NEW waiting \in Seq(Answers), GdObeys(waiting),
               UNCHANGED <<gdFault, carVars, relay>>, cpLast' \in BOOLEAN
        PROVE  PlantTypes'
      BY <1>1, WireType DEF PlantTypes, carVars
  <1>2. ASSUME NEW waiting \in Seq(Answers), GdObeys(waiting),
               UNCHANGED <<gdFault, carVars, cpLast, relay>>
        PROVE  PlantTypes'
      BY <1>1, <1>2 DEF PlantTypes
  <1>3. wire \in Seq(Answers) /\ <<>> \in Seq(Answers)  BY DEF PlantTypes
  <1>4. CASE EspActs \/ EspTask \/ EspReboots \/ EspReadsReport
      BY <1>2, <1>3, <1>4 DEF EspActs, EspTask, EspReboots, EspReadsReport, Heard
  <1>5. CASE EspReadsPilot  BY <1>1, <1>3, <1>5 DEF EspReadsPilot
  <1>6. CASE EspReadsAnswer  BY <1>2, <1>6, TailType DEF EspReadsAnswer, Heard
  <1>7. CASE AnswerLost
      BY <1>7, TailType DEF AnswerLost, plantVars, gdModeVars, carVars, PlantTypes
  <1>8. CASE GdCloses \/ GdDetectsFault \/ GdClearsFault \/ GdRestart
      BY <1>8 DEF GdCloses, GdDetectsFault, GdClearsFault, GdRestart, gdModeVars, carVars,
                  PlantTypes, Phases
  <1>9. CASE EvDemands \/ EvReleases \/ Unplug \/ Plug
      BY <1>9 DEF EvDemands, EvReleases, Unplug, Plug, gdModeVars, carVars, PlantTypes
  <1>10. CASE UNCHANGED sysVars
      BY <1>10 DEF sysVars, plantVars, gdModeVars, carVars, PlantTypes
  <1> QED  BY <1>4, <1>5, <1>6, <1>7, <1>8, <1>9, <1>10 DEF SystemNext

LEMMA PlantInit == SystemInit => PlantTypes
  <1> SUFFICES ASSUME SystemInit PROVE PlantTypes
      OBVIOUS
  <1>1. gdMode \in Phases /\ relay \in Phases \cup {0}  BY DEF SystemInit, Phases
  <1>2. /\ gdHandler \in BOOLEAN /\ gdHook \in BOOLEAN /\ gdOn \in BOOLEAN /\ gdFault \in BOOLEAN
        /\ plugged \in BOOLEAN /\ evC \in BOOLEAN /\ cpLast \in BOOLEAN
      BY Zenon DEF SystemInit
  <1>3. wire \in Seq(Answers) /\ Len(wire) <= MaxWire
      BY SystemAssumption DEF SystemInit
  <1> QED  BY <1>1, <1>2, <1>3 DEF PlantTypes

(* A step of the loop is a step of the open controller, or none.           *)
LEMMA LoopStep ==
    ASSUME PlantTypes, [SystemNext]_sysVars
    PROVE  [Next]_vars
  <1>1. CASE EspActs  BY <1>1 DEF EspActs, Heard, Next
  <1>2. CASE EspTask  BY <1>2 DEF EspTask, Heard, SwitchRun, Task, Next
  <1>3. CASE EspReboots  BY <1>3 DEF EspReboots, Heard, Next
  <1>4. CASE EspReadsReport
    <2>1. GdStatus \in GdReports  BY StatusType, SystemAssumption
    <2>2. Report => Frame  BY <2>1 DEF Report, Frame
    <2> QED  BY <1>4, <2>2 DEF EspReadsReport, Heard, Next
  <1>5. CASE EspReadsPilot
    <2>1. PICK safe \in BOOLEAN : safe = ~evC
      <3>1. CASE evC  BY <3>1, FALSE = ~evC
      <3>2. CASE ~evC  BY <3>2, TRUE = ~evC
      <3> QED  BY <3>1, <3>2
    <2> QED  BY <1>5, <2>1 DEF EspReadsPilot, Frame, Next
  <1>6. CASE EspReadsAnswer
    <2> DEFINE a == Head(wire)
    <2>1. a \in Answers /\ AnswerFrame(a)
        BY <1>6, TailType DEF EspReadsAnswer, Heard
    <2>2. a.kind = "readback" => a.mode \in Phases /\ a.handler \in BOOLEAN /\ a.hook \in BOOLEAN
        BY <2>1 DEF Answers
    <2> HIDE DEF a
    <2>3. Frame  BY <2>1, <2>2 DEF AnswerFrame, Frame
    <2> QED  BY <2>3 DEF Next
  <1>7. CASE AnswerLost  BY <1>7 DEF AnswerLost
  <1>8. CASE GdCloses \/ GdDetectsFault \/ GdClearsFault \/ GdRestart
      BY <1>8 DEF GdCloses, GdDetectsFault, GdClearsFault, GdRestart
  <1>9. CASE EvDemands \/ EvReleases \/ Unplug \/ Plug
      BY <1>9 DEF EvDemands, EvReleases, Unplug, Plug
  <1>10. CASE UNCHANGED sysVars  BY <1>10 DEF sysVars
  <1> QED  BY <1>1, <1>2, <1>3, <1>4, <1>5, <1>6, <1>7, <1>8, <1>9, <1>10 DEF SystemNext

LEMMA PlantIsTyped == SystemSpec => []PlantTypes
  <1>1. PlantTypes /\ [SystemNext]_sysVars => PlantTypes'  BY PlantTyped
  <1> QED  BY <1>1, PlantInit, PTL DEF SystemSpec

(* The controller in the loop is the controller of PhaseSwitch: what it    *)
(* does with any frames at any time, it does with this GD and this vehicle *)
(* in particular.                                                          *)
THEOREM LoopImplementsSwitch == SystemSpec => Spec
  <1>1. SystemInit => Init  BY DEF SystemInit
  <1>2. PlantTypes /\ [SystemNext]_sysVars => [Next]_vars  BY LoopStep
  <1> QED  BY <1>1, <1>2, PlantIsTyped, PTL DEF SystemSpec, Spec

(* Every variable of the loop keeps its type, and the answers that wait    *)
(* stay within the receive buffer.                                         *)
THEOREM SystemIsTyped == SystemSpec => []SystemTypeOK
  <1>1. PlantTypes /\ TypeOK => SystemTypeOK  BY DEF PlantTypes, SystemTypeOK
  <1> QED  BY <1>1, PlantIsTyped, LoopImplementsSwitch, SwitchIsTyped, PTL

-----------------------------------------------------------------------------
(* The power path.                                                         *)

(* Only ApplyMode sends a mode.                                            *)
LEMMA TaskSendsMode ==
    ASSUME NEW expired, ProcessPhaseSwitch(expired)
    PROVE  \/ sent' \cap Modes = {}
           \/ ApplyMode(expired) /\ sent' \cap Modes = {ModeCommand(target)}
  <1>1. Gets(expired) \cap Modes = {} /\ Resent(expired) \cap Modes = {}
      BY DEF Gets, Resent, Modes
  <1>2. CASE SwitchAsleep \/ FaultAbort  BY <1>2 DEF SwitchAsleep, FaultAbort
  <1>3. CASE MarkerTimeout(expired)  BY <1>1, <1>3 DEF MarkerTimeout, Modes
  <1>4. ASSUME NEW cmds, cmds \cap Modes = {}, InStages(expired, cmds)
        PROVE  sent' \cap Modes = {}
      BY <1>1, <1>4 DEF InStages
  <1>5. {} \cap Modes = {} /\ {"stop"} \cap Modes = {} /\ {"start"} \cap Modes = {}
      BY DEF Modes
  <1>6. CASE \/ RecoverFromError(expired) \/ StartSwitch(expired) \/ StopConfirmed(expired)
             \/ StageTimeout(expired) \/ StopAgain(expired) \/ ChargingResumed(expired)
             \/ RestartFailed(expired) \/ RestartAgain(expired) \/ NothingDue(expired)
      BY <1>4, <1>5, <1>6
      DEF RecoverFromError, StartSwitch, StopConfirmed, StageTimeout, StopAgain,
          ChargingResumed, RestartFailed, RestartAgain, NothingDue
  <1>7. CASE ApplyMode(expired)
    <2>1. sent' = {ModeCommand(target)} \cup Gets(expired)
        BY <1>7 DEF ApplyMode, InStages
    <2>2. ModeCommand(target) \in Modes  BY DEF ModeCommand, Modes
    <2> QED  BY <1>1, <1>7, <2>1, <2>2
  <1> QED  BY <1>2, <1>3, <1>6, <1>7 DEF ProcessPhaseSwitch

LEMMA OthersSendNoMode ==
    ASSUME \/ Command \/ (\E b \in FirmwareUpdates : SetFirmwareUpdate(b)) \/ UpdateCurrents
           \/ Report \/ (\E safe \in BOOLEAN : RxCp(safe)) \/ (\E a \in Answers : AnswerFrame(a))
    PROVE  sent' \cap Modes = {}
  <1>1. CASE Command
      BY <1>1 DEF Command, RejectRequest, RequestPhases, RequestPower, WriteRounding,
                  RoundingWritten, SetSlots
  <1>2. CASE UpdateCurrents
      BY <1>2 DEF UpdateCurrents, SlotMachine, SlotCommands, Modes
  <1>3. CASE Report
      BY <1>3 DEF Report, RxInfo, RxStatus, RxMeter, ValidatePhaseCount, Modes
  <1>4. ASSUME NEW a \in Answers, AnswerFrame(a) PROVE sent' \cap Modes = {}
    <2>1. CASE RxModeAck \/ RxLimitAck
        BY <2>1 DEF RxModeAck, RxLimitAck, FinishPhaseSwitch, Modes
    <2>2. CASE RxReadback(a.mode, a.handler, a.hook)
        BY <2>2 DEF RxReadback, TakeReadback, RxModeAck, Modes
    <2> QED  BY <1>4, <2>1, <2>2 DEF AnswerFrame
  <1> QED  BY <1>1, <1>2, <1>3, <1>4 DEF SetFirmwareUpdate, RxCp

(* Without a mode the GD keeps the one it has.                             *)
LEMMA NoModeNoChange ==
    ASSUME NEW waiting, GdObeys(waiting), sent' \cap Modes = {}
    PROVE  UNCHANGED gdModeVars
  <1>1. PICK cmds \in Delivered(sent') : SelectMode(cmds)  BY DEF GdObeys
  <1>2. cmds \cap {"mode1", "mode3"} = {}  BY DEF Delivered, Modes
  <1> QED  BY <1>1, <1>2 DEF SelectMode

-----------------------------------------------------------------------------
(* The mode is selected with open contactors.                              *)

(* A CP proof that counts is the last sample, as long as samples are not   *)
(* late, and closed contactors mean a vehicle that holds them closed.      *)
Counting == {"stopping", "offdelay"}
ProofIsLast == stage \in Counting /\ cpSafe => cpLast
ClosedIsLoaded == (relay # 0 => evC /\ ~gdFault) /\ (evC => plugged)

LEMMA ProofKept ==
    ASSUME ProofIsLast, UNCHANGED <<cpSafe, cpLast>>,
           stage' \in Counting => stage \in Counting
    PROVE  ProofIsLast'
  BY DEF ProofIsLast

LEMMA TaskKeepsProof ==
    ASSUME NEW expired, ProcessPhaseSwitch(expired), ProofIsLast, UNCHANGED cpLast
    PROVE  ProofIsLast'
  <1>1. CASE StartSwitch(expired)  BY <1>1 DEF StartSwitch, CpProofAtStart, ProofIsLast
  <1>2. CASE SwitchAsleep \/ FaultAbort \/ MarkerTimeout(expired)
      BY <1>2, ProofKept DEF SwitchAsleep, FaultAbort, MarkerTimeout, switchVars, Counting
  <1>3. CASE \/ RecoverFromError(expired) \/ StopConfirmed(expired) \/ StageTimeout(expired)
             \/ StopAgain(expired) \/ ApplyMode(expired)
      BY <1>3, ProofKept
      DEF RecoverFromError, StopConfirmed, StageTimeout, StopAgain, ApplyMode, Counting
  <1>4. CASE \/ ChargingResumed(expired) \/ RestartFailed(expired) \/ RestartAgain(expired)
             \/ NothingDue(expired)
      BY <1>4, ProofKept
      DEF ChargingResumed, RestartFailed, RestartAgain, NothingDue, switchVars, Counting
  <1> QED  BY <1>1, <1>2, <1>3, <1>4 DEF ProcessPhaseSwitch

LEMMA OthersKeepProof ==
    ASSUME \/ Command \/ (\E b \in FirmwareUpdates : SetFirmwareUpdate(b)) \/ UpdateCurrents
           \/ Report \/ (\E a \in Answers : AnswerFrame(a)),
           ProofIsLast, UNCHANGED cpLast
    PROVE  ProofIsLast'
  <1>1. CASE Command
      BY <1>1, ProofKept DEF Command, RejectRequest, RequestPhases, RequestPower, WriteRounding,
                             RoundingWritten, SetSlots, switchVars, Counting
  <1>2. CASE UpdateCurrents \/ \E b \in FirmwareUpdates : SetFirmwareUpdate(b)
      BY <1>2, ProofKept DEF UpdateCurrents, SetFirmwareUpdate, switchVars
  <1>3. CASE Report
      BY <1>3, ProofKept
      DEF Report, RxInfo, RxStatus, RxMeter, ValidatePhaseCount, switchVars, Counting
  <1>4. ASSUME NEW a \in Answers, AnswerFrame(a) PROVE ProofIsLast'
    <2>1. CASE RxModeAck \/ RxLimitAck
        BY <2>1, ProofKept DEF RxModeAck, RxLimitAck, FinishPhaseSwitch, switchVars, Counting
    <2>2. CASE RxReadback(a.mode, a.handler, a.hook)
        BY <2>2, ProofKept DEF RxReadback, TakeReadback, RxModeAck, switchVars, Counting
    <2> QED  BY <1>4, <2>1, <2>2 DEF AnswerFrame
  <1> QED  BY <1>1, <1>2, <1>3, <1>4

LEMMA ProofInductive ==
    ASSUME "lateReports" \notin Faults, ProofIsLast, PlantTypes, [SystemNext]_sysVars
    PROVE  ProofIsLast'
  <1>1. CASE EspActs  BY <1>1, OthersKeepProof DEF EspActs, Heard
  <1>2. CASE EspTask  BY <1>2, OthersKeepProof, TaskKeepsProof DEF EspTask, Heard, SwitchRun
  <1>3. CASE EspReboots  BY <1>3 DEF EspReboots, Heard, EspRestart, ProofIsLast, Counting
  <1>4. CASE EspReadsReport  BY <1>4, OthersKeepProof DEF EspReadsReport, Heard
  <1>5. CASE EspReadsPilot
      BY <1>5 DEF EspReadsPilot, RxCp, CpCounts, ProofIsLast, Counting
  <1>6. CASE EspReadsAnswer  BY <1>6, OthersKeepProof, TailType DEF EspReadsAnswer, Heard
  <1>7. CASE \/ AnswerLost \/ GdCloses \/ GdDetectsFault \/ GdClearsFault \/ GdRestart
             \/ EvDemands \/ EvReleases \/ Unplug \/ Plug \/ UNCHANGED sysVars
    <2>1. UNCHANGED <<stage, cpSafe, cpLast>>
        BY <1>7 DEF AnswerLost, GdCloses, GdDetectsFault, GdClearsFault, GdRestart, EvDemands,
                    EvReleases, Unplug, Plug, sysVars, plantVars, vars, switchVars
    <2> QED  BY <2>1, ProofKept
  <1> QED  BY <1>1, <1>2, <1>3, <1>4, <1>5, <1>6, <1>7 DEF SystemNext

LEMMA LoadInductive ==
    ASSUME ClosedIsLoaded, [SystemNext]_sysVars
    PROVE  ClosedIsLoaded'
  <1>1. CASE \/ EspActs \/ EspTask \/ EspReboots \/ EspReadsReport \/ EspReadsPilot
             \/ EspReadsAnswer \/ AnswerLost \/ UNCHANGED sysVars
    <2>1. UNCHANGED <<gdFault, plugged, evC, relay>>
        BY <1>1 DEF EspActs, EspTask, EspReboots, EspReadsReport, EspReadsPilot, EspReadsAnswer,
                    AnswerLost, Heard, sysVars, plantVars, carVars
    <2> QED  BY <2>1 DEF ClosedIsLoaded
  <1>2. CASE GdCloses \/ GdDetectsFault \/ GdClearsFault \/ GdRestart
    <2>1. CASE GdCloses  BY <2>1 DEF GdCloses, ClosedIsLoaded, carVars
    <2>2. CASE GdDetectsFault  BY <2>2 DEF GdDetectsFault, ClosedIsLoaded, carVars
    <2>3. CASE GdClearsFault  BY <2>3 DEF GdClearsFault, ClosedIsLoaded, carVars
    <2>4. CASE GdRestart  BY <2>4 DEF GdRestart, ClosedIsLoaded, carVars
    <2> QED  BY <1>2, <2>1, <2>2, <2>3, <2>4
  <1>3. CASE EvDemands \/ EvReleases \/ Unplug \/ Plug
    <2>1. CASE EvDemands  BY <2>1 DEF EvDemands, ClosedIsLoaded
    <2>2. CASE EvReleases \/ Unplug  BY <2>2 DEF EvReleases, Unplug, ClosedIsLoaded
    <2>3. CASE Plug  BY <2>3 DEF Plug, ClosedIsLoaded
    <2> QED  BY <1>3, <2>1, <2>2, <2>3
  <1> QED  BY <1>1, <1>2, <1>3 DEF SystemNext

(* ApplyMode meets open contactors: closed ones would be a vehicle in      *)
(* state C, which the status does not hide and the CP proof excludes.      *)
LEMMA AppliedWhenOpen ==
    ASSUME ProofIsLast, ClosedIsLoaded, PlantTypes, ReportsHold, NEW expired, ApplyMode(expired)
    PROVE  relay = 0
  <1> SUFFICES ASSUME relay # 0 PROVE FALSE
      OBVIOUS
  <1>1. evC /\ plugged /\ ~gdFault  BY DEF ClosedIsLoaded
  <1>2. gdSeen \in {"preparing", "charging"}  BY <1>1 DEF ReportsHold, GdStatus
  <1>3. Iec(gdSeen) # "A"  BY <1>2 DEF Iec
  <1>4. stage = "offdelay" /\ cpSafe  BY <1>3 DEF ApplyMode, LoadIsBack, Released
  <1>5. cpLast  BY <1>4 DEF ProofIsLast, Counting
  <1>6. cpLast = ~evC  BY <1>1 DEF ReportsHold
  <1> QED  BY <1>1, <1>5, <1>6

LEMMA PathGuarded ==
    ASSUME "lateReports" \notin Faults
    PROVE  SystemSpec => [](ProofIsLast /\ ClosedIsLoaded)
  <1>1. SystemInit => ProofIsLast /\ ClosedIsLoaded
      BY DEF SystemInit, Init, ProofIsLast, ClosedIsLoaded
  <1>2. PlantTypes /\ ProofIsLast /\ ClosedIsLoaded /\ [SystemNext]_sysVars
            => (ProofIsLast /\ ClosedIsLoaded)'
      BY ProofInductive, LoadInductive
  <1> QED  BY <1>1, <1>2, PlantIsTyped, PTL DEF SystemSpec

(* How a step touches the power path: a mode is selected while they are    *)
(* open or by a booting controller, the contactors close with the mode in  *)
(* force, or they open.                                                    *)
LEMMA PathStep ==
    ASSUME "lateReports" \notin Faults, ProofIsLast, ClosedIsLoaded, PlantTypes,
           [SystemNext]_sysVars
    PROVE  \/ UNCHANGED <<gdMode, relay>>
           \/ (\E expired : ApplyMode(expired)) /\ relay = 0 /\ UNCHANGED relay
           \/ GdCloses
           \/ relay' = 0 /\ (gdMode' = gdMode \/ GdRestart) /\ UNCHANGED vars
           \/ EspReboots
  <1>1. CASE EspActs \/ EspReadsReport \/ EspReadsPilot \/ EspReadsAnswer
    <2>1. sent' \cap Modes = {} /\ UNCHANGED relay /\ \E waiting : GdObeys(waiting)
      <3>1. CASE EspActs  BY <3>1, OthersSendNoMode DEF EspActs, Heard
      <3>2. CASE EspReadsReport  BY <3>2, OthersSendNoMode DEF EspReadsReport, Heard
      <3>3. CASE EspReadsPilot
          BY <3>3 DEF EspReadsPilot, RxCp
      <3>4. CASE EspReadsAnswer  BY <3>4, OthersSendNoMode, TailType DEF EspReadsAnswer, Heard
      <3> QED  BY <1>1, <3>1, <3>2, <3>3, <3>4
    <2> QED  BY <2>1, NoModeNoChange DEF gdModeVars
  <1>2. CASE EspTask
    <2>1. CASE Heard(UpdateCurrents, wire)
        BY <2>1, OthersSendNoMode, NoModeNoChange DEF Heard, gdModeVars
    <2>2. ASSUME NEW expired \in SUBSET Running, Heard(SwitchRun(expired), wire)
          PROVE  \/ UNCHANGED <<gdMode, relay>>
                 \/ ApplyMode(expired) /\ relay = 0 /\ UNCHANGED relay
      <3>1. ProcessPhaseSwitch(expired) /\ GdObeys(wire) /\ UNCHANGED relay
          BY <2>2 DEF Heard, SwitchRun
      <3>2. CASE sent' \cap Modes = {}  BY <3>1, <3>2, NoModeNoChange DEF gdModeVars
      <3>3. CASE ApplyMode(expired) /\ sent' \cap Modes = {ModeCommand(target)}
        <4>1. ReportsHold  BY <2>2, <3>3 DEF Heard, SwitchRun
        <4> QED  BY <3>1, <3>3, <4>1, AppliedWhenOpen
      <3> QED  BY <3>1, <3>2, <3>3, TaskSendsMode
    <2> QED  BY <1>2, <2>1, <2>2 DEF EspTask
  <1>3. CASE \/ GdDetectsFault \/ GdRestart \/ EvReleases \/ Unplug
      BY <1>3 DEF GdDetectsFault, GdRestart, EvReleases, Unplug, gdModeVars
  <1>4. CASE \/ AnswerLost \/ GdClearsFault \/ EvDemands \/ Plug \/ UNCHANGED sysVars
      BY <1>4 DEF AnswerLost, GdClearsFault, EvDemands, Plug, sysVars, plantVars, gdModeVars
  <1> QED  BY <1>1, <1>2, <1>3, <1>4 DEF SystemNext

(* The contactors never connect other phases than the GD is set to, with   *)
(* commands and answers lost, faults, restarts of the GD and the cable     *)
(* pulled and put back in at any time, as long as the reports are not      *)
(* later than the off delay and the controller does not boot under load.   *)
THEOREM ContactorsFollowMode ==
    ASSUME {"lateReports", "espRestart"} \cap Faults = {}
    PROVE  SystemSpec => []ModeChangesOnlyWhenOpen
  <1>1. SystemInit => ModeChangesOnlyWhenOpen
      BY DEF SystemInit, ModeChangesOnlyWhenOpen
  <1>2. ASSUME ModeChangesOnlyWhenOpen, ProofIsLast, ClosedIsLoaded, PlantTypes,
               [SystemNext]_sysVars
        PROVE  ModeChangesOnlyWhenOpen'
      BY <1>2, PathStep DEF ModeChangesOnlyWhenOpen, GdCloses, EspReboots
  <1>3. SystemSpec => [](ProofIsLast /\ ClosedIsLoaded)  BY PathGuarded
  <1> QED  BY <1>1, <1>2, <1>3, PlantIsTyped, PTL DEF SystemSpec

-----------------------------------------------------------------------------
(* A lost command or answer leaves answers of an older mode in the receive *)
(* buffer.                                                                 *)

(* A readback that says what the GD would still say.                       *)
IsReadback(a) == a.kind = "readback"
Fresh(a)      == IsReadback(a) => a.mode = gdMode /\ (a.hook => gdHook)
AllFresh(w)   == \A i \in 1..Len(w) : Fresh(w[i])
OfMode(w, m)  == \A i \in 1..Len(w) : IsReadback(w[i]) => w[i].mode = m

(* From the mode believed in to the other one the GD changes once: a       *)
(* readback of the other mode has none of the mode believed in behind it.  *)
InOrder(w) ==
    \A i \in 1..Len(w) :
        IsReadback(w[i]) /\ w[i].mode # commanded =>
            /\ gdMode # commanded
            /\ \A j \in 1..Len(w) : i < j /\ IsReadback(w[j]) => w[j].mode # commanded

(* A close marker that the GD would still give.                            *)
Marked        == gdMode = 1 /\ gdHook
IsMark(a)     == IsReadback(a) /\ a.mode = 1 /\ a.hook
MarksFresh(w) == \A i \in 1..Len(w) : IsMark(w[i]) => Marked

(* A readback is only outdated by a mode command, whose acknowledgement    *)
(* waits behind it.                                                        *)
AckBehind(w) ==
    \A i \in 1..Len(w) : ~Fresh(w[i]) => \E j \in 1..Len(w) : i < j /\ w[j].kind = "ack"

(* A readback that is outdated has no acknowledged limit in front of it, or *)
(* one with no readback in front of that.                                  *)
NoLimitAhead(w) ==
    \A i, j \in 1..Len(w) : i < j /\ w[i].kind = "limit" => Fresh(w[j])
NoReadbackAhead(w) ==
    \A h, i, j \in 1..Len(w) :
        h < i /\ i < j /\ IsReadback(w[h]) /\ w[i].kind = "limit" => Fresh(w[j])

LEMMA Concatenated ==
    ASSUME NEW v \in Seq(Answers), NEW w \in Seq(Answers), NEW i \in 1..Len(v \o w)
    PROVE  \/ i \in 1..Len(v) /\ (v \o w)[i] = v[i]
           \/ i - Len(v) \in 1..Len(w) /\ (v \o w)[i] = w[i - Len(v)]
  OBVIOUS

LEMMA Joined ==
    ASSUME NEW v \in Seq(Answers), NEW w \in Seq(Answers)
    PROVE  /\ Len(v \o w) = Len(v) + Len(w)
           /\ \A i \in 1..Len(v) : (v \o w)[i] = v[i]
           /\ \A i \in 1..Len(w) : (v \o w)[Len(v) + i] = w[i]
  OBVIOUS

(* What the GD answers is fresh, but for a mode command in the same run.   *)
LEMMA AnswerFresh ==
    ASSUME PlantTypes, NEW cmds
    PROVE  AllFresh(Answer(cmds)) /\ MarksFresh(Answer(cmds))
  <1> DEFINE r == [kind |-> "readback", mode |-> gdMode, handler |-> gdHandler, hook |-> gdHook]
             first  == IF "get" \in cmds THEN <<r>> ELSE <<>>
             second == IF cmds \cap {"mode1", "mode3"} # {} THEN <<[kind |-> "ack"]>> ELSE <<>>
             third  == IF "profile" \in cmds THEN <<[kind |-> "limit"]>> ELSE <<>>
  <1>1. Answer(cmds) = (first \o second) \o third  BY DEF Answer
  <1>2. r \in Answers  BY DEF PlantTypes, Answers
  <1>3. [kind |-> "ack"] \in Answers /\ [kind |-> "limit"] \in Answers
      BY DEF Answers
  <1>4. Fresh(r) /\ (IsMark(r) => Marked)  BY DEF Fresh, IsReadback, IsMark, Marked
  <1>5. \A a : a.kind # "readback" => Fresh(a) /\ ~IsMark(a)  BY DEF Fresh, IsReadback, IsMark
  <1>6. /\ first \in Seq(Answers)
        /\ \A i \in 1..Len(first) : Fresh(first[i]) /\ (IsMark(first[i]) => Marked)
    <2> HIDE DEF r
    <2>1. CASE "get" \in cmds
      <3>1. first = <<r>>  BY <2>1
      <3> HIDE DEF first
      <3> QED  BY <3>1, <1>2, <1>4
    <2>2. CASE "get" \notin cmds
      <3>1. first = <<>>  BY <2>2
      <3> HIDE DEF first
      <3> QED  BY <3>1
    <2> QED  BY <2>1, <2>2
  <1>7. /\ second \in Seq(Answers)
        /\ \A i \in 1..Len(second) : Fresh(second[i]) /\ (IsMark(second[i]) => Marked)
    <2>1. second = <<[kind |-> "ack"]>> \/ second = <<>>
        OBVIOUS
    <2> HIDE DEF second
    <2>2. CASE second = <<[kind |-> "ack"]>>
      <3> DEFINE a == [kind |-> "ack"]
      <3>1. a \in Answers /\ Fresh(a) /\ ~IsMark(a)  BY <1>3, <1>5
      <3>2. second = <<a>>  BY <2>2
      <3> HIDE DEF a
      <3> QED  BY <3>1, <3>2
    <2>3. CASE second = <<>>  BY <2>3
    <2> QED  BY <2>1, <2>2, <2>3
  <1>8. /\ third \in Seq(Answers)
        /\ \A i \in 1..Len(third) : Fresh(third[i]) /\ (IsMark(third[i]) => Marked)
    <2>1. third = <<[kind |-> "limit"]>> \/ third = <<>>
        OBVIOUS
    <2> HIDE DEF third
    <2>2. CASE third = <<[kind |-> "limit"]>>
      <3> DEFINE a == [kind |-> "limit"]
      <3>1. a \in Answers /\ Fresh(a) /\ ~IsMark(a)  BY <1>3, <1>5
      <3>2. third = <<a>>  BY <2>2
      <3> HIDE DEF a
      <3> QED  BY <3>1, <3>2
    <2>3. CASE third = <<>>  BY <2>3
    <2> QED  BY <2>1, <2>2, <2>3
  <1> HIDE DEF first, second, third
  <1>9. first \o second \in Seq(Answers)  BY <1>6, <1>7
  <1>10. \A i \in 1..Len(first \o second) :
            Fresh((first \o second)[i]) /\ (IsMark((first \o second)[i]) => Marked)
      BY <1>6, <1>7, Concatenated
  <1>11. \A i \in 1..Len(Answer(cmds)) :
            Fresh(Answer(cmds)[i]) /\ (IsMark(Answer(cmds)[i]) => Marked)
    <2> DEFINE front == first \o second
    <2>1. front \in Seq(Answers) /\ Answer(cmds) = front \o third
          /\ \A i \in 1..Len(front) : Fresh(front[i]) /\ (IsMark(front[i]) => Marked)
        BY <1>1, <1>9, <1>10
    <2> HIDE DEF front
    <2> QED  BY <2>1, <1>8, Concatenated
  <1> QED  BY <1>11 DEF AllFresh, MarksFresh

(* Taking the first answer away leaves the others as they are.             *)
LEMMA TailFresh ==
    ASSUME PlantTypes, wire # <<>>
    PROVE  /\ AllFresh(wire) => AllFresh(Tail(wire))
           /\ MarksFresh(wire) => MarksFresh(Tail(wire)) /\ (IsMark(Head(wire)) => Marked)
           /\ OfMode(wire, gdMode) => OfMode(Tail(wire), gdMode)
           /\ InOrder(wire) => InOrder(Tail(wire))
           /\ AckBehind(wire) => AckBehind(Tail(wire))
           /\ NoLimitAhead(wire) => NoLimitAhead(Tail(wire))
           /\ NoReadbackAhead(wire) => NoReadbackAhead(Tail(wire))
  <1> DEFINE t == Tail(wire)
             n == Len(wire)
  <1>1. wire \in Seq(Answers) /\ n \in Nat /\ n >= 1  BY DEF PlantTypes
  <1>2. Len(t) = n - 1 /\ (\A i \in 1..n - 1 : t[i] = wire[i + 1]) /\ Head(wire) = wire[1]
      BY <1>1
  <1>3. \A i \in 1..Len(t) : i + 1 \in 1..n /\ t[i] = wire[i + 1] /\ i \in Int
      BY <1>1, <1>2
  <1>4. \A i, j \in 1..Len(t) : i < j <=> i + 1 < j + 1  BY <1>1, <1>2
  <1> HIDE DEF t, n
  <1>5. AllFresh(wire) => AllFresh(t)  BY <1>3 DEF AllFresh, n
  <1>6. MarksFresh(wire) => MarksFresh(t) /\ (IsMark(Head(wire)) => Marked)
      BY <1>1, <1>2, <1>3 DEF MarksFresh, n
  <1>7. OfMode(wire, gdMode) => OfMode(t, gdMode)  BY <1>3 DEF OfMode, n
  <1>8. InOrder(wire) => InOrder(t)
    <2>1. ASSUME InOrder(wire), NEW i \in 1..Len(t), IsReadback(t[i]), t[i].mode # commanded
          PROVE  gdMode # commanded
        BY <1>3, <2>1 DEF InOrder, n
    <2>2. ASSUME InOrder(wire), NEW i \in 1..Len(t), IsReadback(t[i]), t[i].mode # commanded,
                 NEW j \in 1..Len(t), i < j, IsReadback(t[j])
          PROVE  t[j].mode # commanded
      <3>1. i + 1 \in 1..n /\ j + 1 \in 1..n /\ i + 1 < j + 1  BY <1>3, <1>4, <2>2
      <3> QED  BY <1>3, <2>2, <3>1 DEF InOrder, n
    <2> QED  BY <2>1, <2>2 DEF InOrder
  <1>9. ASSUME AckBehind(wire), NEW i \in 1..Len(t), ~Fresh(t[i])
        PROVE  \E j \in 1..Len(t) : i < j /\ t[j].kind = "ack"
    <2>1. PICK j \in 1..n : i + 1 < j /\ wire[j].kind = "ack"
        BY <1>3, <1>9 DEF AckBehind, n
    <2>2. j - 1 \in 1..Len(t) /\ i < j - 1 /\ t[j - 1] = wire[j]
        BY <2>1, <1>1, <1>2
    <2> QED  BY <2>1, <2>2
  <1>10. AckBehind(wire) => AckBehind(t)  BY <1>9 DEF AckBehind
  <1>11. NoLimitAhead(wire) => NoLimitAhead(t)
      BY <1>3, <1>4 DEF NoLimitAhead, n
  <1>12. NoReadbackAhead(wire) => NoReadbackAhead(t)
      BY <1>3, <1>4 DEF NoReadbackAhead, n
  <1> QED  BY <1>5, <1>6, <1>7, <1>8, <1>10, <1>11, <1>12 DEF t

(* What the answer that is read says of those behind it.                   *)
LEMMA HeadTells ==
    ASSUME PlantTypes, commanded \in Phases, wire # <<>>
    PROVE  /\ InOrder(wire) /\ IsReadback(Head(wire)) /\ Head(wire).mode # commanded
                => gdMode # commanded /\ OfMode(Tail(wire), gdMode)
           /\ NoLimitAhead(wire) /\ Head(wire).kind = "limit" => AllFresh(Tail(wire))
           /\ NoReadbackAhead(wire) /\ IsReadback(Head(wire)) => NoLimitAhead(Tail(wire))
           /\ AckBehind(wire) /\ Len(wire) <= 4 => NoReadbackAhead(Tail(wire))
  <1> DEFINE t == Tail(wire)
             n == Len(wire)
  <1>1. wire \in Seq(Answers) /\ n \in Nat /\ n >= 1  BY DEF PlantTypes
  <1>2. Len(t) = n - 1 /\ (\A i \in 1..n - 1 : t[i] = wire[i + 1]) /\ Head(wire) = wire[1]
      BY <1>1
  <1>3. \A i \in 1..Len(t) : i + 1 \in 1..n /\ t[i] = wire[i + 1] /\ 1 < i + 1
      BY <1>1, <1>2
  <1>4. \A i, j \in 1..Len(t) : i < j <=> i + 1 < j + 1  BY <1>1, <1>2
  <1>5. \A i \in 1..Len(t) : IsReadback(t[i]) => t[i].mode \in Phases
    <2> SUFFICES ASSUME NEW i \in 1..Len(t), IsReadback(t[i]) PROVE t[i].mode \in Phases
        OBVIOUS
    <2>1. t[i] \in Answers  BY <1>1, <1>3
    <2> HIDE DEF t
    <2> QED  BY <2>1 DEF Answers, IsReadback
  <1>6. 1 \in 1..n  BY <1>1
  <1> HIDE DEF t, n
  <1>7. ASSUME InOrder(wire), IsReadback(Head(wire)), Head(wire).mode # commanded
        PROVE  gdMode # commanded /\ OfMode(t, gdMode)
    <2>1. gdMode # commanded /\ \A j \in 1..n : 1 < j /\ IsReadback(wire[j])
                                                  => wire[j].mode # commanded
        BY <1>2, <1>6, <1>7 DEF InOrder, n
    <2>2. \A i \in 1..Len(t) : IsReadback(t[i]) => t[i].mode # commanded
        BY <1>3, <2>1
    <2> QED  BY <1>5, <2>1, <2>2 DEF OfMode, Phases, PlantTypes
  <1>8. NoLimitAhead(wire) /\ Head(wire).kind = "limit" => AllFresh(t)
      BY <1>2, <1>3, <1>6 DEF NoLimitAhead, AllFresh, n
  <1>9. NoReadbackAhead(wire) /\ IsReadback(Head(wire)) => NoLimitAhead(t)
      BY <1>2, <1>3, <1>4, <1>6 DEF NoReadbackAhead, NoLimitAhead, n
  <1>10. ASSUME AckBehind(wire), n <= 4,
                NEW h \in 1..Len(t), NEW i \in 1..Len(t), NEW j \in 1..Len(t),
                h < i, i < j, ~Fresh(t[j])
         PROVE  FALSE
    <2>1. PICK k \in 1..n : j + 1 < k
        BY <1>3, <1>10 DEF AckBehind, n
    <2> QED  BY <1>1, <1>2, <1>10, <2>1
  <1> QED  BY <1>7, <1>8, <1>9, <1>10 DEF NoReadbackAhead, t, n

LEMMA JoinedFresh ==
    ASSUME NEW v \in Seq(Answers), NEW w \in Seq(Answers), AllFresh(w), MarksFresh(w)
    PROVE  /\ AllFresh(v) => AllFresh(v \o w)
           /\ MarksFresh(v) => MarksFresh(v \o w)
           /\ OfMode(v, gdMode) => OfMode(v \o w, gdMode)
           /\ InOrder(v) => InOrder(v \o w)
           /\ AckBehind(v) => AckBehind(v \o w)
           /\ NoLimitAhead(v) => NoLimitAhead(v \o w)
           /\ NoReadbackAhead(v) => NoReadbackAhead(v \o w)
  <1> DEFINE b == v \o w
  <1>1. \A i \in 1..Len(b) : \/ i \in 1..Len(v) /\ b[i] = v[i]
                             \/ i > Len(v) /\ \E k \in 1..Len(w) : b[i] = w[k]
    <2> SUFFICES ASSUME NEW i \in 1..Len(b)
                 PROVE  \/ i \in 1..Len(v) /\ b[i] = v[i]
                        \/ i > Len(v) /\ \E k \in 1..Len(w) : b[i] = w[k]
        OBVIOUS
    <2>1. CASE i \in 1..Len(v) /\ b[i] = v[i]  BY <2>1
    <2>2. CASE i - Len(v) \in 1..Len(w) /\ b[i] = w[i - Len(v)]
        BY <2>2
    <2> QED  BY <2>1, <2>2, Concatenated
  <1>2. Len(v) \in Nat /\ Len(w) \in Nat /\ Len(b) = Len(v) + Len(w)
        /\ \A i \in 1..Len(v) : b[i] = v[i]
      BY Joined
  <1> HIDE DEF b
  <1>3. \A i \in 1..Len(b) :
            \/ i \in 1..Len(v) /\ b[i] = v[i]
            \/ i > Len(v) /\ Fresh(b[i]) /\ (IsMark(b[i]) => Marked)
      BY <1>1 DEF AllFresh, MarksFresh
  <1>4. \A i, j \in 1..Len(b) : i < j /\ j \in 1..Len(v) => i \in 1..Len(v)
      BY <1>2
  <1>5. \A i \in 1..Len(b) : i > Len(v) => i \notin 1..Len(v)  BY <1>2
  <1>6. AllFresh(v) => AllFresh(b)  BY <1>3 DEF AllFresh
  <1>7. MarksFresh(v) => MarksFresh(b)  BY <1>3 DEF MarksFresh
  <1>8. OfMode(v, gdMode) => OfMode(b, gdMode)  BY <1>3 DEF OfMode, Fresh
  <1>9. ASSUME InOrder(v), NEW i \in 1..Len(b), IsReadback(b[i]), b[i].mode # commanded
        PROVE  /\ gdMode # commanded
               /\ \A j \in 1..Len(b) : i < j /\ IsReadback(b[j]) => b[j].mode # commanded
    <2>1. gdMode # commanded
      <3>1. CASE i \in 1..Len(v) /\ b[i] = v[i]  BY <1>9, <3>1 DEF InOrder
      <3>2. CASE Fresh(b[i])  BY <1>9, <3>2 DEF Fresh
      <3> QED  BY <1>3, <3>1, <3>2
    <2>2. ASSUME NEW j \in 1..Len(b), i < j, IsReadback(b[j]) PROVE b[j].mode # commanded
      <3>1. CASE j \in 1..Len(v) /\ b[j] = v[j]
        <4>1. i \in 1..Len(v) /\ b[i] = v[i]  BY <1>3, <1>4, <1>5, <2>2, <3>1
        <4> QED  BY <1>9, <2>2, <3>1, <4>1 DEF InOrder
      <3>2. CASE Fresh(b[j])  BY <2>1, <2>2, <3>2 DEF Fresh
      <3> QED  BY <1>3, <3>1, <3>2
    <2> QED  BY <2>1, <2>2
  <1>10. ASSUME AckBehind(v), NEW i \in 1..Len(b), ~Fresh(b[i])
         PROVE  \E j \in 1..Len(b) : i < j /\ b[j].kind = "ack"
    <2>1. i \in 1..Len(v) /\ b[i] = v[i]  BY <1>3, <1>10
    <2>2. PICK j \in 1..Len(v) : i < j /\ v[j].kind = "ack"
        BY <1>10, <2>1 DEF AckBehind
    <2>3. j \in 1..Len(b) /\ b[j] = v[j]  BY <1>2, <2>2
    <2> QED  BY <2>2, <2>3
  <1>11. ASSUME NEW j \in 1..Len(b), ~Fresh(b[j])
         PROVE  /\ j \in 1..Len(v) /\ b[j] = v[j]
                /\ \A i \in 1..Len(b) : i < j => i \in 1..Len(v) /\ b[i] = v[i]
      BY <1>3, <1>4, <1>5, <1>11
  <1>12. NoLimitAhead(v) => NoLimitAhead(b)  BY <1>11 DEF NoLimitAhead
  <1>13. ASSUME NoReadbackAhead(v), NEW h \in 1..Len(b), NEW i \in 1..Len(b), NEW j \in 1..Len(b),
                h < i, i < j, IsReadback(b[h]), b[i].kind = "limit", ~Fresh(b[j])
         PROVE  FALSE
    <2>1. h < j  BY <1>2, <1>13
    <2> QED  BY <1>11, <1>13, <2>1 DEF NoReadbackAhead
  <1> QED
      BY <1>6, <1>7, <1>8, <1>9, <1>10, <1>12, <1>13 DEF InOrder, AckBehind, NoReadbackAhead, b

(* What a step may do to the answers that wait, if it changes neither the  *)
(* mode nor the belief in one: make none of them outdated.                 *)
WireKept ==
    /\ gdMode' = gdMode
    /\ gdHook => gdHook'
    /\ AllFresh(wire) => AllFresh(wire)'
    /\ MarksFresh(wire) => MarksFresh(wire)'
    /\ OfMode(wire, gdMode) => OfMode(wire, gdMode)'
    /\ commanded' = commanded /\ InOrder(wire) => InOrder(wire)'
    /\ AckBehind(wire) => AckBehind(wire)'
    /\ NoLimitAhead(wire) => NoLimitAhead(wire)'
    /\ NoReadbackAhead(wire) => NoReadbackAhead(wire)'

LEMMA SameMode ==
    ASSUME gdMode' = gdMode, gdHook => gdHook', NEW w, w = wire'
    PROVE  /\ AllFresh(w) => AllFresh(wire)'
           /\ MarksFresh(w) => MarksFresh(wire)'
           /\ OfMode(w, gdMode) => OfMode(wire, gdMode)'
           /\ commanded' = commanded /\ InOrder(w) => InOrder(wire)'
           /\ AckBehind(w) => AckBehind(wire)'
           /\ NoLimitAhead(w) => NoLimitAhead(wire)'
           /\ NoReadbackAhead(w) => NoReadbackAhead(wire)'
  <1>1. Marked => Marked'  BY DEF Marked
  <1>2. \A i : Fresh(w[i]) => Fresh(wire[i])'  BY DEF Fresh, IsReadback
  <1>3. \A i : IsMark(wire[i])' => IsMark(w[i])  BY DEF IsMark, IsReadback
  <1>4. AllFresh(w) => AllFresh(wire)'  BY <1>2 DEF AllFresh
  <1>5. MarksFresh(w) => MarksFresh(wire)'  BY <1>1, <1>3 DEF MarksFresh
  <1>6. OfMode(w, gdMode) => OfMode(wire, gdMode)'  BY DEF OfMode, IsReadback
  <1>7. commanded' = commanded /\ InOrder(w) => InOrder(wire)'  BY DEF InOrder, IsReadback
  <1>8. AckBehind(w) => AckBehind(wire)'  BY <1>2 DEF AckBehind
  <1>9. NoLimitAhead(w) => NoLimitAhead(wire)'  BY <1>2 DEF NoLimitAhead
  <1>10. NoReadbackAhead(w) => NoReadbackAhead(wire)'  BY <1>2 DEF NoReadbackAhead, IsReadback
  <1> QED  BY <1>4, <1>5, <1>6, <1>7, <1>8, <1>9, <1>10

(* Without a mode command the answers are added to those that wait.        *)
LEMMA PlainAnswers ==
    ASSUME PlantTypes, NEW waiting \in Seq(Answers), GdObeys(waiting), UNCHANGED gdModeVars
    PROVE  /\ AllFresh(waiting) => AllFresh(wire)'
           /\ MarksFresh(waiting) => MarksFresh(wire)'
           /\ OfMode(waiting, gdMode) => OfMode(wire, gdMode)'
           /\ commanded' = commanded /\ InOrder(waiting) => InOrder(wire)'
           /\ AckBehind(waiting) => AckBehind(wire)'
           /\ NoLimitAhead(waiting) => NoLimitAhead(wire)'
           /\ NoReadbackAhead(waiting) => NoReadbackAhead(wire)'
  <1>1. PICK cmds : wire' = waiting \o Answer(cmds)  BY DEF GdObeys
  <1>2. Answer(cmds) \in Seq(Answers) /\ AllFresh(Answer(cmds)) /\ MarksFresh(Answer(cmds))
      BY AnswerType, AnswerFresh
  <1> DEFINE w == waiting \o Answer(cmds)
  <1>3. /\ AllFresh(waiting) => AllFresh(w)
        /\ MarksFresh(waiting) => MarksFresh(w)
        /\ OfMode(waiting, gdMode) => OfMode(w, gdMode)
        /\ InOrder(waiting) => InOrder(w)
        /\ AckBehind(waiting) => AckBehind(w)
        /\ NoLimitAhead(waiting) => NoLimitAhead(w)
        /\ NoReadbackAhead(waiting) => NoReadbackAhead(w)
      BY <1>2, JoinedFresh
  <1>4. w = wire'  BY <1>1
  <1> HIDE DEF w
  <1>5. gdMode' = gdMode /\ gdHook' = gdHook  BY DEF gdModeVars
  <1> QED  BY <1>3, <1>4, <1>5, SameMode

(* A mode command that arrives leaves its acknowledgement last, and marks  *)
(* of no earlier start if the GD was in the three-phase mode.              *)
LEMMA ModeAnswers ==
    ASSUME PlantTypes, target \in Phases, GdObeys(wire), "profile" \notin sent',
           sent' \cap Modes = {ModeCommand(target)}
    PROVE  \/ WireKept
           \/ /\ gdMode' = target
              /\ target # commanded /\ commanded' = commanded /\ InOrder(wire) => InOrder(wire)'
              /\ AckBehind(wire)'
              /\ AllFresh(wire) /\ gdMode # 1 => MarksFresh(wire)'
  <1>1. PICK cmds \in Delivered(sent') : SelectMode(cmds) /\ wire' = wire \o Answer(cmds)
      BY DEF GdObeys
  <1>2. cmds \subseteq sent'  BY DEF Delivered
  <1>3. CASE cmds \cap {"mode1", "mode3"} = {}
    <2>1. UNCHANGED gdModeVars  BY <1>1, <1>3 DEF SelectMode
    <2> QED  BY <2>1, PlainAnswers DEF WireKept, gdModeVars, PlantTypes
  <1>4. CASE cmds \cap {"mode1", "mode3"} # {}
    <2>1. gdMode' = target
        BY <1>1, <1>2, <1>4 DEF SelectMode, Modes, ModeCommand, Phases
    <2> DEFINE ack   == [kind |-> "ack"]
               first == IF "get" \in cmds
                        THEN <<[kind |-> "readback", mode |-> gdMode, handler |-> gdHandler,
                                hook |-> gdHook]>>
                        ELSE <<>>
               all   == Answer(cmds)
    <2>2. all = (first \o <<ack>>) \o <<>>  BY <1>2, <1>4 DEF Answer
    <2>3. ack \in Answers /\ first \in Seq(Answers) /\ all \in Seq(Answers)
      <3> DEFINE r == [kind |-> "readback", mode |-> gdMode, handler |-> gdHandler,
                       hook |-> gdHook]
      <3>1. r \in Answers  BY DEF Answers, PlantTypes
      <3>2. first = <<r>> \/ first = <<>>  OBVIOUS
      <3>3. ack \in Answers  BY DEF Answers
      <3>4. all \in Seq(Answers)  BY AnswerType
      <3> HIDE DEF r, first, all, ack
      <3>5. CASE first = <<r>>  BY <3>1, <3>3, <3>4, <3>5
      <3>6. CASE first = <<>>  BY <3>3, <3>4, <3>6
      <3> QED  BY <3>2, <3>5, <3>6
    <2>4. AllFresh(all)  BY AnswerFresh
    <2> HIDE DEF first, all
    <2>5. all = first \o <<ack>>  BY <2>2, <2>3
    <2>6. Len(all) = Len(first) + 1 /\ Len(first) \in Nat /\ all[Len(all)] = ack
        BY <2>3, <2>5
    <2>7. wire \in Seq(Answers) /\ wire' = wire \o all  BY <1>1 DEF PlantTypes, all
    <2>8. Len(wire') = Len(wire) + Len(all) /\ Len(wire) \in Nat
        /\ wire'[Len(wire) + Len(all)] = all[Len(all)]
      <3>1. Len(all) \in 1..Len(all)  BY <2>6
      <3>2. wire \in Seq(Answers) /\ Len(wire) \in Nat  BY <2>7
      <3> QED  BY <2>3, <2>7, <3>1, <3>2, Joined
    <2>9. Len(wire') \in 1..Len(wire') /\ wire'[Len(wire')].kind = "ack"
        BY <2>6, <2>8
    <2>10. AckBehind(wire)'
      <3>1. ASSUME NEW i \in 1..Len(wire'), ~Fresh(wire[i])'
            PROVE  i < Len(wire')
        <4>1. wire'[i].kind = "readback"  BY <3>1 DEF Fresh, IsReadback
        <4>2. i # Len(wire')  BY <2>9, <4>1
        <4> QED  BY <2>9, <4>2
      <3> QED  BY <2>9, <3>1 DEF AckBehind
    <2>11. ASSUME AllFresh(wire), gdMode # 1 PROVE MarksFresh(wire)'
      <3>1. \A i \in 1..Len(wire') : ~IsMark(wire'[i])
        <4>1. AllFresh(wire \o all)
          <5> HIDE DEF all
          <5>1. MarksFresh(all)  BY AnswerFresh DEF all
          <5> QED  BY <2>3, <2>4, <2>7, <2>11, <5>1, JoinedFresh
        <4>2. AllFresh(wire')  BY <2>7, <4>1
        <4> QED  BY <2>11, <4>2 DEF AllFresh, Fresh, IsReadback, IsMark
      <3> QED  BY <3>1 DEF MarksFresh, IsMark, IsReadback
    <2>12. ASSUME target # commanded, commanded' = commanded, InOrder(wire) PROVE InOrder(wire)'
      <3>1. InOrder(wire \o all)
        <4>1. MarksFresh(all)  BY AnswerFresh DEF all
        <4> QED  BY <2>3, <2>4, <2>7, <2>12, <4>1, JoinedFresh
      <3>2. InOrder(wire')  BY <2>7, <3>1
      <3>3. gdMode' # commanded'  BY <2>1, <2>12
      <3> QED  BY <2>12, <3>2, <3>3 DEF InOrder, IsReadback
    <2> QED  BY <2>1, <2>10, <2>11, <2>12
  <1> QED  BY <1>3, <1>4

(* So a step that sends no mode, and may read an answer, outdates nothing.  *)
LEMMA PlainKeepsWire ==
    ASSUME PlantTypes, NEW waiting, GdObeys(waiting), sent' \cap Modes = {},
           waiting = wire \/ (waiting = Tail(wire) /\ wire # <<>>)
    PROVE  WireKept
  <1>1. UNCHANGED gdModeVars  BY NoModeNoChange
  <1>2. waiting \in Seq(Answers)  BY TailType DEF PlantTypes
  <1>3. CASE waiting = wire
      BY <1>1, <1>2, <1>3, PlainAnswers DEF WireKept, gdModeVars
  <1>4. CASE waiting = Tail(wire) /\ wire # <<>>
      BY <1>1, <1>2, <1>4, TailFresh, PlainAnswers DEF WireKept, gdModeVars
  <1> QED  BY <1>3, <1>4

-----------------------------------------------------------------------------
(* The controller believes in the mode that is selected.                   *)

(* While a mode is sent, or a readback may still lead to its profile, it   *)
(* is not the mode believed in.  So a readback that leads to the profile   *)
(* shows that the GD has changed to it, and that everything behind it says *)
(* so; even one the switch has stopped waiting for, and whatever was lost. *)
Sending == {"applying", "confirming"}
ModeInv ==
    /\ stage \in Sending \/ getReason = "profile" => target # commanded
    /\ getReason = "profile" => stage # "confirming"
    /\ InOrder(wire)
    /\ stage = "confirming" => gdMode = target /\ OfMode(wire, gdMode)

(* A step that starts, sends and finishes no switch and reads no mode.     *)
LEMMA ModeStays ==
    ASSUME ModeInv, WireKept, UNCHANGED <<target, commanded>>,
           stage' \in Sending => stage' = stage,
           getReason' = "profile" => getReason = "profile"
    PROVE  ModeInv'
  BY DEF ModeInv, WireKept, Sending

(* What the upkeep does to the readback that is waited for.                *)
LEMMA ReasonUpkeep ==
    ASSUME NEW expired, Upkeep(expired)
    PROVE  /\ UNCHANGED <<markerQuery, markerOk>>
           /\ \/ getReason' = getReason \/ getReason' = "none"
              \/ getReason' = "marker" /\ markerQuery /\ verifyPending
  BY DEF Upkeep, NextReason, KeptReason, PollMarker, MarkerOutstanding

LEMMA TaskKeepsMode ==
    ASSUME NEW expired, ProcessPhaseSwitch(expired), ModeInv, TypeOK, SwitchFollowsRequest,
           \/ WireKept
           \/ /\ ApplyMode(expired) /\ gdMode' = target
              /\ target # commanded /\ commanded' = commanded /\ InOrder(wire) => InOrder(wire)'
    PROVE  ModeInv'
  <1>1. CASE ApplyMode(expired)
    <2>1. stage = "offdelay" /\ stage' = "applying" /\ getReason' = "none"
          /\ UNCHANGED <<target, commanded>>
        BY <1>1 DEF ApplyMode
    <2>2. target # commanded  BY <2>1 DEF SwitchFollowsRequest
    <2>3. InOrder(wire)'  BY <2>1, <2>2 DEF ModeInv, WireKept
    <2> QED  BY <2>1, <2>2, <2>3 DEF ModeInv, Sending
  <1>2. CASE StartSwitch(expired) /\ ~ApplyMode(expired)
    <2>1. stage' = "stopping" /\ target' = requested /\ requested # commanded
          /\ UNCHANGED commanded
        BY <1>2 DEF StartSwitch, MayStart
    <2>2. getReason' = "profile" => getReason = "profile"
        BY <1>2, ReasonUpkeep DEF StartSwitch
    <2>3. InOrder(wire)'  BY <1>2, <2>1 DEF ModeInv, WireKept
    <2> QED  BY <2>1, <2>2, <2>3 DEF ModeInv, Sending
  <1>3. CASE ~ApplyMode(expired) /\ (SwitchAsleep \/ FaultAbort \/ MarkerTimeout(expired))
      BY <1>3, ModeStays
      DEF SwitchAsleep, FaultAbort, MarkerTimeout, KeptReason, switchVars, verifyVars, Sending,
          Switching
  <1>4. CASE ~ApplyMode(expired) /\ (\/ RecoverFromError(expired) \/ StopConfirmed(expired)
                                     \/ StageTimeout(expired) \/ StopAgain(expired))
      BY <1>4, ModeStays, ReasonUpkeep
      DEF RecoverFromError, StopConfirmed, StageTimeout, StopAgain, Sending
  <1>5. CASE ~ApplyMode(expired) /\ (\/ ChargingResumed(expired) \/ RestartFailed(expired)
                                     \/ RestartAgain(expired) \/ NothingDue(expired))
      BY <1>5, ModeStays, ReasonUpkeep
      DEF ChargingResumed, RestartFailed, RestartAgain, NothingDue, switchVars, Sending
  <1> QED  BY <1>1, <1>2, <1>3, <1>4, <1>5 DEF ProcessPhaseSwitch

(* Commands, the first half of the task and reports.                       *)
LEMMA OthersKeepMode ==
    ASSUME \/ Command \/ (\E b \in FirmwareUpdates : SetFirmwareUpdate(b)) \/ UpdateCurrents
           \/ Report \/ (\E safe \in BOOLEAN : RxCp(safe)),
           ModeInv, WireKept
    PROVE  ModeInv'
  <1>1. CASE Command
      BY <1>1, ModeStays
      DEF Command, RejectRequest, RequestPhases, RequestPower, WriteRounding,
          RoundingWritten, SetSlots, switchVars, verifyVars, Sending
  <1>2. CASE UpdateCurrents \/ \E b \in FirmwareUpdates : SetFirmwareUpdate(b)
      BY <1>2, ModeStays DEF UpdateCurrents, SetFirmwareUpdate, switchVars, verifyVars
  <1>3. CASE Report
      BY <1>3, ModeStays
      DEF Report, RxInfo, RxStatus, RxMeter, ValidatePhaseCount, switchVars, verifyVars, Sending
  <1>4. CASE \E safe \in BOOLEAN : RxCp(safe)
      BY <1>4, ModeStays DEF RxCp, verifyVars
  <1> QED  BY <1>1, <1>2, <1>3, <1>4

(* An answer is read.  The profile is sent for a readback of the mode of   *)
(* the switch, which is not the one believed in.                           *)
LEMMA AnswerKeepsMode ==
    ASSUME ModeInv, TypeOK, PlantTypes, EspReadsAnswer
    PROVE  ModeInv' /\ WireKept
  <1> DEFINE a == Head(wire)
             t == Tail(wire)
  <1>1. /\ wire # <<>> /\ a \in Answers /\ AnswerFrame(a) /\ GdObeys(t)
        /\ t \in Seq(Answers)
      BY TailType DEF EspReadsAnswer, Heard
  <1>2. commanded \in Phases /\ target \in Phases  BY DEF TypeOK, SwitchTypes
  <1>3. IsReadback(a) /\ a.mode # commanded => gdMode # commanded /\ OfMode(t, gdMode)
      BY <1>1, <1>2, HeadTells DEF ModeInv
  <1> HIDE DEF a
  <1>4. sent' \cap Modes = {}  BY <1>1, OthersSendNoMode
  <1>5. WireKept  BY <1>1, <1>4, PlainKeepsWire
  <1>6. OfMode(t, gdMode) => OfMode(wire, gdMode)'
      BY <1>1, <1>4, NoModeNoChange, PlainAnswers
  <1> HIDE DEF t
  <1>7. CASE RxModeAck
      BY <1>5, <1>7 DEF RxModeAck, ModeInv, WireKept, switchVars, Sending
  <1>8. CASE RxLimitAck
    <2>1. CASE stage # "confirming"
        BY <1>5, <1>8, <2>1, ModeStays DEF RxLimitAck
    <2>2. CASE stage = "confirming"
      <3>1. commanded' = target /\ stage' \in {"idle", "restarting"} /\ UNCHANGED <<target, getReason>>
          BY <1>8, <2>2 DEF RxLimitAck, FinishPhaseSwitch
      <3>2. gdMode' = target /\ OfMode(wire, gdMode)'
          BY <1>5, <2>2 DEF ModeInv, WireKept
      <3>3. InOrder(wire)'  BY <3>1, <3>2 DEF InOrder, OfMode
      <3>4. getReason # "profile" /\ stage' \notin Sending /\ stage' # "confirming"
          BY <2>2, <3>1 DEF ModeInv, Sending
      <3> QED  BY <1>5, <3>1, <3>3, <3>4 DEF ModeInv, Sending
    <2> QED  BY <2>1, <2>2
  <1>9. CASE a.kind = "readback" /\ TakeReadback(a.mode, a.handler, a.hook)
    <2>1. UNCHANGED <<target, commanded>> /\ getReason' = "none"
        BY <1>9 DEF TakeReadback
    <2>2. CASE stage' = "error" \/ UNCHANGED stage
        BY <1>5, <2>1, <2>2, ModeStays DEF Sending
    <2>3. CASE getReason = "profile" /\ a.mode = target /\ stage' = "confirming"
      <3>1. target # commanded  BY <2>3 DEF ModeInv
      <3>2. gdMode # commanded /\ OfMode(t, gdMode)
          BY <1>3, <1>9, <2>3, <3>1 DEF IsReadback
      <3>3. gdMode = target  BY <1>2, <3>1, <3>2 DEF PlantTypes, Phases
      <3>4. InOrder(wire)'  BY <1>5, <2>1 DEF ModeInv, WireKept
      <3> QED  BY <1>5, <1>6, <2>1, <2>3, <3>1, <3>2, <3>3, <3>4 DEF ModeInv, WireKept
    <2> QED  BY <1>9, <2>2, <2>3 DEF TakeReadback, ReadbackOk
  <1> QED  BY <1>1, <1>5, <1>7, <1>8, <1>9 DEF AnswerFrame, RxReadback

(* How the second half of the task treats the answers that wait.           *)
LEMMA TaskAnswers ==
    ASSUME TypeOK, PlantTypes, NEW expired, Heard(SwitchRun(expired), wire)
    PROVE  /\ ProcessPhaseSwitch(expired)
           /\ \/ WireKept
              \/ /\ ApplyMode(expired) /\ gdMode' = target
                 /\ target # commanded /\ commanded' = commanded /\ InOrder(wire) => InOrder(wire)'
                 /\ AckBehind(wire)'
                 /\ AllFresh(wire) /\ gdMode # 1 => MarksFresh(wire)'
  <1>1. ProcessPhaseSwitch(expired) /\ GdObeys(wire)  BY DEF Heard, SwitchRun
  <1>2. wire \in Seq(Answers)  BY DEF PlantTypes
  <1>3. ~ApplyMode(expired) => WireKept
    <2>1. ~ApplyMode(expired) => sent' \cap Modes = {}  BY <1>1, TaskSendsMode
    <2> QED  BY <1>1, <2>1, PlainKeepsWire
  <1>4. CASE ApplyMode(expired)
    <2>1. sent' = {ModeCommand(target)} \cup Gets(expired)  BY <1>4 DEF ApplyMode, InStages
    <2>2. Gets(expired) \subseteq {"get"}  BY DEF Gets, Resent
    <2>3. ModeCommand(target) \in {"mode1", "mode3"}  BY DEF ModeCommand
    <2>4. sent' \cap Modes = {ModeCommand(target)} /\ "profile" \notin sent'
        BY <2>1, <2>2, <2>3 DEF Modes
    <2>5. target \in Phases  BY DEF TypeOK, SwitchTypes
    <2> QED  BY <1>1, <1>4, <2>4, <2>5, ModeAnswers
  <1> QED  BY <1>1, <1>3, <1>4

(* A controller that boots reads nothing that was said before.             *)
LEMMA BootAnswers ==
    ASSUME EspReboots, PlantTypes
    PROVE  /\ stage' = "idle" /\ target' = 3 /\ ~verifyPending' /\ getReason' = "none"
           /\ \A i \in 1..Len(wire') : wire'[i].kind = "ack"
  <1>1. /\ stage' = "idle" /\ target' = 3 /\ ~verifyPending' /\ getReason' = "none"
        /\ sent' = {"mode3"} /\ GdObeys(<<>>)
      BY DEF EspReboots, Heard, EspRestart
  <1>2. PICK cmds \in Delivered(sent') : wire' = <<>> \o Answer(cmds)  BY <1>1 DEF GdObeys
  <1>3. "get" \notin cmds /\ "profile" \notin cmds  BY <1>1 DEF Delivered
  <1>4. wire' = <<>> \/ wire' = <<[kind |-> "ack"]>>
      BY <1>2, <1>3 DEF Answer
  <1>5. \A i \in 1..Len(wire') : wire'[i].kind = "ack"
    <2>1. CASE wire' = <<>>  BY <2>1
    <2>2. CASE wire' = <<[kind |-> "ack"]>>  BY <2>2
    <2> QED  BY <1>4, <2>1, <2>2
  <1> QED  BY <1>1, <1>5

(* What the GD, the vehicle and the driver do by themselves, and what the  *)
(* line loses, outdates nothing either, as long as the GD keeps running.   *)
LEMMA PlantAnswers ==
    ASSUME PlantTypes,
           \/ AnswerLost \/ GdCloses \/ GdDetectsFault \/ GdClearsFault
           \/ EvDemands \/ EvReleases \/ Unplug \/ Plug \/ UNCHANGED sysVars
    PROVE  UNCHANGED vars /\ WireKept
  <1>1. UNCHANGED vars /\ gdMode' = gdMode /\ (gdHook => gdHook')
    <2>1. CASE GdCloses  BY <2>1 DEF GdCloses
    <2>2. CASE ~GdCloses
      <3>1. UNCHANGED <<vars, gdModeVars>>
          BY <2>2 DEF AnswerLost, GdDetectsFault, GdClearsFault, EvDemands, EvReleases,
                      Unplug, Plug, sysVars, plantVars
      <3> QED  BY <3>1 DEF gdModeVars
    <2> QED  BY <2>1, <2>2
  <1>2. wire' = wire \/ (wire' = Tail(wire) /\ wire # <<>>)
      BY DEF AnswerLost, GdCloses, GdDetectsFault, GdClearsFault, EvDemands, EvReleases,
             Unplug, Plug, sysVars
  <1>3. CASE wire' = wire  BY <1>1, <1>3, SameMode DEF WireKept
  <1>4. CASE wire' = Tail(wire) /\ wire # <<>>
      BY <1>1, <1>4, TailFresh, SameMode DEF WireKept
  <1> QED  BY <1>1, <1>2, <1>3, <1>4

(* The steps of the controller that neither read an answer nor are the     *)
(* second half of its task send no mode.                                   *)
LEMMA OtherAnswers ==
    ASSUME PlantTypes,
           EspActs \/ EspReadsReport \/ EspReadsPilot \/ Heard(UpdateCurrents, wire)
    PROVE  /\ WireKept
           /\ \/ Command \/ (\E b \in FirmwareUpdates : SetFirmwareUpdate(b)) \/ UpdateCurrents
              \/ Report \/ \E safe \in BOOLEAN : RxCp(safe)
  <1>1. GdObeys(wire)
      BY DEF EspActs, EspReadsReport, EspReadsPilot, Heard
  <1>2. \/ Command \/ (\E b \in FirmwareUpdates : SetFirmwareUpdate(b)) \/ UpdateCurrents
        \/ Report \/ \E safe \in BOOLEAN : RxCp(safe)
    <2>1. CASE EspReadsPilot
      <3>1. PICK safe \in BOOLEAN : safe = ~evC
        <4>1. CASE evC  BY <4>1, FALSE = ~evC
        <4>2. CASE ~evC  BY <4>2, TRUE = ~evC
        <4> QED  BY <4>1, <4>2
      <3> QED  BY <2>1, <3>1 DEF EspReadsPilot
    <2>2. CASE EspActs \/ EspReadsReport \/ Heard(UpdateCurrents, wire)
        BY <2>2 DEF EspActs, EspReadsReport, Heard
    <2> QED  BY <2>1, <2>2
  <1> QED  BY <1>1, <1>2, OthersSendNoMode, PlainKeepsWire

LEMMA ModeInductive ==
    ASSUME "gdRestart" \notin Faults, ModeInv, TypeOK, PlantTypes, SwitchFollowsRequest,
           [SystemNext]_sysVars
    PROVE  ModeInv'
  <1>1. CASE EspActs \/ EspReadsReport \/ EspReadsPilot \/ Heard(UpdateCurrents, wire)
      BY <1>1, OtherAnswers, OthersKeepMode
  <1>2. CASE \E expired \in SUBSET Running : Heard(SwitchRun(expired), wire)
      BY <1>2, TaskAnswers, TaskKeepsMode
  <1>3. CASE EspReboots
      BY <1>3, BootAnswers DEF ModeInv, InOrder, IsReadback, Sending
  <1>4. CASE EspReadsAnswer  BY <1>4, AnswerKeepsMode
  <1>5. CASE \/ AnswerLost \/ GdCloses \/ GdDetectsFault \/ GdClearsFault
             \/ EvDemands \/ EvReleases \/ Unplug \/ Plug \/ UNCHANGED sysVars
      BY <1>5, PlantAnswers, ModeStays DEF vars, switchVars, verifyVars
  <1>6. ~GdRestart  BY DEF GdRestart
  <1> QED  BY <1>1, <1>2, <1>3, <1>4, <1>5, <1>6 DEF SystemNext, EspTask

LEMMA ModeHolds ==
    ASSUME "gdRestart" \notin Faults
    PROVE  SystemSpec => []ModeInv
  <1>1. SystemInit => ModeInv
    <2> SUFFICES ASSUME SystemInit PROVE ModeInv
        OBVIOUS
    <2>1. wire = <<>> /\ stage = "idle" /\ getReason = "none"  BY DEF SystemInit, Init
    <2> QED  BY <2>1 DEF ModeInv, InOrder, Sending
  <1>2. ModeInv /\ TypeOK /\ PlantTypes /\ SwitchFollowsRequest /\ [SystemNext]_sysVars
            => ModeInv'
      BY ModeInductive
  <1> QED
      BY <1>1, <1>2, PlantIsTyped, LoopImplementsSwitch, SwitchIsTyped, SwitchPursuesRequest, PTL
      DEF SystemSpec

(* commanded_phases changes when the profile is acknowledged, or at a boot. *)
LEMMA BeliefStep ==
    ASSUME PlantTypes, [SystemNext]_sysVars
    PROVE  \/ UNCHANGED commanded
           \/ stage = "confirming" /\ commanded' = target /\ UNCHANGED <<gdMode, relay>>
           \/ EspReboots
  <1>1. CASE EspActs
      BY <1>1 DEF EspActs, Heard, Command, RejectRequest, RequestPhases, RequestPower, WriteRounding,
                  RoundingWritten, SetSlots, SetFirmwareUpdate, switchVars
  <1>2. CASE EspTask
    <2>1. CASE Heard(UpdateCurrents, wire)  BY <2>1 DEF Heard, UpdateCurrents
    <2>2. ASSUME NEW expired, ProcessPhaseSwitch(expired) PROVE UNCHANGED commanded
        BY <2>2
        DEF ProcessPhaseSwitch, SwitchAsleep, FaultAbort, MarkerTimeout, RecoverFromError, StartSwitch,
            StopConfirmed, StageTimeout, StopAgain, ApplyMode, ChargingResumed, RestartFailed,
            RestartAgain, NothingDue, switchVars
    <2> QED  BY <1>2, <2>1, <2>2 DEF EspTask, Heard, SwitchRun
  <1>3. CASE EspReadsReport \/ EspReadsPilot
      BY <1>3 DEF EspReadsReport, EspReadsPilot, Heard, Report, RxInfo, RxStatus, RxMeter, RxCp,
                  switchVars
  <1>4. CASE EspReadsAnswer
    <2> DEFINE a == Head(wire)
    <2>1. a \in Answers /\ AnswerFrame(a) /\ GdObeys(Tail(wire)) /\ UNCHANGED relay
        BY <1>4, TailType DEF EspReadsAnswer, Heard
    <2> HIDE DEF a
    <2>2. UNCHANGED gdMode  BY <2>1, OthersSendNoMode, NoModeNoChange DEF gdModeVars
    <2>3. CASE RxLimitAck
        BY <2>1, <2>2, <2>3 DEF RxLimitAck, FinishPhaseSwitch
    <2>4. CASE RxModeAck \/ RxReadback(a.mode, a.handler, a.hook)
        BY <2>4 DEF RxModeAck, RxReadback, TakeReadback, switchVars
    <2> QED  BY <2>1, <2>3, <2>4 DEF AnswerFrame
  <1>5. CASE \/ AnswerLost \/ GdCloses \/ GdDetectsFault \/ GdClearsFault \/ GdRestart
             \/ EvDemands \/ EvReleases \/ Unplug \/ Plug \/ UNCHANGED sysVars
      BY <1>5 DEF AnswerLost, GdCloses, GdDetectsFault, GdClearsFault, GdRestart, EvDemands,
                  EvReleases, Unplug, Plug, sysVars, vars, switchVars
  <1> QED  BY <1>1, <1>2, <1>3, <1>4, <1>5 DEF SystemNext

(* What the refinement needs: no late reports, a GD that keeps running, a  *)
(* controller whose mode command at boot arrives, and a profile that is    *)
(* acknowledged in the mode of the switch.                                 *)
LEMMA RelayStep ==
    ASSUME {"lateReports", "gdRestart"} \cap Faults = {}, ~({"loss", "espRestart"} \subseteq Faults),
           stage = "confirming" => gdMode = target,
           ProofIsLast, ClosedIsLoaded, PlantTypes, PlantTypes', [SystemNext]_sysVars
    PROVE  [Relay!Next]_(Relay!vars)
  <1> USE DEF Relay!vars, Relay!Next
  <1>1. CASE EspReboots
    <2>1. sent' = {"mode3"} /\ commanded' = 3 /\ UNCHANGED relay /\ GdObeys(<<>>)
        BY <1>1 DEF EspReboots, Heard, EspRestart
    <2>2. "loss" \notin Faults  BY <1>1 DEF EspReboots
    <2>3. gdMode' = 3  BY <2>1, <2>2 DEF GdObeys, Delivered, SelectMode
    <2> QED  BY <2>1, <2>3 DEF Relay!Boot
  <1>2. CASE ~EspReboots /\ ~UNCHANGED commanded
    <2>1. stage = "confirming" /\ commanded' = target /\ UNCHANGED <<gdMode, relay>>
        BY <1>2, BeliefStep
    <2> QED  BY <2>1 DEF Relay!Acknowledge
  <1>3. CASE ~EspReboots /\ UNCHANGED commanded
    <2>1. CASE UNCHANGED <<gdMode, relay>>  BY <1>3, <2>1
    <2>2. CASE relay = 0 /\ UNCHANGED relay
        BY <1>3, <2>2 DEF PlantTypes, Phases, Relay!Select
    <2>3. CASE GdCloses  BY <1>3, <2>3 DEF GdCloses, Relay!Close
    <2>4. CASE relay' = 0 /\ (gdMode' = gdMode \/ GdRestart)
        BY <1>3, <2>4 DEF GdRestart, Relay!Open
    <2>5. "lateReports" \notin Faults  OBVIOUS
    <2> QED  BY <1>3, <2>1, <2>2, <2>3, <2>4, <2>5, PathStep
  <1> QED  BY <1>1, <1>2, <1>3

(* The power path gets what PhaseRelay promises: the mode is selected with *)
(* open contactors (or by a booting controller), they close with it, and   *)
(* commanded_phases only becomes the selected mode.  Commands and answers  *)
(* may be lost, any number of answers may wait, the GD may detect faults,  *)
(* the vehicle does what it likes and the cable is pulled and put back in; *)
(* and either nothing is lost or the controller does not restart, as the   *)
(* mode command of its boot is not acknowledged.                           *)
THEOREM LoopImplementsRelay ==
    ASSUME {"lateReports", "gdRestart"} \cap Faults = {}, ~({"loss", "espRestart"} \subseteq Faults)
    PROVE  SystemSpec => ImplementsPhaseRelay
  <1>1. SystemSpec => []ModeInv  BY ModeHolds
  <1>2. SystemSpec => [](ProofIsLast /\ ClosedIsLoaded)  BY PathGuarded
  <1>3. SystemInit => Relay!Init  BY DEF SystemInit, Init, Relay!Init
  <1>4. ModeInv /\ ProofIsLast /\ ClosedIsLoaded /\ PlantTypes /\ PlantTypes' /\ [SystemNext]_sysVars
            => [Relay!Next]_(Relay!vars)
    <2>1. ModeInv => (stage = "confirming" => gdMode = target)  BY DEF ModeInv
    <2> QED  BY <2>1, RelayStep
  <1> QED
      BY <1>1, <1>2, <1>3, <1>4, PlantIsTyped, PTL
      DEF SystemSpec, ImplementsPhaseRelay, Relay!Spec

-----------------------------------------------------------------------------
(* The close marker.                                                       *)

(* With at most four answers in the buffer, an outdated readback and the   *)
(* acknowledgement behind it leave no room for a limit acknowledged in     *)
(* front of it and two readbacks in front of that, which would take the    *)
(* switch to its verification with the outdated one still to come.         *)
ShortWire == MaxWire <= 4 /\ "gdRestart" \notin Faults

(* Nothing outdated is behind the answer that ends the switch.             *)
ProfileIsLast ==
    /\ getReason = "profile" => NoReadbackAhead(wire)
    /\ stage = "confirming" => NoLimitAhead(wire)

(* What is verified is the mode in force, and nothing outdated waits.      *)
VerifiesMode == verifyPending /\ stage \notin Sending => AllFresh(wire) /\ gdMode = commanded

(* A three-phase switch knows of no marker from its mode command on, until *)
(* it is verified.                                                         *)
ThreeUnmarked ==
    target = 3 /\ (\/ stage \in Sending \/ getReason = "profile"
                   \/ verifyPending /\ commanded = 3)
        => ~markerQuery /\ getReason # "marker" /\ ~markerOk

(* A one-phase start has the marker the GD has, and no marker of an        *)
(* earlier start waits that might be taken for its own.                    *)
OneMarked ==
    target = 1 =>
        /\ markerOk /\ (stage \in Sending \/ getReason = "profile" \/ verifyPending) => Marked
        /\ verifyPending \/ (stage \in Sending /\ getReason = "marker") => MarksFresh(wire)

MarkerInv == AckBehind(wire) /\ ProfileIsLast /\ VerifiesMode /\ ThreeUnmarked /\ OneMarked

(* A step that starts, sends and finishes no switch, reads no marker and   *)
(* verifies nothing new.                                                   *)
LEMMA MarkerStays ==
    ASSUME MarkerInv, WireKept, UNCHANGED <<target, commanded, markerOk>>,
           target = 3 /\ markerQuery' => markerQuery,
           stage' \in Sending => stage' = stage,
           stage \in Sending /\ verifyPending' => stage' = stage,
           verifyPending' => verifyPending,
           \/ getReason' = getReason \/ getReason' = "none"
           \/ getReason' = "marker" /\ markerQuery /\ verifyPending
    PROVE  MarkerInv'
  <1>1. AckBehind(wire)'  BY DEF MarkerInv, WireKept
  <1>2. ProfileIsLast'  BY DEF MarkerInv, ProfileIsLast, WireKept, Sending
  <1>3. VerifiesMode'  BY DEF MarkerInv, VerifiesMode, WireKept, Sending
  <1>4. ThreeUnmarked'  BY DEF MarkerInv, ThreeUnmarked, Sending
  <1>5. OneMarked'  BY DEF MarkerInv, OneMarked, Marked, WireKept, Sending
  <1> QED  BY <1>1, <1>2, <1>3, <1>4, <1>5 DEF MarkerInv

(* The task, but for the start of a switch and its mode command.           *)
LEMMA TaskKeepsMarker ==
    ASSUME NEW expired, ProcessPhaseSwitch(expired), MarkerInv, WireKept,
           ~StartSwitch(expired), ~ApplyMode(expired)
    PROVE  MarkerInv'
  <1>1. CASE SwitchAsleep \/ FaultAbort
      BY <1>1, MarkerStays
      DEF SwitchAsleep, FaultAbort, switchVars, verifyVars, Sending, Switching, Stages
  <1>2. CASE MarkerTimeout(expired)
      BY <1>2, MarkerStays DEF MarkerTimeout, KeptReason, Sending
  <1>3. CASE \/ RecoverFromError(expired) \/ StopConfirmed(expired) \/ StageTimeout(expired)
             \/ StopAgain(expired)
      BY <1>3, MarkerStays, ReasonUpkeep
      DEF RecoverFromError, StopConfirmed, StageTimeout, StopAgain, Sending
  <1>4. CASE ChargingResumed(expired) \/ RestartFailed(expired) \/ RestartAgain(expired)
      BY <1>4, MarkerStays, ReasonUpkeep
      DEF ChargingResumed, RestartFailed, RestartAgain, Sending
  <1>5. CASE NothingDue(expired)
      BY <1>5, MarkerStays, ReasonUpkeep DEF NothingDue, switchVars, Sending
  <1> QED  BY <1>1, <1>2, <1>3, <1>4, <1>5 DEF ProcessPhaseSwitch

(* A switch starts from the mode in force: if it is to be judged still,    *)
(* no marker waits and none is known.                                      *)
LEMMA StartKeepsMarker ==
    ASSUME NEW expired, StartSwitch(expired), MarkerInv, ModeInv, WireKept, TypeOK
    PROVE  MarkerInv'
  <1>1. /\ stage' = "stopping" /\ stage = "idle" /\ target' = requested /\ requested # commanded
        /\ UNCHANGED <<commanded, verifyPending, markerQuery, markerOk, gdMode>>
      BY ReasonUpkeep DEF StartSwitch, MayStart, WireKept
  <1>2. \/ getReason' = getReason \/ getReason' = "none"
        \/ getReason' = "marker" /\ markerQuery /\ verifyPending
      BY ReasonUpkeep DEF StartSwitch
  <1>3. target \in Phases /\ requested \in Phases /\ commanded \in Phases
      BY DEF TypeOK, SwitchTypes
  <1>4. getReason' = "profile" => getReason = "profile" /\ target' = target
      BY <1>1, <1>2, <1>3 DEF ModeInv, Phases
  <1>5. verifyPending => AllFresh(wire) /\ gdMode = commanded
      BY <1>1 DEF MarkerInv, VerifiesMode, Sending
  <1>6. AckBehind(wire)'  BY DEF MarkerInv, WireKept
  <1>7. ProfileIsLast'  BY <1>1, <1>4 DEF MarkerInv, ProfileIsLast, WireKept
  <1>8. VerifiesMode'  BY <1>1, <1>5 DEF VerifiesMode, WireKept
  <1>9. ThreeUnmarked'
    <2>1. ~(verifyPending /\ commanded = 3 /\ target' = 3)  BY <1>1
    <2>2. getReason' = "profile" /\ target = 3 => ~markerQuery /\ ~markerOk
        BY <1>4 DEF MarkerInv, ThreeUnmarked
    <2> QED  BY <1>1, <1>4, <2>1, <2>2 DEF ThreeUnmarked, Sending
  <1>10. OneMarked'
    <2>1. SUFFICES ASSUME target' = 1 PROVE OneMarked'
        BY DEF OneMarked
    <2>2. commanded = 3  BY <1>1, <1>3, <2>1 DEF Phases
    <2>3. verifyPending => MarksFresh(wire)' /\ (markerOk => Marked')
      <3> SUFFICES ASSUME verifyPending PROVE MarksFresh(wire)' /\ (markerOk => Marked')
          OBVIOUS
      <3>1. CASE target = 1
          BY <3>1 DEF MarkerInv, OneMarked, WireKept, Marked
      <3>2. CASE target = 3
        <4>1. ~markerOk  BY <2>2, <3>2 DEF MarkerInv, ThreeUnmarked
        <4>2. MarksFresh(wire)
            BY <1>5, <2>2 DEF AllFresh, MarksFresh, Fresh, IsReadback, IsMark
        <4> QED  BY <4>1, <4>2 DEF WireKept
      <3> QED  BY <1>3, <3>1, <3>2 DEF Phases
    <2>4. getReason' = "profile" => (markerOk => Marked')
        BY <1>4, <2>1 DEF MarkerInv, OneMarked, WireKept, Marked
    <2> QED  BY <1>1, <2>3, <2>4 DEF OneMarked, Sending
  <1> QED  BY <1>6, <1>7, <1>8, <1>9, <1>10 DEF MarkerInv

(* The mode command forgets the readback and the marker.  If it arrives,   *)
(* an unverified switch has left no marker for it to take: a GD in the     *)
(* mode believed in, which is another one, and nothing outdated.           *)
LEMMA ApplyKeepsMarker ==
    ASSUME NEW expired, ApplyMode(expired), MarkerInv, TypeOK, SwitchFollowsRequest,
           \/ WireKept
           \/ /\ AckBehind(wire)'
              /\ AllFresh(wire) /\ gdMode # 1 => MarksFresh(wire)'
    PROVE  MarkerInv'
  <1>1. /\ stage = "offdelay" /\ stage' = "applying"
        /\ getReason' = "none" /\ ~markerQuery' /\ ~markerOk'
        /\ UNCHANGED <<target, commanded, verifyPending>>
      BY DEF ApplyMode, MarkerAfterMode
  <1>2. target # commanded  BY <1>1 DEF SwitchFollowsRequest
  <1>3. target \in Phases /\ commanded \in Phases  BY DEF TypeOK, SwitchTypes
  <1>4. verifyPending => AllFresh(wire) /\ gdMode = commanded
      BY <1>1 DEF MarkerInv, VerifiesMode, Sending
  <1>5. AckBehind(wire)'  BY DEF MarkerInv, WireKept
  <1>6. ProfileIsLast' /\ VerifiesMode' /\ ThreeUnmarked'
      BY <1>1 DEF ProfileIsLast, VerifiesMode, ThreeUnmarked, Sending
  <1>7. target = 1 /\ verifyPending => MarksFresh(wire)'
    <2>1. target = 1 /\ verifyPending => MarksFresh(wire)  BY DEF MarkerInv, OneMarked
    <2>2. target = 1 => commanded # 1  BY <1>2
    <2> QED  BY <1>4, <2>1, <2>2 DEF WireKept
  <1>8. OneMarked'  BY <1>1, <1>7 DEF OneMarked
  <1> QED  BY <1>5, <1>6, <1>8 DEF MarkerInv

(* Commands, the first half of the task and reports.                       *)
LEMMA OthersKeepMarker ==
    ASSUME \/ Command \/ (\E b \in FirmwareUpdates : SetFirmwareUpdate(b)) \/ UpdateCurrents
           \/ Report \/ (\E safe \in BOOLEAN : RxCp(safe)),
           MarkerInv, WireKept
    PROVE  MarkerInv'
  <1>1. CASE Command
      BY <1>1, MarkerStays
      DEF Command, RejectRequest, RequestPhases, RequestPower, WriteRounding,
          RoundingWritten, SetSlots, switchVars, verifyVars, Sending, MayRequest, Switching, Stages
  <1>2. CASE UpdateCurrents \/ \E b \in FirmwareUpdates : SetFirmwareUpdate(b)
      BY <1>2, MarkerStays DEF UpdateCurrents, SetFirmwareUpdate, switchVars, verifyVars
  <1>3. CASE Report
    <2>1. CASE RxInfo  BY <2>1, MarkerStays DEF RxInfo, switchVars, verifyVars
    <2>2. UpdateStatus(GdStatus) => (target = 3 /\ markerQuery' => markerQuery)
      <3> SUFFICES ASSUME UpdateStatus(GdStatus), target = 3, markerQuery' PROVE markerQuery
          OBVIOUS
      <3>1. markerQuery \/ target = 1  BY DEF UpdateStatus
      <3> QED  BY <3>1
    <2>3. CASE RxStatus(GdStatus)
        BY <2>2, <2>3, MarkerStays DEF RxStatus, switchVars
    <2>4. ASSUME NEW n, NEW l, RxMeter(GdStatus, n, l) PROVE MarkerInv'
      <3>1. verifyPending' = verifyPending \/ ~verifyPending'
          BY <2>4 DEF RxMeter, ValidatePhaseCount
      <3>2. UNCHANGED stage \/ (stage' = "error" /\ ~verifyPending')
          BY <2>4 DEF RxMeter, ValidatePhaseCount
      <3> QED  BY <2>2, <2>4, <3>1, <3>2, MarkerStays DEF RxMeter, Sending
    <2> QED  BY <1>3, <2>1, <2>3, <2>4 DEF Report
  <1>4. CASE \E safe \in BOOLEAN : RxCp(safe)
      BY <1>4, MarkerStays DEF RxCp, verifyVars
  <1> QED  BY <1>1, <1>2, <1>3, <1>4

(* An acknowledgement of a mode, or a readback taken for one.              *)
LEMMA AckKeepsMarker ==
    ASSUME RxModeAck, MarkerInv, WireKept, NoReadbackAhead(wire)'
    PROVE  MarkerInv'
  <1>1. CASE stage # "applying"
      BY <1>1, MarkerStays DEF RxModeAck, switchVars
  <1>2. CASE stage = "applying"
    <2>1. /\ UNCHANGED <<stage, target, commanded, verifyPending, markerQuery, markerOk>>
          /\ getReason' = "profile"
        BY <1>2 DEF RxModeAck, switchVars
    <2>2. AckBehind(wire)'  BY DEF MarkerInv, WireKept
    <2>3. ProfileIsLast'  BY <1>2, <2>1 DEF ProfileIsLast
    <2>4. VerifiesMode'  BY <1>2, <2>1 DEF VerifiesMode, Sending
    <2>5. ThreeUnmarked'  BY <1>2, <2>1 DEF MarkerInv, ThreeUnmarked, Sending
    <2>6. OneMarked'
        BY <1>2, <2>1 DEF MarkerInv, OneMarked, Marked, WireKept, Sending
    <2> QED  BY <2>2, <2>3, <2>4, <2>5, <2>6 DEF MarkerInv
  <1> QED  BY <1>1, <1>2

(* The readback that was waited for.                                       *)
LEMMA ReadbackKeepsMarker ==
    ASSUME NEW a \in Answers, IsReadback(a), TakeReadback(a.mode, a.handler, a.hook),
           MarkerInv, WireKept,
           MarksFresh(wire) => (IsMark(a) => Marked),
           NoReadbackAhead(wire) => NoLimitAhead(wire)'
    PROVE  MarkerInv'
  <1>1. UNCHANGED <<target, commanded, markerQuery>> /\ getReason' = "none"
      BY DEF TakeReadback
  <1>2. CASE stage' = "error" /\ verifyPending' = FALSE /\ UNCHANGED markerOk
      BY <1>1, <1>2, MarkerStays DEF Sending
  <1>3. CASE /\ getReason = "marker" /\ a.mode = target
             /\ markerOk' = (markerOk \/ a.hook) /\ UNCHANGED <<stage, verifyPending>>
    <2>1. AckBehind(wire)'  BY DEF MarkerInv, WireKept
    <2>2. ProfileIsLast'  BY <1>1, <1>3 DEF MarkerInv, ProfileIsLast, WireKept
    <2>3. VerifiesMode'  BY <1>1, <1>3 DEF MarkerInv, VerifiesMode, WireKept
    <2>4. ThreeUnmarked'  BY <1>1, <1>3 DEF MarkerInv, ThreeUnmarked
    <2>5. OneMarked'
      <3>1. ASSUME target = 1, a.hook, verifyPending \/ stage \in Sending PROVE Marked
        <4>1. MarksFresh(wire)  BY <1>3, <3>1 DEF MarkerInv, OneMarked
        <4>2. IsMark(a)  BY <1>3, <3>1 DEF IsMark
        <4> QED  BY <4>1, <4>2
      <3>2. Marked => Marked'  BY DEF Marked, WireKept
      <3> QED  BY <1>1, <1>3, <3>1, <3>2 DEF MarkerInv, OneMarked, WireKept
    <2> QED  BY <2>1, <2>2, <2>3, <2>4, <2>5 DEF MarkerInv
  <1>4. CASE /\ getReason = "profile" /\ a.mode = target /\ stage' = "confirming"
             /\ UNCHANGED <<verifyPending, markerOk>>
    <2>1. AckBehind(wire)'  BY DEF MarkerInv, WireKept
    <2>2. ProfileIsLast'  BY <1>1, <1>4 DEF MarkerInv, ProfileIsLast
    <2>3. VerifiesMode'  BY <1>4 DEF VerifiesMode, Sending
    <2>4. ThreeUnmarked'  BY <1>1, <1>4 DEF MarkerInv, ThreeUnmarked
    <2>5. OneMarked'
      <3>1. Marked => Marked'  BY DEF Marked, WireKept
      <3> QED  BY <1>1, <1>4, <3>1 DEF MarkerInv, OneMarked, WireKept
    <2> QED  BY <2>1, <2>2, <2>3, <2>4, <2>5 DEF MarkerInv
  <1> QED  BY <1>2, <1>3, <1>4 DEF TakeReadback, ReadbackOk

(* A switch that is finished has the GD in its mode and nothing outdated   *)
(* behind it.                                                              *)
LEMMA FinishKeepsMarker ==
    ASSUME stage = "confirming", RxLimitAck, MarkerInv, ModeInv, WireKept, AllFresh(wire)'
    PROVE  MarkerInv'
  <1>1. /\ commanded' = target /\ stage' \in {"idle", "restarting"}
        /\ UNCHANGED <<target, getReason, markerQuery, markerOk>>
      BY DEF RxLimitAck, FinishPhaseSwitch
  <1>2. gdMode' = target /\ getReason # "profile"  BY DEF ModeInv, WireKept
  <1>3. AckBehind(wire)'  BY DEF MarkerInv, WireKept
  <1>4. ProfileIsLast'  BY <1>1, <1>2 DEF ProfileIsLast
  <1>5. VerifiesMode'  BY <1>1, <1>2 DEF VerifiesMode
  <1>6. ThreeUnmarked'  BY <1>1, <1>2 DEF MarkerInv, ThreeUnmarked, Sending
  <1>7. OneMarked'
    <2>1. MarksFresh(wire)'  BY DEF AllFresh, MarksFresh, Fresh, IsMark, Marked
    <2>2. target = 1 /\ markerOk => Marked'
        BY DEF MarkerInv, OneMarked, Sending, Marked, WireKept
    <2> QED  BY <1>1, <2>1, <2>2 DEF OneMarked, Sending
  <1> QED  BY <1>3, <1>4, <1>5, <1>6, <1>7 DEF MarkerInv

LEMMA AnswerKeepsMarker ==
    ASSUME ShortWire, MarkerInv, ModeInv, TypeOK, PlantTypes, EspReadsAnswer
    PROVE  MarkerInv'
  <1> DEFINE a == Head(wire)
             t == Tail(wire)
  <1>1. /\ wire # <<>> /\ a \in Answers /\ AnswerFrame(a) /\ GdObeys(t)
        /\ t \in Seq(Answers)
      BY TailType DEF EspReadsAnswer, Heard
  <1>2. Len(wire) <= 4
      BY SystemAssumption DEF ShortWire, PlantTypes
  <1>3. AckBehind(wire) /\ commanded \in Phases  BY DEF MarkerInv, TypeOK, SwitchTypes
  <1>4. /\ NoLimitAhead(wire) /\ a.kind = "limit" => AllFresh(t)
        /\ NoReadbackAhead(wire) /\ IsReadback(a) => NoLimitAhead(t)
        /\ NoReadbackAhead(t)
      BY <1>1, <1>2, <1>3, HeadTells
  <1>5. MarksFresh(wire) => (IsMark(a) => Marked)  BY <1>1, TailFresh
  <1> HIDE DEF a
  <1>6. sent' \cap Modes = {} /\ WireKept  BY <1>1, OthersSendNoMode, AnswerKeepsMode
  <1>7. /\ AllFresh(t) => AllFresh(wire)'
        /\ NoLimitAhead(t) => NoLimitAhead(wire)'
        /\ NoReadbackAhead(t) => NoReadbackAhead(wire)'
      BY <1>1, <1>6, NoModeNoChange, PlainAnswers
  <1> HIDE DEF t
  <1>8. CASE RxModeAck  BY <1>4, <1>6, <1>7, <1>8, AckKeepsMarker
  <1>9. CASE a.kind = "readback" /\ RxReadback(a.mode, a.handler, a.hook)
    <2>1. CASE RxModeAck  BY <1>8, <2>1
    <2>2. CASE TakeReadback(a.mode, a.handler, a.hook)
      <3>1. IsReadback(a)  BY <1>9 DEF IsReadback
      <3>2. NoReadbackAhead(wire) => NoLimitAhead(wire)'  BY <1>4, <1>7, <3>1
      <3> QED  BY <1>1, <1>5, <1>6, <2>2, <3>1, <3>2, ReadbackKeepsMarker
    <2> QED  BY <1>9, <2>1, <2>2 DEF RxReadback
  <1>10. CASE a.kind = "limit" /\ RxLimitAck
    <2>1. CASE stage = "confirming"
      <3>1. NoLimitAhead(wire)  BY <2>1 DEF MarkerInv, ProfileIsLast
      <3> QED  BY <1>4, <1>6, <1>7, <1>10, <2>1, <3>1, FinishKeepsMarker
    <2>2. CASE stage # "confirming"
        BY <1>6, <1>10, <2>2, MarkerStays DEF RxLimitAck
    <2> QED  BY <2>1, <2>2
  <1> QED  BY <1>1, <1>8, <1>9, <1>10 DEF AnswerFrame

LEMMA MarkerInductive ==
    ASSUME ShortWire, MarkerInv, ModeInv, TypeOK, PlantTypes, SwitchFollowsRequest,
           [SystemNext]_sysVars
    PROVE  MarkerInv'
  <1>1. CASE EspActs \/ EspReadsReport \/ EspReadsPilot \/ Heard(UpdateCurrents, wire)
      BY <1>1, OtherAnswers, OthersKeepMarker
  <1>2. ASSUME NEW expired, Heard(SwitchRun(expired), wire) PROVE MarkerInv'
    <2>1. ProcessPhaseSwitch(expired)  BY <1>2, TaskAnswers
    <2>2. CASE ApplyMode(expired)  BY <1>2, <2>2, TaskAnswers, ApplyKeepsMarker
    <2>3. CASE StartSwitch(expired) /\ ~ApplyMode(expired)
        BY <1>2, <2>3, TaskAnswers, StartKeepsMarker
    <2>4. CASE ~StartSwitch(expired) /\ ~ApplyMode(expired)
        BY <1>2, <2>1, <2>4, TaskAnswers, TaskKeepsMarker
    <2> QED  BY <2>2, <2>3, <2>4
  <1>3. CASE EspReboots
    <2>1. AckBehind(wire)'  BY <1>3, BootAnswers DEF AckBehind, Fresh, IsReadback
    <2> QED  BY <1>3, <2>1, BootAnswers
             DEF MarkerInv, ProfileIsLast, VerifiesMode, ThreeUnmarked, OneMarked, Sending
  <1>4. CASE EspReadsAnswer  BY <1>4, AnswerKeepsMarker
  <1>5. CASE \/ AnswerLost \/ GdCloses \/ GdDetectsFault \/ GdClearsFault
             \/ EvDemands \/ EvReleases \/ Unplug \/ Plug \/ UNCHANGED sysVars
      BY <1>5, PlantAnswers, MarkerStays DEF vars, switchVars, verifyVars
  <1>6. ~GdRestart  BY DEF GdRestart, ShortWire
  <1> QED  BY <1>1, <1>2, <1>3, <1>4, <1>5, <1>6 DEF SystemNext, EspTask

LEMMA MarkerHolds ==
    ASSUME ShortWire
    PROVE  SystemSpec => []MarkerInv
  <1>1. SystemInit => MarkerInv
    <2> SUFFICES ASSUME SystemInit PROVE MarkerInv
        OBVIOUS
    <2>1. wire = <<>> /\ stage = "idle" /\ getReason = "none" /\ verifyPending = FALSE
          /\ target = 3
        BY DEF SystemInit, Init
    <2>2. AckBehind(wire)  BY <2>1 DEF AckBehind
    <2> QED
        BY <2>1, <2>2 DEF MarkerInv, ProfileIsLast, VerifiesMode, ThreeUnmarked, OneMarked, Sending
  <1>2. MarkerInv /\ ModeInv /\ TypeOK /\ PlantTypes /\ SwitchFollowsRequest
          /\ [SystemNext]_sysVars
            => MarkerInv'
      BY MarkerInductive
  <1>3. SystemSpec => []ModeInv  BY ModeHolds DEF ShortWire
  <1> QED
      BY <1>1, <1>2, <1>3, PlantIsTyped, LoopImplementsSwitch, SwitchIsTyped,
         SwitchPursuesRequest, PTL
      DEF SystemSpec

(* The close marker of a one-phase start is the one of that start, with    *)
(* commands and answers lost, late reports, faults, restarts of the        *)
(* controller and any behaviour of vehicle and client, as long as no more  *)
(* than four answers wait and the GD keeps running.                        *)
THEOREM MarkersAreFresh ==
    ASSUME ShortWire
    PROVE  SystemSpec => []CloseMarkerIsFresh
  <1>1. MarkerInv => CloseMarkerIsFresh
      BY DEF MarkerInv, OneMarked, CloseMarkerIsFresh, Marked
  <1> QED  BY <1>1, MarkerHolds, PTL
=============================================================================
