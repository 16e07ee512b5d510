------------------------- MODULE PhaseSwitchSystem -------------------------
(***************************************************************************)
(* The closed loop: the ESP32 of PhaseSwitch, the patched GD32 (whose patch *)
(* is extras/ac011k-phase-switch/tools), the contactors and the vehicle.   *)
(*                                                                         *)
(* A step of the ESP hands the commands it sends to the GD in the same     *)
(* step; the answers wait, in order, in the receive buffer (wire).  Status, *)
(* currents and CP samples are reports of the moment.  What may go wrong   *)
(* is chosen by the constant Faults.                                       *)
(***************************************************************************)
EXTENDS PhaseSwitch, Sequences

CONSTANTS
    Faults,     \* what may go wrong
    MaxWire     \* answers that may wait in the receive buffer

FaultKinds ==
    {"loss",        \* a command or an answer may be lost on the serial line
     "unplug",      \* the plug may be pulled
     "replug",      \* ... and put in again
     "simulator",   \* the vehicle may go to state C without being offered power
     "lateReports", \* a report may be older than the off delay
     "gdFault",     \* the GD may detect a fault
     "gdRestart", "espRestart"}

ASSUME SystemAssumption ==
    /\ Faults \subseteq FaultKinds
    /\ MaxWire \in Nat \ {0}
    /\ GdReports = GdStates

VARIABLES
    gdMode, gdHandler, gdHook,   \* StartPowerMode byte: bit 0, 0x20, 0x40
    gdOn,                        \* the GD offers power
    gdFault,
    plugged, evC,                \* the cable; the vehicle pulls CP to state C
    cpLast,                      \* the last CP sample said: not in state C
    relay,                       \* phases the contactors connect, 0 when open
    wire                         \* answers of the GD the ESP has not read yet

gdModeVars == <<gdMode, gdHandler, gdHook>>
carVars    == <<plugged, evC>>
plantVars  == <<gdModeVars, gdOn, gdFault, carVars, cpLast, relay>>
sysVars    == <<vars, plantVars, wire>>

Answers == [kind : {"ack", "limit"}] \cup
           [kind : {"readback"}, mode : Phases, handler : BOOLEAN, hook : BOOLEAN]

SystemTypeOK ==
    /\ TypeOK
    /\ gdMode \in Phases /\ gdHandler \in BOOLEAN /\ gdHook \in BOOLEAN
    /\ gdOn \in BOOLEAN /\ gdFault \in BOOLEAN
    /\ plugged \in BOOLEAN /\ evC \in BOOLEAN /\ cpLast \in BOOLEAN
    /\ relay \in Phases \cup {0}
    /\ wire \in Seq(Answers) /\ Len(wire) <= MaxWire

(* Both have just booted, configure_gd has selected the normal start mode. *)
SystemInit ==
    /\ Init
    /\ gdMode = 3 /\ gdHandler = TRUE /\ gdHook = FALSE
    /\ gdOn = FALSE /\ gdFault = FALSE
    /\ plugged \in BOOLEAN /\ evC = FALSE /\ cpLast = TRUE
    /\ relay = 0 /\ wire = <<>>

-----------------------------------------------------------------------------
(* The GD.                                                                 *)

(* The mode handler of the patch: store the mode, set 0x20, clear 0x40.    *)
SelectMode(cmds) ==
    IF cmds \cap {"mode1", "mode3"} = {}
    THEN UNCHANGED gdModeVars
    ELSE /\ gdMode' = IF "mode1" \in cmds THEN 1 ELSE 3
         /\ gdHandler' = TRUE /\ gdHook' = FALSE

(* A marker query of the task is sent before the mode command of that run. *)
Answer(cmds) ==
    (IF "get" \in cmds
     THEN <<[kind |-> "readback", mode |-> gdMode, handler |-> gdHandler, hook |-> gdHook]>>
     ELSE <<>>)
    \o (IF cmds \cap {"mode1", "mode3"} # {} THEN <<[kind |-> "ack"]>> ELSE <<>>)
    \o (IF "profile" \in cmds THEN <<[kind |-> "limit"]>> ELSE <<>>)

(* The commands that reach the GD, and what it does with them: a stop ends *)
(* the offer at once, the contactors follow the vehicle.                   *)
Delivered(cmds) == IF "loss" \in Faults THEN SUBSET cmds ELSE {cmds}

GdObeys(waiting) ==
    \E cmds \in Delivered(sent') :
        /\ SelectMode(cmds)
        /\ gdOn' = (/\ "stop" \notin cmds
                    /\ gdOn \/ ("start" \in cmds /\ plugged /\ ~gdFault))
        /\ wire' = waiting \o Answer(cmds)
        /\ Len(wire') <= MaxWire

(* The state the GD reports: "charging" as soon as the vehicle draws the   *)
(* offer, before the contactors close; "preparing" after a stop, while the *)
(* vehicle may still hold them closed.                                     *)
GdStatus == CASE gdFault               -> "fault"
              [] ~gdFault /\ ~plugged  -> "available"
              [] ~gdFault /\ plugged /\ ~gdOn         -> "preparing"
              [] ~gdFault /\ plugged /\ gdOn /\ evC   -> "charging"
              [] ~gdFault /\ plugged /\ gdOn /\ ~evC  -> "suspended"

(* The relay state machine of the patched GD: one or three phases by bit 0 *)
(* of the mode byte, then the close marker.                                *)
GdCloses ==
    /\ gdOn /\ evC /\ ~gdFault /\ relay = 0
    /\ relay' = gdMode /\ gdHook' = TRUE
    /\ UNCHANGED <<vars, gdMode, gdHandler, gdOn, gdFault, carVars, cpLast, wire>>

GdDetectsFault ==
    /\ "gdFault" \in Faults
    /\ ~gdFault /\ gdFault' = TRUE
    /\ relay' = 0 /\ gdOn' \in {gdOn, FALSE}
    /\ UNCHANGED <<vars, gdModeVars, carVars, cpLast, wire>>

GdClearsFault ==
    /\ gdFault /\ gdFault' = FALSE
    /\ UNCHANGED <<vars, gdModeVars, gdOn, carVars, cpLast, relay, wire>>

(* What the GD has sent before stays in the receive buffer of the ESP.     *)
GdRestart ==
    /\ "gdRestart" \in Faults
    /\ gdMode' = 3 /\ gdHandler' = FALSE /\ gdHook' = FALSE
    /\ gdOn' = FALSE /\ gdFault' = FALSE /\ relay' = 0
    /\ UNCHANGED <<vars, carVars, cpLast, wire>>

-----------------------------------------------------------------------------
(* The vehicle and its driver.                                             *)

EvDemands ==
    /\ plugged /\ ~evC
    /\ gdOn \/ "simulator" \in Faults
    /\ evC' = TRUE
    /\ UNCHANGED <<vars, gdModeVars, gdOn, gdFault, plugged, cpLast, relay, wire>>

EvReleases ==
    /\ evC /\ evC' = FALSE
    /\ relay' = 0
    /\ UNCHANGED <<vars, gdModeVars, gdOn, gdFault, plugged, cpLast, wire>>

Unplug ==
    /\ "unplug" \in Faults
    /\ plugged /\ plugged' = FALSE
    /\ evC' = FALSE /\ relay' = 0 /\ gdOn' = FALSE
    /\ UNCHANGED <<vars, gdModeVars, gdFault, cpLast, wire>>

Plug ==
    /\ "replug" \in Faults
    /\ ~plugged /\ plugged' = TRUE
    /\ UNCHANGED <<vars, gdModeVars, gdOn, gdFault, evC, cpLast, relay, wire>>

-----------------------------------------------------------------------------
(* The ESP, its commands handed to the GD.                                 *)

(* Status, heartbeat and CP reports come every few seconds or at a change; *)
(* unless they are late, the last ones still hold when the off delay ends. *)
ReportsHold ==
    /\ gdSeen = GdStatus
    /\ plugged => cpLast = ~evC

Heard(esp, waiting) ==
    esp /\ GdObeys(waiting) /\ UNCHANGED <<gdFault, carVars, cpLast, relay>>

SwitchRun(expired) ==
    /\ ProcessPhaseSwitch(expired)
    /\ ModeCommand(target) \in sent' /\ "lateReports" \notin Faults => ReportsHold

EspActs == \/ Heard(Command, wire)
           \/ \E b \in FirmwareUpdates : Heard(SetFirmwareUpdate(b), wire)

EspTask == \/ Heard(UpdateCurrents, wire)
           \/ \E expired \in SUBSET Running : Heard(SwitchRun(expired), wire)

EspReboots ==
    /\ "espRestart" \in Faults
    /\ Heard(EspRestart, <<>>)

(* The currents of a report: none yet, or all the connected phases.        *)
Report ==
    \/ ~initialized /\ RxInfo
    \/ RxStatus(GdStatus)
    \/ \E n \in {0, relay} \cap LoadReports, l \in BOOLEAN :
          (n > 0 => l) /\ (relay = 0 => ~l) /\ RxMeter(GdStatus, n, l)

EspReadsReport == Heard(Report, wire)

EspReadsPilot ==
    /\ RxCp(~evC)
    /\ cpLast' = ("lateReports" \notin Faults => ~evC)    \* else nobody asks
    /\ GdObeys(wire)
    /\ UNCHANGED <<gdFault, carVars, relay>>

AnswerFrame(a) ==
    \/ a.kind = "ack" /\ RxModeAck
    \/ a.kind = "limit" /\ RxLimitAck
    \/ a.kind = "readback" /\ RxReadback(a.mode, a.handler, a.hook)

EspReadsAnswer == wire # <<>> /\ Heard(AnswerFrame(Head(wire)), Tail(wire))

AnswerLost ==
    /\ "loss" \in Faults
    /\ wire # <<>> /\ wire' = Tail(wire)
    /\ UNCHANGED <<vars, plantVars>>

SystemNext ==
    \/ EspActs \/ EspTask \/ EspReboots \/ EspReadsReport \/ EspReadsPilot \/ EspReadsAnswer \/ AnswerLost
    \/ GdCloses \/ GdDetectsFault \/ GdClearsFault \/ GdRestart
    \/ EvDemands \/ EvReleases \/ Unplug \/ Plug

SystemSpec == SystemInit /\ [][SystemNext]_sysVars

(* The main loop: the task comes round (WF), every deadline it keeps       *)
(* looking at passes, loop() keeps reading answers, pilot samples and what *)
(* the GD tells of itself, its information once and then its status (SF, as *)
(* it reads nothing while the task runs).  The vehicle, the driver and the *)
(* client may do anything the run lets them, or nothing.                   *)
GdTells == IF initialized THEN RxStatus(GdStatus) ELSE RxInfo

Fairness ==
    /\ WF_sysVars(EspTask)
    /\ SF_sysVars(Heard(SwitchRun(Running), wire))
    /\ SF_sysVars(EspReadsAnswer)
    /\ SF_sysVars(Heard(GdTells, wire))
    /\ SF_sysVars(EspReadsPilot)

FairSpec == SystemSpec /\ Fairness

-----------------------------------------------------------------------------
(* What the power path is promised: see PhaseRelay.                        *)
Relay == INSTANCE PhaseRelay WITH mode <- gdMode, believed <- commanded

(* The mode is only changed while the contactors are open (raw-CP guard,   *)
(* off delay and send_start_power_mode), the contactors close with the     *)
(* mode selected, and commanded_phases only changes to the mode the GD has *)
(* (readback before the profile, 0x0D before finish_phase_switch).         *)
ImplementsPhaseRelay == Relay!Spec

(* The contactors never connect other phases than the GD is set to.        *)
ModeChangesOnlyWhenOpen == relay \in {0, gdMode}

(* A one-phase start counts as closed through the final hook only if the   *)
(* hook has run since the mode command (0x0A/0x09 with reason 2, however   *)
(* late the readback is and whatever switch it was asked for).             *)
CloseMarkerIsFresh == verifyPending /\ target = 1 /\ markerOk => gdMode = 1 /\ gdHook

(* A switch comes to an end, in idle or in error, unless the vehicle draws *)
(* power again, or is plugged in again, over and over while the switch     *)
(* waits for the contactors to open: every stage of process_phase_switch   *)
(* has its deadline, but from the off delay it may go back to STOPPING, and *)
(* how often is not limited.                                               *)
Teased == CpCounts /\ ((~evC /\ evC') \/ (~plugged /\ plugged'))
SwitchEnds == []<>(stage \notin Switching) \/ []<><<Teased>>_sysVars

(* A power target that is not replaced is applied, or the switch it needs  *)
(* ends in error: switching for it never goes on for ever.                 *)
TargetSettles ==
    \A w \in Powers :
        <>[](pmActive /\ power = w) => []<>(~pmDirty \/ stage = "error")
=============================================================================
