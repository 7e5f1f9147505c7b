------------------------------- MODULE Sensors --------------------------------
(***************************************************************************)
(* The sensors HAL (SensorHal) and the daemon of the compass (Akmd) around *)
(* the driver of the compass.  The HAL writes the driver's attributes; the *)
(* daemon waits for them, reads them and hands the driver what it measured, *)
(* which the thread in poll() reads as input events.                       *)
(***************************************************************************)
EXTENDS SensorHal, Akmd

vars == <<halVars, driverVars, akmdVars>>

Init == HalInit /\ AkmdInit

OfHal(action) == action /\ UNCHANGED akmdVars
OfDaemon(action) == action /\ UNCHANGED halVars

Next ==
    \/ \E h \in used, en \in BOOLEAN : OfHal(activate(h, en))
    \/ \E h \in used, d \in Delays : OfHal(setDelay(h, d))
    \/ \E h \in used : OfHal(flush(h))
    \/ OfHal(Point) \/ OfHal(WriteAttribute) \/ OfHal(Finish)
    \/ OfHal(poll) \/ OfHal(HubReadEvents) \/ OfHal(setAccel)
    \/ OfHal(AkmReadEvents) \/ OfHal(pollReturns) \/ OfHal(HubMeasures)
    \/ OfDaemon(Start) \/ OfDaemon(OpenStatus) \/ OfDaemon(CloseStatus)
    \/ OfDaemon(Join) \/ OfDaemon(SaveOpen) \/ OfDaemon(SaveWrite) \/ OfDaemon(Kill)
    \/ OfDaemon(MeasureStarts) \/ OfDaemon(GetMagneticVector)
    \/ OfDaemon(GetAccelerationData) \/ OfDaemon(ReportMag) \/ OfDaemon(ReportFusion)
    \/ OfDaemon(Setting) \/ OfDaemon(LoopEnds)

(* The threads run, every event of the loop whose interval is set falls    *)
(* due again and again, and the daemon is restarted                        *)
Fairness ==
    /\ WF_vars(OfHal(Poller)) /\ WF_vars(OfHal(Caller))
    /\ WF_vars(OfDaemon(Main)) /\ WF_vars(OfDaemon(MeasureStarts \/ LoopEnds))
    /\ WF_vars(OfDaemon(Setting))
    /\ WF_vars(OfDaemon(ReportMag)) /\ WF_vars(OfDaemon(ReportFusion))

Spec == Init /\ [][Next]_vars /\ Fairness

-----------------------------------------------------------------------------
Writes == [attr : Attributes, value : {0, 1} \cup Delays, must : BOOLEAN]

TypeOK ==
    /\ mFusionEnabled \subseteq Fusion
    /\ mFusionDelay \in [Fusion -> Delays \cup {Default}]
    /\ mEnabled \subseteq {"ACCEL", "ALS"} /\ mWakeEnabled \subseteq {"P", "GLANCE"}
    /\ mEnabledHandles \subseteq used /\ akmEnabled \subseteq Akm \cap used
    /\ mDelay \in [Akm -> Delays \cup {NoDelay}]
    /\ mPendingMask \subseteq Akm
    /\ mInputReader \in Seq(SUBSET Akm) /\ Len(mInputReader) <= NumEvents
    /\ call = Idle \/ call.writes \in Seq(Writes)
    /\ used \in Handles /\ on \subseteq used /\ lost \subseteq Attributes
    /\ poller \in {"poll", "hub", "accel", "akm", "events", "return"}
    /\ compass \in [enable_mag : {0, 1}, enable_fusion : {0, 1},
                    delay_mag : Delays \cup {NoDelay}, delay_fusion : Delays \cup {NoDelay}]
    /\ inputs \in Seq(SUBSET Akm) /\ Len(inputs) <= MaxInputs
    /\ main \in {"dead", "open", "close", "join", "save", "write"}
    /\ thread \in {"off", "init", "loop", "done"}
    /\ prms \in 0 .. MaxFound /\ file \in Seq(0 .. MaxFound)

(* poll() never returns more events than the caller has room for, though  *)
(* one record of the hub can be two events: the slot that                  *)
(* HubSensor::readEvents() keeps back                                      *)
RoomRespected == TypeOK /\ Len(data) <= Count

(* Between calls every sensor activate() has enabled has its bit in the   *)
(* hub, one that is off has none, and the accelerometer is at least as     *)
(* fast as each of its users asked: sensors that share a bit or a delay do *)
(* not take it from each other, in whatever order they come and go         *)
HubServes ==
    call = Idle =>
        /\ mWakeEnabled = (on \cap {"P"}) \cup {"GLANCE" : h \in on \cap Glances}
        /\ on \cap Fusion # {} => "ACCEL" \in mEnabled
        /\ \A h \in on \cap Fusion : hub.delay <= mFusionDelay[h]

(* Between calls the compass is on for the sensors that are on, and the   *)
(* two magnetic sensors get the shorter of their delays, unless the write  *)
(* of that attribute went astray: AkmSensor's share of the same            *)
CompassServes ==
    call = Idle =>
        /\ \A h \in on \cap Mag :
             /\ "enable_mag" \notin lost => compass.enable_mag = 1
             /\ "delay_mag" \notin lost => compass.delay_mag <= mDelay[h]
        /\ on \cap Ori # {} /\ "enable_fusion" \notin lost => compass.enable_fusion = 1

(* Both halves of the HAL serve every sensor that is on.                   *)
SensorsServed == HubServes /\ CompassServes

(* The calibration the thread found last is the one that is saved when    *)
(* the sensors go off and the one in use when they come on again: nothing  *)
(* of it is lost between the two threads and the file, as long as nothing  *)
(* fails or is killed                                                      *)
CalibrationKept ==
    faults = 0 =>
        /\ main = "open" /\ found > 0 => file = <<found>>
        /\ thread = "loop" => prms = found

(* The measuring thread gave up: nobody starts it again before every       *)
(* sensor has been off                                                     *)
Ended == thread = "done" /\ ~g_stopRequest

(* A compass sensor that stays on has its events delivered again and      *)
(* again, across the attributes, the daemon and the reader, even when the  *)
(* daemon is killed, unless a write went astray or the thread gave up      *)
Delivered ==
    \A h \in Akm :
        []<>\/ h \notin on \/ lost # {} \/ Ended
            \/ poller = "return" /\ h \in ToSet(data)

(* The daemon comes to measure at the rate a magnetic sensor asked for:   *)
(* it sees a change of the delay within the interval of its settings       *)
RateFollows ==
    \A h \in Mag :
        []<>\/ h \notin on \/ call # Idle \/ lost # {} \/ Ended
            \/ mag_acq # Off /\ mag_acq <= GetHDOEDecimator(mDelay[h])
=============================================================================
