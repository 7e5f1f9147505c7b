-------------------------------- MODULE Parts ---------------------------------
(***************************************************************************)
(* The parts of the device that share no state with each other: a thread   *)
(* object, a message queue, the NMEA sentences, the camera wrapper, the     *)
(* light service, the tool of the sensor hub and the module of its          *)
(* algorithms.  A behaviour is that of one part and the others stay as they *)
(* began.                                                                  *)
(***************************************************************************)
EXTENDS LocThread, MsgQueue, Nmea, CameraWrapper, Light, Stml0xx, SensorHub

VARIABLE part       \* the one that is looked at

deviceVars == <<cameraVars, lightVars, stmVars, moduleVars>>
partVars == <<part, threadVars, queueVars, nmeaVars, deviceVars>>

LightRests ==
    /\ good = {} /\ second = CHOOSE max \in Maxima : TRUE
    /\ state = [t \in Speaker |-> "dark"]

(* The others begin in some initial state, always the same                 *)
PartsInit ==
    /\ part \in {"thread", "queue", "nmea", "camera", "light", "tool", "algorithms"}
    /\ ThreadInit /\ QueueInit /\ NmeaInit /\ CameraInit /\ SensorHubInit
    /\ LightInit /\ (part # "light" => LightRests)
    /\ StmInit /\ (part # "tool" => files = {} /\ mcu.image = "old")

OfGps(p, rest) == part = p /\ UNCHANGED <<part, rest, deviceVars>>
OfThread == OfGps("thread", <<queueVars, nmeaVars>>)
OfQueue == OfGps("queue", <<threadVars, nmeaVars>>)
OfNmea == OfGps("nmea", <<threadVars, queueVars>>)

OfDevice(p, rest) ==
    part = p /\ UNCHANGED <<part, threadVars, queueVars, nmeaVars, rest>>
OfCamera == OfDevice("camera", <<lightVars, stmVars, moduleVars>>)
OfLight == OfDevice("light", <<cameraVars, stmVars, moduleVars>>)
OfTool == OfDevice("tool", <<cameraVars, lightVars, moduleVars>>)
OfAlgorithms == OfDevice("algorithms", <<cameraVars, lightVars, stmVars>>)

PartsNext ==
    \/ OfThread /\ ThreadNext
    \/ OfQueue /\ QueueNext
    \/ OfNmea /\ NmeaNext
    \/ OfCamera /\ CameraNext
    \/ OfLight /\ LightNext
    \/ OfTool /\ StmNext
    \/ OfAlgorithms /\ SensorHubNext

(* The fairness of the thread and of the queue is their own; the tool runs *)
(* on while the device has power                                           *)
PartsFairness ==
    /\ WF_partVars(OfThread /\ ClientFinishes)
    /\ \A d \in Delegates : WF_partVars(OfThread /\ WorkerStep(d))
    /\ \A r \in Receivers : WF_partVars(OfQueue /\ RcvWake(r))
    /\ WF_partVars(OfTool /\ ToolCall)

PartsSpec == PartsInit /\ [][PartsNext]_partVars /\ PartsFairness
=============================================================================
