--------------------------------- MODULE Akmd ---------------------------------
(***************************************************************************)
(* The daemon of the compass (main.c, Measure.c, FileIO.c, AKMD_Driver.c).  *)
(* The main thread waits in the driver until a sensor is on, loads the     *)
(* calibration, starts the thread that measures, waits until every sensor   *)
(* is off, joins that thread and saves the calibration.  The two share     *)
(* g_stopRequest and prms.  AkmSensor writes the attributes of the driver  *)
(* at any time; the thread reads them with the setting event.              *)
(*                                                                         *)
(* The timers of MeasureSNGLoop() are left out: an event whose interval is *)
(* set may fall due in any round, and each round reports what is due of    *)
(* one of the two kinds.  A calibration is a number.  The driver is        *)
(* external, and so is what restarts the daemon.                           *)
(***************************************************************************)
EXTENDS CompassDriver, FiniteSetsExt

CONSTANTS
    Intervals,      \* s_interval of misc.c
    FusionMin,      \* AKMD_FUSION_MIN_INTERVAL
    MaxInputs,      \* what the driver's queue of input events holds
    MaxFound,       \* bound: calibrations found
    MaxFaults       \* bound: ioctls and files that fail, deaths of the daemon

ASSUME AkmdAssumption ==
    /\ Intervals \subseteq Nat \ {0} /\ Intervals # {}
    /\ FusionMin \in Nat \ {0}
    /\ MaxInputs \in Nat \ {0}
    /\ MaxFound \in Nat /\ MaxFaults \in Nat

VARIABLES
    main,           \* what the main thread does next
    thread,         \* what the thread that measures does next
    g_stopRequest,
    g_mainQuit,
    prms,           \* HSUC: the last good calibration
    file,           \* CSPEC_SETTING_FILE
    mag_acq,        \* the interval the thread last read, Off when disabled
    fusion_acq,
    found           \* history: the last calibration found

threadVars == <<thread, mag_acq, fusion_acq>>
mainVars == <<main, g_stopRequest, g_mainQuit>>
dataVars == <<prms, file, found>>
akmdVars == <<mainVars, threadVars, dataVars, faults>>

Off == 0
NoData == <<>>              \* the file is missing, or was opened to be written
SetDefaultPRMS == 0         \* no calibration

AkmdInit ==
    /\ main = "open" /\ thread = "off"
    /\ g_stopRequest = FALSE /\ g_mainQuit = FALSE
    /\ prms = SetDefaultPRMS /\ file = NoData
    /\ mag_acq = Off /\ fusion_acq = Off
    /\ found = 0 /\ faults = 0

(* An ioctl or a file operation fails *)
Fault == faults < MaxFaults /\ calls + faults < MaxCalls /\ faults' = faults + 1

-----------------------------------------------------------------------------
(* main()                                                                  *)

(* The end of the process, and of what it held *)
Dies ==
    /\ main' = "dead" /\ thread' = "off"
    /\ g_stopRequest' = FALSE /\ g_mainQuit' = FALSE
    /\ prms' = SetDefaultPRMS /\ mag_acq' = Off /\ fusion_acq' = Off

Start ==
    /\ main = "dead"
    /\ main' = "open"
    /\ UNCHANGED <<threadVars, g_stopRequest, g_mainQuit, dataVars, faults, compass,
                   inputs>>

(* What fails to load is set to its default *)
LoadParameters == IF file = NoData THEN SetDefaultPRMS ELSE Head(file)

OpenKeepsStopRequest ==
    /\ main = "open" /\ Enabled
    /\ \/ /\ prms' = LoadParameters
          /\ g_stopRequest' = g_stopRequest
          /\ main' = "close" /\ thread' = "init"
          /\ UNCHANGED <<g_mainQuit, mag_acq, fusion_acq, faults>>
       \/ Fault /\ Dies
    /\ UNCHANGED <<file, found, compass, inputs>>

(* AKD_GetOpenStatus() returns, and the thread starts *)
OpenStatus ==
    /\ main = "open" /\ Enabled
    /\ \/ /\ prms' = LoadParameters
          /\ g_stopRequest' = FALSE
          /\ main' = "close" /\ thread' = "init"
          /\ UNCHANGED <<g_mainQuit, mag_acq, fusion_acq, faults>>
       \/ Fault /\ Dies
    /\ UNCHANGED <<file, found, compass, inputs>>

CloseStatus ==
    /\ main = "close"
    /\ \/ ~Enabled /\ UNCHANGED <<g_mainQuit, faults>>
       \/ Fault /\ g_mainQuit' = TRUE
    /\ g_stopRequest' = TRUE
    /\ main' = "join"
    /\ UNCHANGED <<threadVars, dataVars, compass, inputs>>

JoinWithoutWaiting ==
    /\ main = "join"
    /\ main' = "save"
    /\ UNCHANGED <<threadVars, g_stopRequest, g_mainQuit, dataVars, faults,
                   compass, inputs>>

Join ==
    /\ main = "join" /\ thread = "done"
    /\ main' = "save" /\ thread' = "off"
    /\ UNCHANGED <<g_stopRequest, g_mainQuit, mag_acq, fusion_acq,
                   dataVars, faults, compass, inputs>>

(* The loop of the daemon goes on or ends *)
Saved ==
    \/ g_mainQuit /\ Dies
    \/ ~g_mainQuit /\ main' = "open" /\ UNCHANGED <<threadVars, g_stopRequest, g_mainQuit, prms>>

(* fopen() empties the file; if it fails nothing is saved, and nobody asks *)
SaveOpen ==
    /\ main = "save"
    /\ \/ /\ file' = NoData /\ main' = "write"
          /\ UNCHANGED <<threadVars, g_stopRequest, g_mainQuit, prms, faults>>
       \/ Fault /\ Saved /\ UNCHANGED file
    /\ UNCHANGED <<found, compass, inputs>>

SaveWrite ==
    /\ main = "write"
    /\ \/ file' = <<prms>> /\ UNCHANGED faults
       \/ Fault /\ UNCHANGED file
    /\ Saved
    /\ UNCHANGED <<found, compass, inputs>>

(* External: the process is killed *)
Kill ==
    /\ main # "dead" /\ Fault
    /\ Dies
    /\ UNCHANGED <<file, found, compass, inputs>>

-----------------------------------------------------------------------------
(* MeasureSNGLoop()                                                        *)

(* The shortest interval of the list that is not below the one asked for *)
GetHDOEDecimator(delay) ==
    LET longer == {i \in Intervals : i >= delay}
    IN IF longer = {} THEN Max(Intervals) ELSE Min(longer)

Interval(on, delay) == IF on THEN delay ELSE Off

GetInterval ==
    /\ mag_acq' = Interval(compass.enable_mag = 1, GetHDOEDecimator(compass.delay_mag))
    /\ fusion_acq' = Interval(compass.enable_fusion = 1,
                              Max({compass.delay_fusion, FusionMin}))

(* The intervals are locals of the thread's function *)
Ends == thread' = "done" /\ mag_acq' = Off /\ fusion_acq' = Off

MeasureStarts ==
    /\ thread = "init"
    /\ \/ thread' = "loop" /\ GetInterval /\ UNCHANGED faults
       \/ Ends /\ Fault
    /\ UNCHANGED <<mainVars, dataVars, compass, inputs>>

(* The request to stop is looked at between two rounds: one under way is   *)
(* finished first                                                          *)
Looping == thread = "loop"

LoopEnds ==
    /\ thread = "loop" /\ g_stopRequest
    /\ Ends
    /\ UNCHANGED <<mainVars, dataVars, faults, compass, inputs>>

MeasureDue == mag_acq # Off \/ fusion_acq # Off

(* AKSC_HDOEProcessS3() succeeds: the offset is kept in HSUC *)
Estimate ==
    /\ found' = found + 1
    /\ prms' = found + 1

(* A measurement: AKD_SetMode(), the wait, AKD_GetMagneticData(), and the  *)
(* estimation, which finds a calibration.  One that finds none, or an ioctl *)
(* that fails, changes nothing: the next round tries again                 *)
GetMagneticVector ==
    /\ Looping /\ MeasureDue /\ found < MaxFound
    /\ Estimate
    /\ UNCHANGED <<mainVars, threadVars, file, faults, compass, inputs>>

(* A failure to read the accelerometer ends the thread: nobody starts it  *)
(* again before the sensors have been off                                  *)
GetAccelerationData ==
    /\ Looping /\ fusion_acq # Off
    /\ Fault
    /\ Ends
    /\ UNCHANGED <<mainVars, dataVars, compass, inputs>>

(* AKD_SetYPR(): the driver turns the valid data into input events *)
Report(valid) ==
    /\ Looping
    /\ inputs' = IF Len(inputs) < MaxInputs THEN Append(inputs, valid) ELSE inputs
    /\ UNCHANGED <<mainVars, threadVars, dataVars, faults, compass>>

ReportMag == mag_acq # Off /\ Report({"M", "UM"})
ReportFusion == fusion_acq # Off /\ Report({"OR", "RV"})

SettingKeepsRate ==
    /\ Looping
    /\ GetInterval
    /\ mag_acq # Off => mag_acq' \in {Off, mag_acq}
    /\ UNCHANGED <<mainVars, thread, dataVars, faults, compass, inputs>>

(* A change of the attributes takes effect; an ioctl that fails leaves it *)
(* to the next time                                                        *)
Setting ==
    /\ Looping
    /\ GetInterval
    /\ UNCHANGED <<mainVars, thread, dataVars, faults, compass, inputs>>

Main == Start \/ OpenStatus \/ CloseStatus \/ Join \/ SaveOpen \/ SaveWrite
=============================================================================
