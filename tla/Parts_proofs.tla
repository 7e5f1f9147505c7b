----------------------------- MODULE Parts_proofs ------------------------------
(***************************************************************************)
(* Proofs about the parts of the device that share no state, each for any   *)
(* values of its constants: the module of the hub's algorithms, the camera  *)
(* wrapper, the light service, the tool of the sensor hub, the sensors HAL *)
(* with the daemon of the compass, and the satellites in NMEA.             *)
(***************************************************************************)
EXTENDS CameraWrapper, Light, Stml0xx, SensorHub, Sensors, Nmea, FiniteSetTheorems,
        WellFoundedInduction, TLAPS

-----------------------------------------------------------------------------
(* The module of the algorithms                                            *)

(* AlgoFollowsParts is inductive, because it says of every call that was    *)
(* refused what it left undone                                             *)
LEMMA HubBegins == SensorHubInit => AlgoFollowsParts
  BY SensorHubAssumption
     DEF SensorHubInit, AlgoFollowsParts, ModuleTypeOK, NoParts

(* A new context forgets algorithms and parts together                     *)
LEMMA OpenKeeps ==
    ASSUME AlgoFollowsParts, sensorhub_open
    PROVE  AlgoFollowsParts'
  BY SensorHubAssumption
     DEF sensorhub_open, AlgoFollowsParts, ModuleTypeOK, NoParts

LEMMA CloseKeeps ==
    ASSUME AlgoFollowsParts, sensorhub_close
    PROVE  AlgoFollowsParts'
  BY DEF sensorhub_close, AlgoFollowsParts, ModuleTypeOK

(* The bits of a movement are no algorithm's                               *)
LEMMA EnableKeeps ==
    ASSUME AlgoFollowsParts, NEW enable \in BOOLEAN, sensorhub_enable(enable)
    PROVE  AlgoFollowsParts'
  <1> DEFINE mask == IF enable THEN active_algos \cup {MOVEMENT} ELSE active_algos \ {MOVEMENT}
  <1>1. \A a \in Algos : a \in mask <=> a \in active_algos
    BY SensorHubAssumption DEF MOVEMENT
  <1>2. mask \subseteq Algos \cup {MOVEMENT}
    BY DEF AlgoFollowsParts, ModuleTypeOK
  <1>3. CASE UNCHANGED <<active_algos, driverAlgos, refused>>
    BY <1>3 DEF sensorhub_enable, AlgoFollowsParts, ModuleTypeOK
  <1>4. CASE active_algos' = mask /\ driverAlgos' = mask /\ refused' = refused \ {Mask}
    BY <1>1, <1>2, <1>4, SensorHubAssumption
       DEF sensorhub_enable, AlgoFollowsParts, ModuleTypeOK, Mask
  <1> QED
    BY <1>3, <1>4 DEF sensorhub_enable

(* The mask of a request that toggles has the algorithm just when it has   *)
(* parts, and no other algorithm changes                                   *)
LEMMA MaskFollows ==
    ASSUME AlgoFollowsParts, NEW a \in Algos, NEW parts \in PartSets
    PROVE  /\ MaskWith(a, parts) \subseteq Algos \cup {MOVEMENT}
           /\ \A b \in Algos \ {a} : b \in MaskWith(a, parts) <=> b \in active_algos
           /\ Toggles(a, parts) => (a \in MaskWith(a, parts) <=> parts # 0)
           /\ ~Toggles(a, parts) => /\ MaskWith(a, parts) = active_algos
                                    /\ parts = 0 <=> active_parts[a] = 0
  BY DEF MaskWith, Toggles, AlgoFollowsParts, ModuleTypeOK

LEMMA RequestKeeps ==
    ASSUME AlgoFollowsParts, NEW a \in Algos, NEW parts \in PartSets,
           sensorhub_algo_req(a, parts)
    PROVE  AlgoFollowsParts'
  <1>1. CASE UNCHANGED <<active_algos, active_parts, driverAlgos, refused>>
    BY <1>1 DEF sensorhub_algo_req, AlgoFollowsParts, ModuleTypeOK
  <1>2. ASSUME active_parts' = [active_parts EXCEPT ![a] = parts]
        PROVE  /\ active_parts' \in [Algos -> PartSets]
               /\ active_parts'[a] = parts
               /\ \A b \in Algos \ {a} : active_parts'[b] = active_parts[b]
    BY <1>2 DEF AlgoFollowsParts, ModuleTypeOK
  <1>3. a # Mask
    BY SensorHubAssumption DEF Mask
  <1>4. CASE /\ active_parts' = [active_parts EXCEPT ![a] = parts]
             /\ active_algos' = MaskWith(a, parts) /\ driverAlgos' = active_algos'
             /\ refused' = refused \ (IF Toggles(a, parts) THEN {a, Mask} ELSE {Mask})
    <2>1. ModuleTypeOK'
      BY <1>2, <1>4, MaskFollows DEF sensorhub_algo_req, AlgoFollowsParts, ModuleTypeOK
    <2>2. \A b \in Algos \ refused' : b \in active_algos' <=> active_parts'[b] # 0
      BY <1>2, <1>4, MaskFollows, SensorHubAssumption
         DEF sensorhub_algo_req, AlgoFollowsParts, Mask
    <2> QED
      BY <1>4, <2>1, <2>2 DEF AlgoFollowsParts
  <1>5. CASE /\ active_parts' = [active_parts EXCEPT ![a] = parts]
             /\ refused' = IF Toggles(a, parts) THEN refused \cup {a} ELSE refused
             /\ UNCHANGED <<active_algos, driverAlgos>>
    <2>1. ModuleTypeOK'
      BY <1>2, <1>5 DEF sensorhub_algo_req, AlgoFollowsParts, ModuleTypeOK
    <2>2. control_fd /\ control_fd' = control_fd
      BY DEF sensorhub_algo_req
    <2>3. \A b \in Algos \ refused' : b \in active_algos' <=> active_parts'[b] # 0
      BY <1>2, <1>5, <2>2, MaskFollows DEF AlgoFollowsParts
    <2>4. Mask \notin refused' => driverAlgos' = active_algos'
      BY <1>3, <1>5, <2>2 DEF AlgoFollowsParts
    <2> QED
      BY <2>1, <2>3, <2>4 DEF AlgoFollowsParts
  <1> QED
    BY <1>1, <1>4, <1>5 DEF sensorhub_algo_req

(* Whatever calls the driver refuses, an algorithm runs just when it has    *)
(* parts, but for those whose change of the mask was refused, and the      *)
(* driver has the mask the module remembers (sensorhub_algo_req())         *)
THEOREM AlgosFollowParts == SensorHubSpec => []AlgoFollowsParts
  <1>1. AlgoFollowsParts /\ [SensorHubNext]_moduleVars => AlgoFollowsParts'
    <2> SUFFICES ASSUME AlgoFollowsParts, [SensorHubNext]_moduleVars
                 PROVE  AlgoFollowsParts'
      OBVIOUS
    <2>1. CASE sensorhub_open
      BY <2>1, OpenKeeps
    <2>2. CASE sensorhub_close
      BY <2>2, CloseKeeps
    <2>3. CASE \E enable \in BOOLEAN : sensorhub_enable(enable)
      BY <2>3, EnableKeeps
    <2>4. CASE \E a \in Algos, parts \in PartSets : sensorhub_algo_req(a, parts)
      BY <2>4, RequestKeeps
    <2>5. CASE UNCHANGED moduleVars
      BY <2>5 DEF moduleVars, AlgoFollowsParts, ModuleTypeOK
    <2> QED
      BY <2>1, <2>2, <2>3, <2>4, <2>5 DEF SensorHubNext
  <1> QED
    BY <1>1, HubBegins, PTL DEF SensorHubSpec

-----------------------------------------------------------------------------
(* The camera wrapper                                                      *)

Devices == [state : {"closed", "open", "released"}, told : BOOLEAN,
            runs : SUBSET {"messages", "capture"}]

CameraTypes == CameraTypeOK /\ vendor \in [Cameras -> Devices]

(* A client that has its device has the vendor's: open until it releases   *)
(* it.  A vendor's device nobody has, which an open without memory leaves,  *)
(* calls no one.                                                           *)
VendorFollows ==
    \A c \in Cameras :
        /\ camera[c] # "closed" => vendor[c].state = camera[c]
        /\ camera[c] = "closed" => ~vendor[c].told /\ vendor[c].runs = {}

(* Without a camera in use there are no settings to lose.                  *)
NoneLeft ==
    OpenCameras = {} /\ fixed_set_params # NoTable =>
        \A c \in Cameras : fixed_set_params[c] # "alive"

(* What taking turns gives the one camera in use: a table of settings that *)
(* are not freed, and globals that are its client's from the first of the  *)
(* two writes on.                                                          *)
Turn(c) ==
    /\ \A d \in Cameras : camera[d] # "closed" => d = c
    /\ fixed_set_params # NoTable
    /\ \A d \in Cameras : fixed_set_params[d] # "freed"
    /\ vendor[c].told \/ setting[c] # "no" => gUserCallbacks = c
    /\ vendor[c].told \/ setting[c] = "device" => gUserCameraDevice = c

TakingTurns == ~overlapped => \A c \in Cameras : camera[c] # "closed" => Turn(c)

CalledRight ==
    called # Quiet /\ ~overlapped =>
        called.callbacks = called.from /\ called.device = called.from

CameraInv ==
    /\ CameraTypes
    /\ misused => overlapped
    /\ ~misused => VendorFollows /\ TakingTurns
    /\ NoneLeft
    /\ CalledRight

LEMMA CameraInvSafe == CameraInv => CameraSafe
  BY DEF CameraInv, CameraSafe, CameraTypes, NoneLeft, CalledRight

(* A table is not NULL: the module has a camera.                           *)
LEMMA TableIsNone ==
    ASSUME NEW table \in [Cameras -> {"none", "alive", "freed"}]
    PROVE  table # NoTable
  <1>1. DOMAIN table # {}
    BY CameraAssumption
  <1>2. DOMAIN NoTable = {}
    BY DEF NoTable
  <1> QED
    BY <1>1, <1>2

LEMMA CameraBegins == CameraInit => CameraInv
  <1> SUFFICES ASSUME CameraInit PROVE CameraInv
    OBVIOUS
  <1>1. CameraTypes
    BY DEF CameraInit, CameraTypes, CameraTypeOK, Devices, Closed, Opened
  <1>2. VendorFollows /\ TakingTurns /\ NoneLeft /\ CalledRight
    BY DEF CameraInit, VendorFollows, TakingTurns, NoneLeft, CalledRight, Closed, Opened
  <1> QED
    BY <1>1, <1>2 DEF CameraInit, CameraInv

(* An open: a table of its own, whatever becomes of the device.  It is the *)
(* only camera in use, unless it is one too many.                          *)
LEMMA OpenKeepsCamera ==
    ASSUME CameraInv, ~misused, NEW c \in Cameras, camera_device_open(c)
    PROVE  CameraInv'
  <1>0. CameraTypes /\ VendorFollows /\ TakingTurns /\ NoneLeft /\ CalledRight
    BY DEF CameraInv
  <1>1. /\ camera[c] = "closed" /\ setting[c] = "no"
        /\ gVendorModule' \in BOOLEAN
        /\ overlapped' = (overlapped \/ OpenCameras # {})
        /\ UNCHANGED <<userVars, setting, called, misused>>
    BY <1>0 DEF camera_device_open, check_vendor_module, CameraTypes, CameraTypeOK
  <1>2. CASE UNCHANGED <<fixed_set_params, camera, vendor>>
    <2>1. CameraTypes' /\ VendorFollows' /\ NoneLeft'
      BY <1>0, <1>1, <1>2 DEF CameraTypes, CameraTypeOK, VendorFollows, NoneLeft, OpenCameras,
                             userVars
    <2>2. TakingTurns'
      BY <1>0, <1>1, <1>2 DEF TakingTurns, Turn, userVars
    <2> QED
      BY <1>0, <1>1, <1>2, <2>1, <2>2 DEF CameraInv, CalledRight
  <1>3. ASSUME NEW outcome \in Outcomes(c),
               fixed_set_params' = IF outcome = "table" THEN NoTable ELSE Fresh,
               camera' = [camera EXCEPT ![c] = IF outcome = "opened" THEN "open" ELSE @],
               vendor' = [vendor EXCEPT ![c] = IF outcome \in {"ops", "opened"}
                                               THEN Opened ELSE @]
        PROVE  CameraInv'
    <2>1. Opened \in Devices /\ Fresh \in [Cameras -> {"none", "alive", "freed"}]
      BY DEF Opened, Devices, Fresh
    <2>2. CameraTypes'
      <3>1. vendor' \in [Cameras -> Devices]
        BY <1>0, <1>3, <2>1 DEF CameraTypes
      <3>2. /\ camera' \in [Cameras -> {"closed", "open", "released"}]
            /\ \A d \in Cameras : setting'[d] # "no" => camera'[d] = "open"
        BY <1>0, <1>1, <1>3 DEF CameraTypes, CameraTypeOK
      <3>3. fixed_set_params' \in {NoTable} \cup [Cameras -> {"none", "alive", "freed"}]
        BY <1>3, <2>1
      <3>4. \A d \in Cameras : vendor'[d].state \in {"closed", "open", "released"}
        BY <3>1 DEF Devices
      <3> QED
        BY <1>0, <1>1, <3>1, <3>2, <3>3, <3>4 DEF CameraTypes, CameraTypeOK, userVars
    <2>3. VendorFollows'
      BY <1>0, <1>1, <1>3 DEF CameraTypes, CameraTypeOK, VendorFollows, Opened
    <2>4. NoneLeft'
      BY <1>3 DEF NoneLeft, Fresh
    <2>5. TakingTurns'
      <3> SUFFICES ASSUME ~overlapped', NEW d \in Cameras, camera'[d] # "closed"
                   PROVE  Turn(d)'
        BY DEF TakingTurns
      <3>1. \A e \in Cameras : camera[e] = "closed"
        BY <1>1 DEF OpenCameras
      <3>2. outcome = "opened" /\ d = c
        BY <1>0, <1>3, <3>1 DEF CameraTypes, CameraTypeOK
      <3>3. Fresh # NoTable /\ \A e \in Cameras : Fresh[e] # "freed"
        BY <2>1, TableIsNone DEF Fresh
      <3>4. vendor'[c].told = FALSE
        BY <1>0, <1>3, <3>2 DEF Opened, CameraTypes
      <3> QED
        BY <1>0, <1>1, <1>3, <3>1, <3>2, <3>3, <3>4 DEF Turn, CameraTypes, CameraTypeOK
    <2> QED
      BY <1>0, <1>1, <2>2, <2>3, <2>4, <2>5 DEF CameraInv, CalledRight
  <1> QED
    BY <1>2, <1>3 DEF camera_device_open

(* A close frees the settings of all.                                      *)
LEMMA CloseKeepsCamera ==
    ASSUME CameraInv, ~misused, NEW c \in Cameras, camera_device_close(c)
    PROVE  CameraInv'
  <1>0. CameraTypes /\ VendorFollows /\ TakingTurns /\ NoneLeft /\ CalledRight
    BY DEF CameraInv
  <1>1. /\ camera[c] # "closed" /\ setting[c] = "no"
        /\ camera' = [camera EXCEPT ![c] = "closed"]
        /\ vendor' = [vendor EXCEPT ![c] = Closed]
        /\ fixed_set_params' = IF fixed_set_params = NoTable THEN NoTable ELSE Freed(Cameras)
        /\ called' = Quiet
        /\ UNCHANGED <<gVendorModule, userVars, setting>>
    BY DEF camera_device_close
  <1>2. Closed \in Devices /\ ~Closed.told /\ Closed.runs = {}
    BY DEF Closed, Opened, Devices
  <1>3. fixed_set_params # NoTable =>
           Freed(Cameras) \in [Cameras -> {"none", "alive", "freed"}]
              /\ \A d \in Cameras : Freed(Cameras)[d] # "alive"
    BY <1>0 DEF CameraTypes, CameraTypeOK, Freed
  <1>4. CameraTypes'
    <2>1. vendor' \in [Cameras -> Devices]
      BY <1>0, <1>1, <1>2 DEF CameraTypes
    <2>2. /\ camera' \in [Cameras -> {"closed", "open", "released"}]
          /\ \A d \in Cameras : setting'[d] # "no" => camera'[d] = "open"
      BY <1>0, <1>1 DEF CameraTypes, CameraTypeOK
    <2>3. fixed_set_params' \in {NoTable} \cup [Cameras -> {"none", "alive", "freed"}]
      BY <1>1, <1>3
    <2>4. \A d \in Cameras : vendor'[d].state \in {"closed", "open", "released"}
      BY <2>1 DEF Devices
    <2> QED
      BY <1>0, <1>1, <2>1, <2>2, <2>3, <2>4 DEF CameraTypes, CameraTypeOK, userVars
  <1>5. NoneLeft'
    BY <1>1, <1>3 DEF NoneLeft
  <1>6. VendorFollows'
    BY <1>0, <1>1, <1>2 DEF CameraTypes, CameraTypeOK, VendorFollows
  <1>7. ~overlapped => ~misused' /\ OpenCameras = {c}
    <2> SUFFICES ASSUME ~overlapped PROVE ~misused' /\ OpenCameras = {c}
      OBVIOUS
    <2>1. Turn(c)
      BY <1>0, <1>1 DEF TakingTurns
    <2>2. ~FreedWrongly(Cameras)
      BY <2>1 DEF FreedWrongly, Turn
    <2>3. ReleasesFirst(c) <=> vendor[c].state = "open"
      BY <1>0, <1>1 DEF VendorFollows, ReleasesFirst, CameraTypes, CameraTypeOK
    <2> QED
      BY <1>1, <2>1, <2>2, <2>3 DEF camera_device_close, OpenCameras, Turn, ReleasesFirst
  <1>8. misused' => overlapped'
    BY <1>7 DEF camera_device_close
  <1>9. ~misused' /\ ~overlapped' => OpenCameras = {c}
    BY <1>7 DEF camera_device_close
  <1>10. ~misused' => TakingTurns'
    <2> SUFFICES ASSUME ~misused', ~overlapped', NEW d \in Cameras, camera'[d] # "closed"
                 PROVE  FALSE
      BY DEF TakingTurns
    <2> QED
      BY <1>0, <1>1, <1>9 DEF OpenCameras, CameraTypes, CameraTypeOK
  <1>11. CalledRight'
    BY <1>1 DEF CalledRight, Quiet
  <1> QED
    BY <1>4, <1>5, <1>6, <1>8, <1>10, <1>11 DEF CameraInv

(* The calls of a client that has its device.                              *)
LEMMA CallsKeepCamera ==
    ASSUME CameraInv, ~misused, NEW c \in Cameras,
           \/ MessageCalls(c) \/ CaptureCalls(c)
           \/ camera_release(c) \/ camera_set_parameters(c)
    PROVE  CameraInv'
  <1>0. CameraTypes /\ VendorFollows /\ TakingTurns /\ NoneLeft /\ CalledRight
    BY DEF CameraInv
  <1>1. camera[c] = "open" /\ setting[c] = "no" /\ vendor[c].state = "open"
    BY <1>0 DEF MessageCalls, CaptureCalls, Forwards, camera_release, camera_set_parameters,
                Callable, VendorFollows
  <1>2. CASE MessageCalls(c) \/ CaptureCalls(c)
    <2>1. PICK runs \in SUBSET {"messages", "capture"} :
             vendor' = [vendor EXCEPT ![c].runs = runs]
      BY <1>0, <1>2 DEF MessageCalls, CaptureCalls, Forwards, CameraTypes, Devices
    <2>2. /\ vendor' \in [Cameras -> Devices]
          /\ \A d \in Cameras : /\ vendor'[d].state = vendor[d].state
                                /\ vendor'[d].told = vendor[d].told
                                /\ d # c => vendor'[d] = vendor[d]
      BY <1>0, <2>1 DEF CameraTypes, Devices
    <2>3. UNCHANGED <<gVendorModule, fixed_set_params, userVars, camera, setting, called,
                      overlapped, misused>>
      BY <1>2 DEF MessageCalls, CaptureCalls, Forwards
    <2>4. CameraTypes' /\ VendorFollows'
      BY <1>0, <1>1, <2>2, <2>3 DEF CameraTypes, CameraTypeOK, VendorFollows, userVars
    <2>5. TakingTurns'
      BY <1>0, <2>2, <2>3 DEF TakingTurns, Turn, userVars
    <2> QED
      BY <1>0, <2>3, <2>4, <2>5 DEF CameraInv, NoneLeft, CalledRight, OpenCameras
  <1>3. CASE camera_release(c)
    <2>1. /\ vendor' = [vendor EXCEPT ![c].state = "released", ![c].runs = {}]
          /\ camera' = [camera EXCEPT ![c] = "released"]
          /\ ~misused'
          /\ UNCHANGED <<gVendorModule, fixed_set_params, userVars, setting, called,
                         overlapped>>
      BY <1>1, <1>3 DEF camera_release
    <2>2. /\ vendor' \in [Cameras -> Devices]
          /\ vendor'[c].state = "released"
          /\ \A d \in Cameras : vendor'[d].told = vendor[d].told
          /\ \A d \in Cameras \ {c} : vendor'[d] = vendor[d]
      BY <1>0, <2>1 DEF CameraTypes, Devices
    <2>3. /\ camera' \in [Cameras -> {"closed", "open", "released"}]
          /\ camera'[c] = "released"
          /\ \A d \in Cameras \ {c} : camera'[d] = camera[d]
      BY <1>0, <2>1 DEF CameraTypes, CameraTypeOK
    <2>4. CameraTypes' /\ VendorFollows'
      BY <1>0, <1>1, <2>1, <2>2, <2>3 DEF CameraTypes, CameraTypeOK, VendorFollows, userVars,
         Devices
    <2>5. TakingTurns'
      BY <1>0, <1>1, <2>1, <2>2, <2>3 DEF TakingTurns, Turn, userVars
    <2>6. NoneLeft'
      BY <2>3 DEF NoneLeft, OpenCameras
    <2> QED
      BY <1>0, <2>1, <2>4, <2>5, <2>6 DEF CameraInv, CalledRight
  <1>4. CASE camera_set_parameters(c)
    <2>1. /\ misused' = FreedWrongly({c})
          /\ fixed_set_params' = IF fixed_set_params = NoTable THEN NoTable
                                 ELSE [Freed({c}) EXCEPT ![c] = "alive"]
          /\ UNCHANGED <<gVendorModule, userVars, camera, setting, vendor, called, overlapped>>
      BY <1>4 DEF camera_set_parameters
    <2>2. ASSUME fixed_set_params # NoTable
          PROVE  /\ fixed_set_params' \in [Cameras -> {"none", "alive", "freed"}]
                 /\ fixed_set_params'[c] = "alive"
                 /\ \A d \in Cameras \ {c} : fixed_set_params'[d] = fixed_set_params[d]
      BY <1>0, <2>1, <2>2 DEF CameraTypes, CameraTypeOK, Freed
    <2>3. CameraTypes'
      BY <1>0, <2>1, <2>2 DEF CameraTypes, CameraTypeOK, userVars
    <2>4. ASSUME ~overlapped PROVE ~misused' /\ TakingTurns'
      <3>1. Turn(c)
        BY <1>0, <1>1, <2>4 DEF TakingTurns
      <3>2. ~misused'
        BY <2>1, <3>1 DEF FreedWrongly, Turn
      <3>3. fixed_set_params' # NoTable
        BY <2>2, <3>1, TableIsNone DEF Turn
      <3>4. Turn(c)'
        BY <2>1, <2>2, <3>1, <3>3 DEF Turn, userVars
      <3>5. \A d \in Cameras : camera'[d] # "closed" => d = c
        BY <2>1, <3>1 DEF Turn
      <3> QED
        BY <3>2, <3>4, <3>5 DEF TakingTurns
    <2>5. NoneLeft'
      BY <1>1, <2>1 DEF NoneLeft, OpenCameras
    <2>6. VendorFollows' /\ CalledRight'
      BY <1>0, <2>1 DEF VendorFollows, CalledRight
    <2>7. (misused' => overlapped') /\ TakingTurns'
      BY <2>1, <2>4 DEF TakingTurns
    <2> QED
      BY <2>3, <2>5, <2>6, <2>7 DEF CameraInv
  <1> QED
    BY <1>2, <1>3, <1>4

(* set_callbacks() in its three writes, and what the vendor calls: while   *)
(* the clients take turns the globals are those of the camera in use.      *)
LEMMA CallbacksKeepCamera ==
    ASSUME CameraInv, ~misused, NEW c \in Cameras,
           camera_set_callbacks(c) \/ SetsDevice(c) \/ Callback(c)
    PROVE  CameraInv'
  <1>0. CameraTypes /\ VendorFollows /\ TakingTurns /\ NoneLeft /\ CalledRight
    BY DEF CameraInv
  <1>1. CASE Callback(c)
    <2>1. /\ called' = [from |-> c, callbacks |-> gUserCallbacks, device |-> gUserCameraDevice]
          /\ vendor[c].told
          /\ UNCHANGED <<gVendorModule, fixed_set_params, userVars, camera, setting, vendor,
                         overlapped, misused>>
      BY <1>1 DEF Callback
    <2>2. camera[c] # "closed"
      BY <1>0, <2>1 DEF VendorFollows
    <2>3. CalledRight'
      BY <1>0, <2>1, <2>2 DEF CalledRight, TakingTurns, Turn
    <2>4. CameraTypes' /\ VendorFollows' /\ TakingTurns' /\ NoneLeft'
      BY <1>0, <2>1 DEF CameraTypes, CameraTypeOK, VendorFollows, TakingTurns, Turn, NoneLeft,
                        OpenCameras, userVars
    <2> QED
      BY <2>1, <2>3, <2>4 DEF CameraInv
  <1>2. CASE camera_set_callbacks(c) \/ SetsDevice(c)
    <2>1. PICK to \in {"callbacks", "device", "no"} :
             setting' = [setting EXCEPT ![c] = to]
      BY <1>2 DEF camera_set_callbacks, SetsDevice, Sets
    <2>2. /\ UNCHANGED <<gVendorModule, fixed_set_params, camera, called, overlapped, misused>>
          /\ camera[c] = "open"
          /\ \/ to = "callbacks" /\ gUserCallbacks' = c
                   /\ setting[c] = "no" /\ UNCHANGED <<gUserCameraDevice, vendor>>
             \/ to = "device" /\ gUserCameraDevice' = c
                   /\ setting[c] = "callbacks" /\ UNCHANGED <<gUserCallbacks, vendor>>
             \/ to = "no" /\ setting[c] = "device"
                   /\ vendor' = [vendor EXCEPT ![c].told = TRUE] /\ UNCHANGED userVars
      BY <1>0, <1>2, <2>1 DEF camera_set_callbacks, SetsDevice, Sets, Callable, CameraTypes,
         CameraTypeOK
    <2>3. /\ vendor' \in [Cameras -> Devices]
          /\ vendor'[c].told => vendor[c].told \/ setting[c] = "device"
          /\ \A d \in Cameras : /\ vendor'[d].state = vendor[d].state
                                /\ vendor'[d].runs = vendor[d].runs
                                /\ d # c => vendor'[d].told = vendor[d].told
      <3>1. CASE UNCHANGED vendor
        BY <1>0, <3>1 DEF CameraTypes
      <3>2. CASE setting[c] = "device" /\ vendor' = [vendor EXCEPT ![c].told = TRUE]
        <4>1. vendor \in [Cameras -> Devices]
          BY <1>0 DEF CameraTypes
        <4>2. /\ vendor' \in [Cameras -> Devices]
              /\ \A d \in Cameras \ {c} : vendor'[d] = vendor[d]
          BY <3>2, <4>1 DEF Devices
        <4>3. vendor'[c].state = vendor[c].state /\ vendor'[c].runs = vendor[c].runs
          BY <3>2, <4>1 DEF Devices
        <4> QED
          BY <3>2, <4>2, <4>3
      <3> QED
        BY <2>2, <3>1, <3>2
    <2>4. /\ setting' \in [Cameras -> {"no", "callbacks", "device"}]
          /\ setting'[c] = to
          /\ \A d \in Cameras \ {c} : setting'[d] = setting[d]
      BY <1>0, <2>1 DEF CameraTypes, CameraTypeOK
    <2>5. {gUserCallbacks', gUserCameraDevice'} \subseteq Cameras \cup {Nobody}
      BY <1>0, <2>2 DEF CameraTypes, CameraTypeOK, userVars
    <2>6. CameraTypes'
      <3>1. \A d \in Cameras : vendor'[d].state \in {"closed", "open", "released"}
        BY <2>3 DEF Devices
      <3>2. \A d \in Cameras : setting'[d] # "no" => camera'[d] = "open"
        BY <1>0, <2>2, <2>4 DEF CameraTypes, CameraTypeOK
      <3> QED
        BY <1>0, <2>2, <2>3, <2>4, <2>5, <3>1, <3>2 DEF CameraTypes, CameraTypeOK
    <2>7. VendorFollows'
      BY <1>0, <2>2, <2>3 DEF VendorFollows
    <2>8. TakingTurns'
      <3> SUFFICES ASSUME ~overlapped', NEW d \in Cameras, camera'[d] # "closed"
                   PROVE  Turn(d)'
        BY DEF TakingTurns
      <3>1. Turn(c) /\ d = c
        BY <1>0, <2>2 DEF TakingTurns, Turn
      <3>2. /\ vendor'[c].told \/ setting'[c] # "no" => gUserCallbacks' = c
            /\ vendor'[c].told \/ setting'[c] = "device" => gUserCameraDevice' = c
        BY <2>2, <2>3, <2>4, <3>1 DEF Turn, userVars
      <3> QED
        BY <2>2, <3>1, <3>2 DEF Turn
    <2> QED
      BY <1>0, <2>2, <2>6, <2>7, <2>8 DEF CameraInv, NoneLeft, CalledRight, OpenCameras
  <1> QED
    BY <1>1, <1>2

(* For any number of cameras: while their clients take turns, settings are *)
(* freed once, the vendor's devices are released and closed once each, and *)
(* a callback reaches the client of its camera (camera_device_open(),      *)
(* camera_device_close(), camera_set_parameters(), camera_set_callbacks())  *)
THEOREM TurnsAreSafe == CameraSpec => []CameraSafe
  <1>1. CameraInv /\ [CameraNext]_cameraVars => CameraInv'
    <2> SUFFICES ASSUME CameraInv, [CameraNext]_cameraVars
                 PROVE  CameraInv'
      OBVIOUS
    <2>1. ASSUME gVendorModule' \in BOOLEAN,
                 UNCHANGED <<fixed_set_params, gUserCallbacks, gUserCameraDevice, camera>>,
                 UNCHANGED <<setting, vendor, called, overlapped, misused>>
          PROVE  CameraInv'
      BY <2>1 DEF CameraInv, CameraTypes, CameraTypeOK, VendorFollows, TakingTurns, Turn,
         NoneLeft, CalledRight, OpenCameras
    <2>2. gVendorModule \in BOOLEAN
      BY DEF CameraInv, CameraTypes, CameraTypeOK
    <2>3. CASE camera_get_number_of_cameras
      BY <2>1, <2>2, <2>3 DEF camera_get_number_of_cameras, check_vendor_module, userVars
    <2>4. CASE UNCHANGED cameraVars
      BY <2>1, <2>2, <2>4 DEF cameraVars, userVars
    <2> QED
      BY <2>3, <2>4, OpenKeepsCamera, CloseKeepsCamera, CallsKeepCamera, CallbacksKeepCamera
      DEF CameraNext
  <1> QED
    BY <1>1, CameraBegins, CameraInvSafe, PTL DEF CameraSpec

-----------------------------------------------------------------------------
(* The light service                                                       *)

(* Which lights there are, the LED they share, and what it is given        *)
LightSets == {{}, {"BACKLIGHT", "BATTERY"}, Types}
Blinking == "NOTIFICATIONS" \in mLights
Led == IF Blinking THEN "blinking" ELSE "charging"
LedValue ==
    IF Blinking THEN Blinks(state) ELSE IF isLit(state["BATTERY"]) THEN "on" ELSE "off"

(* What holds as long as no write failed: the streams the lights need are   *)
(* good, the state of a light is what it was set to, the LED shows the      *)
(* states since the first of its lights was set, and so does the panel     *)
StreamsGood ==
    /\ "lcd" \in good /\ Led \in good
    /\ Blinking <=> "blinking" \in good
StatesAsked == \A t \in Speaker \cap mLights : asked[t] # Unset => state[t] = asked[t]
LedShows == (\E t \in Speaker \cap mLights : asked[t] # Unset) => shows[Led] = LedValue
PanelShows ==
    asked["BACKLIGHT"] # Unset =>
        asked["BACKLIGHT"] \in Levels /\ shows["lcd"] = Scaled(asked["BACKLIGHT"])

LightTypes ==
    /\ LightTypeOK /\ mLights \in LightSets
    /\ DOMAIN shows = Files /\ DOMAIN asked = Types
LightInv ==
    /\ LightTypes
    /\ failures = 0 /\ mLights # {} => StreamsGood /\ StatesAsked /\ LedShows /\ PanelShows

(* A grey is as bright as each of its colours                              *)
LEMMA GreyIsItsLevel ==
    ASSUME NEW level \in 0 .. 255
    PROVE  rgbToBrightness(level, level, level) = level
  <1>1. 77 * level + 150 * level + 29 * level = 256 * level
    OBVIOUS
  <1>2. (256 * level) \div 256 = level
    OBVIOUS
  <1> QED
    BY <1>1, <1>2 DEF rgbToBrightness

(* The scaling keeps both ends of a level, and darkens none to nothing     *)
(* where the panel is at least as fine as the service                      *)
LEMMA ScalingKeepsEnds ==
    ASSUME second \in Nat, NEW level \in 0 .. 255
    PROVE  /\ Scaled(level) \in 0 .. second
           /\ level = 0 => Scaled(level) = 0
           /\ level = 255 => Scaled(level) = second
           /\ level > 0 /\ second >= DEFAULT_MAX_BRIGHTNESS => Scaled(level) > 0
  <1>1. CASE second = 255
    BY <1>1 DEF Scaled, DEFAULT_MAX_BRIGHTNESS
  <1>2. CASE second # 255
    <2> DEFINE product == level * second
               whole == product \div 255
    <2>1. product \in Nat /\ Scaled(level) = whole
      BY <1>2 DEF Scaled, DEFAULT_MAX_BRIGHTNESS
    <2>2. /\ product <= 255 * second
          /\ level = 0 => product = 0
          /\ level = 255 => product = 255 * second
          /\ level > 0 => product >= second
      OBVIOUS
    <2> HIDE DEF product
    <2>3. product \in Nat /\ whole \in Nat /\ 255 * whole <= product
             /\ product < 255 * whole + 255
      BY <2>1
    <2> HIDE DEF whole
    <2>4. /\ whole <= second
          /\ product = 0 => whole = 0
          /\ product = 255 * second => whole = second
          /\ product >= 255 => whole > 0
      BY <2>2, <2>3
    <2>5. second >= 255 /\ level > 0 => whole > 0
      BY <2>1, <2>2, <2>4
    <2>6. whole \in 0 .. second
      BY <2>3, <2>4
    <2>7. (level = 0 => whole = 0) /\ (level = 255 => whole = second)
      BY <2>2, <2>4
    <2> QED
      BY <2>1, <2>5, <2>6, <2>7 DEF DEFAULT_MAX_BRIGHTNESS
  <1> QED
    BY <1>1, <1>2

LEMMA LightBegins == LightInit => LightInv
  <1> SUFFICES ASSUME LightInit PROVE LightInv
    OBVIOUS
  <1>1. mLights \in LightSets /\ mLights \subseteq Types
    BY DEF LightInit, LightSets, Types
  <1>2. LightTypes
    BY <1>1, LightAssumption DEF LightInit, LightTypes, LightTypeOK
  <1>3. \A t \in Types : asked[t] = Unset
    BY DEF LightInit
  <1>4. StatesAsked /\ LedShows /\ PanelShows
    BY <1>3 DEF StatesAsked, LedShows, PanelShows, Speaker, Types
  <1>5. mLights # {} => StreamsGood
    BY DEF LightInit, StreamsGood, Led, Blinking, Types, Files
  <1> QED
    BY <1>2, <1>4, <1>5 DEF LightInv

(* The LED is given what the most important of its lights asks for         *)
LEMMA LedValueIsWanted ==
    ASSUME LightTypes, mLights # {}, StatesAsked,
           \A t \in Speaker \cap mLights : asked[t] # Unset
    PROVE  LedValue = Wanted
  <1>1. \A t \in Speaker \cap mLights : state[t] = asked[t]
    BY DEF StatesAsked
  <1>2. \A t \in Speaker : state[t] \in LightStates
    BY DEF LightTypes, LightTypeOK
  <1>3. CASE mLights = {"BACKLIGHT", "BATTERY"}
    <2>1. Speaker \cap mLights = {"BATTERY"} /\ ~Blinking
      BY <1>3 DEF Speaker, Types, Blinking
    <2> QED
      BY <1>1, <2>1 DEF LedValue, Wanted, isLit
  <1>4. CASE mLights = Types
    <2>1. Speaker \cap mLights = {"BATTERY", "ATTENTION", "NOTIFICATIONS"} /\ Blinking
      BY <1>4 DEF Speaker, Types, Blinking
    <2>2. /\ asked["BATTERY"] = state["BATTERY"]
          /\ asked["ATTENTION"] = state["ATTENTION"]
          /\ asked["NOTIFICATIONS"] = state["NOTIFICATIONS"]
      BY <1>1, <2>1
    <2> QED
      BY <2>1, <2>2 DEF LedValue, Blinks, Wanted, isLit
  <1> QED
    BY <1>3, <1>4 DEF LightTypes, LightSets

LEMMA LightInvFollows == LightInv => LightsFollow
  <1> SUFFICES ASSUME LightInv PROVE LightsFollow
    OBVIOUS
  <1>1. LightTypes /\ LightTypeOK
    BY DEF LightInv, LightTypes
  <1> SUFFICES ASSUME failures = 0, mLights # {}
               PROVE  /\ (\A t \in Speaker \cap mLights : asked[t] # Unset) =>
                            shows[Led] = Wanted
                      /\ asked["BACKLIGHT"] # Unset =>
                            /\ shows["lcd"] \in 0 .. second
                            /\ asked["BACKLIGHT"] = 0 => shows["lcd"] = 0
                            /\ asked["BACKLIGHT"] = 255 => shows["lcd"] = second
                            /\ asked["BACKLIGHT"] > 0 /\ second >= DEFAULT_MAX_BRIGHTNESS =>
                                  shows["lcd"] > 0
    BY <1>1 DEF LightsFollow, Led, Blinking
  <1>2. StatesAsked /\ LedShows /\ PanelShows
    BY DEF LightInv
  <1>3. "BATTERY" \in Speaker \cap mLights
    BY <1>1 DEF LightTypes, LightSets, Speaker, Types
  <1>4. ASSUME \A t \in Speaker \cap mLights : asked[t] # Unset
        PROVE  shows[Led] = Wanted
    BY <1>1, <1>2, <1>3, <1>4, LedValueIsWanted DEF LedShows
  <1>5. ASSUME asked["BACKLIGHT"] # Unset
        PROVE  /\ shows["lcd"] = Scaled(asked["BACKLIGHT"])
               /\ asked["BACKLIGHT"] \in 0 .. 255
    BY <1>2, <1>5, LightAssumption DEF PanelShows
  <1>6. second \in Nat
    BY <1>1, LightAssumption DEF LightTypeOK
  <1> QED
    BY <1>4, <1>5, <1>6, ScalingKeepsEnds

(* While no write fails, a file is given what is written to it             *)
LEMMA WrittenShows ==
    ASSUME LightTypes, NEW stream \in Files, NEW value, Written(stream, value)
    PROVE  /\ good' \subseteq Files /\ failures' \in 0 .. MaxFailures
           /\ DOMAIN shows' = Files
           /\ \A f \in Files \ {stream} : shows'[f] = shows[f]
           /\ failures' = 0 =>
                /\ failures = 0 /\ good' = good
                /\ stream \in good => shows'[stream] = value
  BY LightAssumption DEF Written, LightTypes, LightTypeOK

LEMMA BacklightKeeps ==
    ASSUME LightInv, SetBacklight
    PROVE  LightInv'
  <1>0. LightTypes
    BY DEF LightInv
  <1>1. PICK level \in Levels : setLight("BACKLIGHT", level) /\ setLcdBacklight(level)
    BY DEF SetBacklight
  <1>2. /\ asked' = [asked EXCEPT !["BACKLIGHT"] = level]
        /\ UNCHANGED <<mLights, second, state>>
        /\ "BACKLIGHT" \in mLights
    BY <1>1 DEF setLight, setLcdBacklight
  <1>3. Written("lcd", Scaled(level))
    BY <1>1, GreyIsItsLevel, LightAssumption DEF setLcdBacklight
  <1>4. /\ good' \subseteq Files /\ failures' \in 0 .. MaxFailures
        /\ DOMAIN shows' = Files
        /\ \A f \in Files \ {"lcd"} : shows'[f] = shows[f]
        /\ failures' = 0 =>
             /\ failures = 0 /\ good' = good
             /\ "lcd" \in good => shows'["lcd"] = Scaled(level)
    BY <1>0, <1>3, WrittenShows DEF Files
  <1>5. /\ DOMAIN asked' = Types /\ asked'["BACKLIGHT"] = level
        /\ \A t \in Speaker : asked'[t] = asked[t]
    BY <1>0, <1>2 DEF LightTypes, Speaker, Types
  <1>6. LightTypes'
    BY <1>0, <1>2, <1>4, <1>5 DEF LightTypes, LightTypeOK
  <1>7. ASSUME failures' = 0
        PROVE  StreamsGood' /\ StatesAsked' /\ LedShows' /\ PanelShows'
    <2>1. StreamsGood /\ StatesAsked /\ LedShows /\ good' = good
      BY <1>2, <1>4, <1>7 DEF LightInv
    <2>2. StreamsGood' /\ StatesAsked'
      BY <1>2, <1>5, <2>1 DEF StreamsGood, StatesAsked, Led, Blinking
    <2>3. shows'[Led] = shows[Led] /\ Led' = Led /\ LedValue' = LedValue
      BY <1>2, <1>4 DEF Led, LedValue, Blinking, Blinks, Files
    <2>4. LedShows'
      BY <1>2, <1>5, <2>1, <2>3 DEF LedShows
    <2>5. PanelShows'
      BY <1>2, <1>4, <1>5, <1>7, <2>1 DEF PanelShows, StreamsGood, Scaled
    <2> QED
      BY <2>2, <2>4, <2>5
  <1> QED
    BY <1>2, <1>6, <1>7 DEF LightInv

LEMMA SpeakerKeeps ==
    ASSUME LightInv, SetSpeaker
    PROVE  LightInv'
  <1>0. LightTypes
    BY DEF LightInv
  <1>1. PICK type \in Speaker, to \in LightStates :
             setLight(type, to) /\ setSpeakerLight(type, to)
    BY DEF SetSpeaker
  <1>2. /\ asked' = [asked EXCEPT ![type] = to]
        /\ state' = [state EXCEPT ![type] = to]
        /\ UNCHANGED <<mLights, second>>
        /\ type \in mLights
    BY <1>1 DEF setLight, setSpeakerLight
  <1> DEFINE stream == IF "blinking" \in good THEN "blinking" ELSE "charging"
             value == IF "blinking" \in good THEN Blinks(state')
                      ELSE IF isLit(state'["BATTERY"]) THEN "on" ELSE "off"
  <1>3. Written(stream, value) /\ stream \in Files
    BY <1>1 DEF setSpeakerLight, setSpeakerLightLocked, Files
  <1>4. /\ good' \subseteq Files /\ failures' \in 0 .. MaxFailures
        /\ DOMAIN shows' = Files
        /\ \A f \in Files \ {stream} : shows'[f] = shows[f]
        /\ failures' = 0 =>
             /\ failures = 0 /\ good' = good
             /\ stream \in good => shows'[stream] = value
    BY <1>0, <1>3, WrittenShows
  <1>5. /\ DOMAIN asked' = Types /\ asked'[type] = to
        /\ \A t \in Types \ {type} : asked'[t] = asked[t]
    BY <1>0, <1>2 DEF LightTypes, Speaker
  <1>6. /\ state' \in [Speaker -> LightStates] /\ state'[type] = to
        /\ \A t \in Speaker \ {type} : state'[t] = state[t]
    BY <1>0, <1>1, <1>2 DEF LightTypes, LightTypeOK
  <1>7. LightTypes'
    BY <1>0, <1>2, <1>4, <1>5, <1>6 DEF LightTypes, LightTypeOK
  <1>8. ASSUME failures' = 0
        PROVE  StreamsGood' /\ StatesAsked' /\ LedShows' /\ PanelShows'
    <2>1. StreamsGood /\ StatesAsked /\ PanelShows /\ good' = good
      BY <1>2, <1>4, <1>8 DEF LightInv
    <2>2. StreamsGood'
      BY <1>2, <2>1 DEF StreamsGood, Led, Blinking
    <2>3. StatesAsked'
      BY <1>2, <1>5, <1>6, <2>1 DEF StatesAsked, Speaker
    <2>4. stream = Led' /\ value = LedValue'
      BY <1>2, <2>1 DEF StreamsGood, Led, LedValue, Blinking
    <2>5. LedShows'
      BY <1>2, <1>4, <1>8, <2>1, <2>4 DEF LedShows, StreamsGood, Led, Blinking
    <2>6. stream # "lcd" /\ type # "BACKLIGHT"
      BY DEF Speaker
    <2>7. PanelShows'
      BY <1>2, <1>4, <1>5, <2>1, <2>6 DEF PanelShows, Scaled, Files, Types
    <2> QED
      BY <2>2, <2>3, <2>5, <2>7
  <1> QED
    BY <1>2, <1>7, <1>8 DEF LightInv

(* For every panel and any order of the calls: as long as no write failed,  *)
(* the LED shows the most important of its lights that is lit, and the      *)
(* panel is as dark, as bright and as lit as it was asked to be            *)
(* (setSpeakerLightLocked(), setLcdBacklight(), rgbToBrightness())         *)
THEOREM LightsAreFollowed == LightSpec => []LightsFollow
  <1>1. LightInv /\ [LightNext]_lightVars => LightInv'
    <2> SUFFICES ASSUME LightInv, [LightNext]_lightVars
                 PROVE  LightInv'
      OBVIOUS
    <2>1. CASE UNCHANGED lightVars
      <3>1. UNCHANGED <<good, mLights, second, state, shows, failures, asked>>
        BY <2>1 DEF lightVars
      <3> QED
        BY <3>1 DEF LightInv, LightTypes, LightTypeOK, StreamsGood, StatesAsked, LedShows,
           PanelShows, Led, LedValue, Blinking, Blinks, Scaled
    <2> QED
      BY <2>1, BacklightKeeps, SpeakerKeeps DEF LightNext
  <1> QED
    BY <1>1, LightBegins, LightInvFollows, PTL DEF LightSpec

-----------------------------------------------------------------------------
(* The tool of the sensor hub                                              *)

Downloading ==
    {"bootloader", "erase", "address", "write", "reset", "wait", "booted", "retry", "failed"}
Steps == Downloading \cup {"off", "open", "version", "mode", "flash"}
Hubs ==
    [mode : {"normal", "bootloader", "factory"}, image : {"old", "newer", "new", "factory"},
     packets : 0 .. Packets, up : BOOLEAN]

StmTypes ==
    /\ StmTypeOK
    /\ mcu \in Hubs /\ command \in DOMAIN ModeOf /\ step \in Steps
    /\ sensorhubBooted \in BOOLEAN /\ clean \in BOOLEAN

(* A hub that is up runs a whole image, outside the bootloader             *)
UpIsWhole == mcu.up => Whole(mcu) /\ mcu.mode # "bootloader"

(* What the mode is of, which is changed in two places                     *)
ModeFits ==
    /\ emode = "BOOTLOADER" => command = "boot"
    /\ emode = "ERASE" => command = "erase"
    /\ command = "boot" => emode \in {"BOOTLOADER", "NORMAL"}
    /\ command = "bootfactory" => emode \in {"BOOTFACTORY", "FACTORY"}
    /\ step \in {"open", "version"} => emode = ModeOf[command]
    /\ step \in Downloading \cup {"version"} => command \in {"boot", "bootfactory"}
    /\ step \in Downloading /\ command = "boot" => emode = "BOOTLOADER"
    /\ step \in {"reset", "wait"} => emode = "BOOTLOADER"
    /\ step = "flash" => emode = "ERASE"

(* What was flashed is what was read from the file                         *)
FlashFits ==
    /\ step \in {"erase", "address", "write", "flash"} => mcu.mode = "bootloader"
    /\ step \in {"open", "version", "bootloader", "erase", "address"} => position = 0
    /\ step = "address" => mcu.packets = 0
    /\ step = "write" => mcu.packets = position
    /\ step \in {"reset", "wait", "booted"} => Whole(mcu)

RetriesLeft ==
    /\ step \in {"open", "version"} => download_retries = 0
    /\ step \in Downloading \ {"failed"} => download_retries < STM_DOWNLOADRETRIES

(* The hub the tool saw up is up                                           *)
BootedIsUp ==
    sensorhubBooted /\ step # "off" =>
        step \in {"wait", "booted", "mode"} /\ emode = "BOOTLOADER" /\ mcu.up

(* A run without a failure of its own                                      *)
CleanRun ==
    clean =>
        /\ step \in {"wait", "booted"} /\ emode = "BOOTLOADER" => mcu.mode = "normal"
        /\ step \in {"booted", "retry", "failed"} =>
              Whole(mcu) /\ emode \in {"BOOTLOADER", "FACTORY"}
        /\ step = "mode" /\ command \in {"boot", "bootfactory"} /\ Image \in files =>
              /\ Whole(mcu)
              /\ emode = "BOOTLOADER" => mcu.mode = "normal"
              /\ command = "bootfactory" => emode = "FACTORY"
FlashedIsUp == step = "mode" /\ emode = "BOOTLOADER" /\ ret = 0 => Whole(mcu) /\ mcu.up

StmInv ==
    /\ StmTypes /\ UpIsWhole /\ ModeFits /\ FlashFits /\ RetriesLeft
    /\ BootedIsUp /\ CleanRun /\ FlashedIsUp /\ HubRecovers

LEMMA StmInvRecovers == StmInv => HubRecovers
  BY DEF StmInv

LEMMA StmBegins == StmInit => StmInv
  <1> SUFFICES ASSUME StmInit PROVE StmInv
    OBVIOUS
  <1>0. Packets \in 0 .. Packets
    BY Stml0xxAssumption
  <1>1. /\ mcu \in Hubs /\ mcu.packets \in 0 .. Packets
        /\ ~mcu.up /\ Whole(mcu) /\ mcu.mode = "normal"
    BY <1>0 DEF StmInit, Hubs, Whole
  <1>2. emode \in {ModeOf[c] : c \in DOMAIN ModeOf} /\ command \in DOMAIN ModeOf
    BY DEF StmInit, ModeOf
  <1>3. StmTypeOK
    BY <1>1, <1>2, Stml0xxAssumption DEF StmInit, StmTypeOK
  <1>4. StmTypes
    BY <1>1, <1>2, <1>3 DEF StmInit, StmTypes, Steps
  <1> QED
    BY <1>1, <1>3, <1>4
    DEF StmInit, StmInv, UpIsWhole, ModeFits, FlashFits, RetriesLeft, BootedIsUp, CleanRun,
        FlashedIsUp, HubRecovers, Downloading

LEMMA CountsBegin ==
    /\ 0 \in 0 .. Packets /\ 0 \in 0 .. STM_DOWNLOADRETRIES
    /\ 0 \in 0 .. STM_MAX_BOOT_CHECK_RETRIES
  BY Stml0xxAssumption

(* What the calls make of the hub                                          *)
LEMMA HubOperations ==
    ASSUME mcu \in Hubs
    PROVE  /\ \A m \in {"normal", "bootloader", "factory"} :
                /\ Into(m) \in Hubs /\ Into(m).mode = m /\ ~Into(m).up
                /\ Into(m).packets = mcu.packets
           /\ Erased \in Hubs /\ Erased.packets = 0
           /\ Erased.mode = mcu.mode /\ Erased.up = mcu.up
           /\ Flashed \in Hubs /\ Flashed.mode = mcu.mode /\ Flashed.up = mcu.up
           /\ Flashed.packets = IF mcu.packets = Packets THEN Packets ELSE mcu.packets + 1
  <1>1. ASSUME NEW m \in {"normal", "bootloader", "factory"}
        PROVE  /\ Into(m) \in Hubs /\ Into(m).mode = m /\ ~Into(m).up
               /\ Into(m).packets = mcu.packets
    BY DEF Hubs, Into
  <1>2. /\ Erased \in Hubs /\ Erased.packets = 0
        /\ Erased.mode = mcu.mode /\ Erased.up = mcu.up
    BY Stml0xxAssumption DEF Hubs, Erased
  <1> DEFINE packets == IF Whole(mcu) THEN mcu.packets ELSE mcu.packets + 1
  <1>3. packets \in 0 .. Packets
    BY Stml0xxAssumption DEF Hubs, Whole
  <1>4. packets = IF mcu.packets = Packets THEN Packets ELSE mcu.packets + 1
    BY DEF Whole
  <1>5. Image \in {"new", "factory"}
    BY DEF Image
  <1>6. Flashed = [mcu EXCEPT !.packets = packets, !.image = Image]
    BY DEF Flashed
  <1> HIDE DEF packets
  <1>7. /\ Flashed \in Hubs /\ Flashed.packets = packets
        /\ Flashed.mode = mcu.mode /\ Flashed.up = mcu.up
    BY <1>3, <1>5, <1>6 DEF Hubs
  <1> QED
    BY <1>1, <1>2, <1>4, <1>7

LEMMA ComingUpKeeps ==
    ASSUME StmInv, HubComesUp
    PROVE  StmInv'
  <1>1. /\ mcu' \in Hubs /\ mcu'.mode = mcu.mode /\ mcu'.packets = mcu.packets /\ mcu'.up
        /\ mcu.mode # "bootloader" /\ Whole(mcu)
        /\ UNCHANGED <<files, command, versioncheck, emode, step, position>>
        /\ UNCHANGED <<download_retries, boot_check_retries, sensorhubBooted, ret, clean>>
    BY DEF HubComesUp, StmInv, StmTypes, Hubs, startVars, retryVars
  <1> QED
    BY <1>1 DEF StmInv, StmTypes, StmTypeOK, UpIsWhole, ModeFits, FlashFits, RetriesLeft,
       BootedIsUp, CleanRun, FlashedIsUp, HubRecovers, Whole, Image, Downloading

LEMMA StartToolKeeps ==
    ASSUME StmInv, StartTool
    PROVE  StmInv'
  <1>1. /\ UNCHANGED <<files, mcu>> /\ command' \in DOMAIN ModeOf /\ emode' = ModeOf[command']
        /\ position' = 0 /\ sensorhubBooted' = FALSE /\ download_retries' = 0
        /\ boot_check_retries' = 0 /\ clean' = TRUE /\ ret' = 0 /\ step' = "open"
    BY DEF StartTool
  <1>2. /\ emode' = "BOOTLOADER" => command' = "boot"
        /\ emode' = "ERASE" => command' = "erase"
        /\ command' = "boot" => emode' \in {"BOOTLOADER", "NORMAL"}
        /\ command' = "bootfactory" => emode' \in {"BOOTFACTORY", "FACTORY"}
        /\ emode' \in {ModeOf[c] : c \in DOMAIN ModeOf}
    BY <1>1 DEF ModeOf
  <1>3. StmTypes'
    BY <1>1, <1>2, CountsBegin DEF StmInv, StmTypes, StmTypeOK, Steps
  <1>4. UpIsWhole' /\ ModeFits' /\ FlashFits' /\ RetriesLeft'
    BY <1>1, <1>2, Stml0xxAssumption
    DEF StmInv, UpIsWhole, ModeFits, FlashFits, RetriesLeft, Whole, Downloading
  <1> QED
    BY <1>1, <1>3, <1>4
    DEF StmInv, StmTypes, BootedIsUp, CleanRun, FlashedIsUp, HubRecovers

LEMMA PowerLossKeeps ==
    ASSUME StmInv, PowerLoss
    PROVE  StmInv'
  <1>1. /\ mcu' \in Hubs /\ mcu'.mode = "normal" /\ ~mcu'.up /\ mcu'.packets = mcu.packets
        /\ step' = "off" /\ ret' = -1 /\ clean' = FALSE
        /\ UNCHANGED <<files, command, versioncheck, emode, position>>
        /\ UNCHANGED <<download_retries, boot_check_retries, sensorhubBooted>>
    BY HubOperations DEF PowerLoss, StmInv, StmTypes, startVars, retryVars
  <1>2. StmTypes'
    BY <1>1 DEF StmInv, StmTypes, StmTypeOK, Steps
  <1>3. UpIsWhole' /\ ModeFits' /\ FlashFits' /\ RetriesLeft'
    BY <1>1 DEF StmInv, UpIsWhole, ModeFits, FlashFits, RetriesLeft, Downloading
  <1> QED
    BY <1>1, <1>2, <1>3
    DEF StmInv, StmTypes, BootedIsUp, CleanRun, FlashedIsUp, HubRecovers

(* A run is left for good, or goes on, by a call that may fail             *)
LEMMA OpeningKeeps ==
    ASSUME StmInv, OpenDriver \/ CheckVersion
    PROVE  StmInv'
  <1>1. CASE OpenDriver
    <2>1. /\ mcu' = mcu /\ step = "open" /\ step' \in {"version", "mode", "off"}
          /\ step' = "version" => command \in {"boot", "bootfactory"}
          /\ step' = "mode" => command \notin {"boot", "bootfactory"}
          /\ ret' \in {0, -1}
          /\ \/ UNCHANGED clean /\ step' # "off"
             \/ clean' = FALSE /\ ret' = -1
          /\ UNCHANGED <<files, command, versioncheck, emode, position>>
          /\ UNCHANGED <<download_retries, boot_check_retries, sensorhubBooted>>
      BY <1>1 DEF OpenDriver, Calls, startVars, retryVars
    <2>2. StmTypes'
      BY <2>1 DEF StmInv, StmTypes, StmTypeOK, Steps
    <2>3. UpIsWhole' /\ ModeFits' /\ FlashFits' /\ RetriesLeft'
      BY <2>1 DEF StmInv, UpIsWhole, ModeFits, FlashFits, RetriesLeft, Downloading, Whole
    <2>4. emode = "BOOTLOADER" => command = "boot"
      BY DEF StmInv, ModeFits
    <2>5. ~sensorhubBooted
      BY <2>1 DEF StmInv, BootedIsUp
    <2> QED
      BY <2>1, <2>2, <2>3, <2>4, <2>5
      DEF StmInv, StmTypes, BootedIsUp, CleanRun, FlashedIsUp, HubRecovers
  <1>2. CASE CheckVersion
    <2>1. /\ step = "version" /\ step' \in {"bootloader", "mode"}
          /\ step' = "bootloader" => UNCHANGED emode
          /\ step' = "mode" =>
               /\ emode' = IF emode = "BOOTLOADER" THEN "NORMAL" ELSE "FACTORY"
               /\ Image \in files => mcu.up
          /\ UNCHANGED <<mcu, files, command, versioncheck, position>>
          /\ UNCHANGED <<download_retries, boot_check_retries, sensorhubBooted, ret, clean>>
      BY <1>2 DEF CheckVersion, stm_version_check, startVars, retryVars
    <2>2. /\ command \in {"boot", "bootfactory"}
          /\ command = "boot" => emode = "BOOTLOADER"
          /\ command = "bootfactory" => emode = "BOOTFACTORY"
      BY <2>1 DEF StmInv, ModeFits, ModeOf
    <2>3. emode' \in {ModeOf[c] : c \in DOMAIN ModeOf}
      BY <2>1 DEF StmInv, StmTypes, StmTypeOK, ModeOf
    <2> QED
      BY <2>1, <2>2, <2>3, Stml0xxAssumption
      DEF StmInv, StmTypes, StmTypeOK, UpIsWhole, ModeFits, FlashFits, RetriesLeft, BootedIsUp,
          CleanRun, FlashedIsUp, HubRecovers, Whole, Image, Downloading, Steps
  <1> QED
    BY <1>1, <1>2

(* The steps of a download: each call that fails leads to another attempt   *)
LEMMA DownloadingKeeps ==
    ASSUME StmInv, Bootloader \/ MassErase \/ SetStartAddr \/ stm_getpacket
    PROVE  StmInv'
  <1>1. /\ mcu \in Hubs /\ step \in {"bootloader", "erase", "address", "write"}
        /\ UNCHANGED <<files, command, versioncheck, emode>>
        /\ UNCHANGED <<download_retries, boot_check_retries, sensorhubBooted>>
    BY DEF StmInv, StmTypes, Bootloader, MassErase, SetStartAddr, stm_getpacket, startVars,
           retryVars
  <1>2. \/ step' = "retry" /\ mcu' = mcu /\ clean' = FALSE /\ ret' = -1
        \/ step' \in {"erase", "address", "write"} /\ UNCHANGED clean /\ ret' = 0
    BY DEF Bootloader, MassErase, SetStartAddr, stm_getpacket, Calls
  <1>3. /\ mcu' \in Hubs /\ position' \in 0 .. Packets
        /\ mcu'.up => mcu' = mcu /\ step' = "retry"
        /\ step' \in {"erase", "address", "write"} => mcu'.mode = "bootloader"
        /\ step' \in {"erase", "address"} => position' = 0
        /\ step' = "address" => mcu'.packets = 0
        /\ step' = "write" => mcu'.packets = position'
    <2>1. CASE Bootloader
      BY <1>1, <2>1, HubOperations
      DEF Bootloader, Calls, StmInv, StmTypes, StmTypeOK, FlashFits, UpIsWhole
    <2>2. CASE MassErase
      BY <1>1, <2>2, HubOperations
      DEF MassErase, Calls, StmInv, StmTypes, StmTypeOK, FlashFits, UpIsWhole
    <2>3. CASE SetStartAddr
      BY <1>1, <2>3, HubOperations
      DEF SetStartAddr, Calls, StmInv, StmTypes, StmTypeOK, FlashFits, UpIsWhole
    <2>4. CASE stm_getpacket
      BY <1>1, <2>4, HubOperations, Stml0xxAssumption
      DEF stm_getpacket, Calls, StmInv, StmTypes, StmTypeOK, FlashFits, UpIsWhole
    <2> QED
      BY <2>1, <2>2, <2>3, <2>4
  <1>4. mcu'.packets \in 0 .. Packets
    BY <1>3 DEF Hubs
  <1> QED
    BY <1>1, <1>2, <1>3, <1>4
    DEF StmInv, StmTypes, StmTypeOK, UpIsWhole, ModeFits, FlashFits, RetriesLeft, BootedIsUp,
        CleanRun, FlashedIsUp, HubRecovers, Whole, Downloading, Steps

(* The file was read to its end, so the image is whole                     *)
LEMMA DownloadedKeeps ==
    ASSUME StmInv, Downloaded
    PROVE  StmInv'
  <1>1. /\ step = "write" /\ position = Packets
        /\ \/ emode = "BOOTLOADER" /\ step' = "reset" /\ UNCHANGED emode
           \/ emode # "BOOTLOADER" /\ step' = "booted" /\ emode' = "FACTORY"
        /\ UNCHANGED <<mcu, files, command, versioncheck, position>>
        /\ UNCHANGED <<download_retries, boot_check_retries, sensorhubBooted, ret, clean>>
    BY DEF Downloaded, startVars, retryVars
  <1>2. Whole(mcu) /\ command \in {"boot", "bootfactory"}
    BY <1>1 DEF StmInv, FlashFits, ModeFits, Whole, Downloading
  <1>3. emode' \in {ModeOf[c] : c \in DOMAIN ModeOf}
    BY <1>1 DEF StmInv, StmTypes, StmTypeOK, ModeOf
  <1> QED
    BY <1>1, <1>2, <1>3
    DEF StmInv, StmTypes, StmTypeOK, UpIsWhole, ModeFits, FlashFits, RetriesLeft, BootedIsUp,
        CleanRun, FlashedIsUp, HubRecovers, Whole, Downloading, Steps

(* The reset, and the wait for the hub                                     *)
LEMMA BootingKeeps ==
    ASSUME StmInv, ResetHub \/ GetBooted \/ Booted
    PROVE  StmInv'
  <1>1. CASE ResetHub
    <2>1. /\ step = "reset" /\ step' = "wait"
          /\ boot_check_retries' = 0 /\ sensorhubBooted' = FALSE /\ ret' \in {0, -1}
          /\ \/ mcu' = Into("normal") /\ UNCHANGED clean
             \/ mcu' = mcu /\ clean' = FALSE
          /\ UNCHANGED <<files, command, versioncheck, emode, position, download_retries>>
      BY <1>1 DEF ResetHub, Calls, startVars
    <2>2. /\ mcu' \in Hubs /\ mcu'.packets = mcu.packets
          /\ mcu'.up => mcu' = mcu
          /\ clean' => mcu'.mode = "normal" /\ clean
      BY <2>1, HubOperations DEF StmInv, StmTypes
    <2>3. StmTypes'
      BY <2>1, <2>2, CountsBegin DEF StmInv, StmTypes, StmTypeOK, Steps, Downloading
    <2>4. UpIsWhole' /\ ModeFits' /\ FlashFits' /\ RetriesLeft'
      BY <2>1, <2>2
      DEF StmInv, UpIsWhole, ModeFits, FlashFits, RetriesLeft, Downloading, Whole
    <2> QED
      BY <2>1, <2>2, <2>3, <2>4
      DEF StmInv, StmTypes, BootedIsUp, CleanRun, FlashedIsUp, HubRecovers
  <1>2. CASE GetBooted
    <2>1. /\ step = "wait" /\ step' \in {"wait", "booted"} /\ mcu' = mcu
          /\ clean' \in {clean, FALSE}
          /\ UNCHANGED <<files, command, versioncheck, emode, position, download_retries>>
      BY <1>2 DEF GetBooted, Calls, startVars
    <2>2. boot_check_retries' \in 0 .. STM_MAX_BOOT_CHECK_RETRIES /\ ret' \in {0, -1}
      BY <1>2, Stml0xxAssumption DEF GetBooted, Calls, StmInv, StmTypes, StmTypeOK
    <2>3. sensorhubBooted' \in BOOLEAN /\ (sensorhubBooted' => mcu.up \/ sensorhubBooted)
      <3>1. mcu.up \in BOOLEAN /\ sensorhubBooted \in BOOLEAN
        BY DEF StmInv, StmTypes, Hubs
      <3>2. \/ sensorhubBooted' = (ret' = 0 /\ mcu.up)
            \/ sensorhubBooted' = sensorhubBooted
        BY <1>2 DEF GetBooted
      <3>3. ASSUME sensorhubBooted' = (ret' = 0 /\ mcu.up)
            PROVE  sensorhubBooted' \in BOOLEAN /\ (sensorhubBooted' => mcu.up)
        <4>1. (ret' = 0 /\ mcu.up) \in BOOLEAN
          OBVIOUS
        <4>2. sensorhubBooted' => mcu.up
          BY <3>3, Zenon
        <4> QED
          BY <3>3, <4>1, <4>2, Zenon
      <3> QED
        BY <3>1, <3>2, <3>3, Zenon
    <2>4. StmTypes'
      BY <2>1, <2>2, <2>3 DEF StmInv, StmTypes, StmTypeOK, Steps, Downloading
    <2>5. UpIsWhole' /\ ModeFits' /\ FlashFits' /\ RetriesLeft' /\ BootedIsUp'
      BY <2>1, <2>3 DEF StmInv, UpIsWhole, ModeFits, FlashFits, RetriesLeft, BootedIsUp,
         Downloading, Whole
    <2>6. Whole(mcu) /\ emode = "BOOTLOADER" /\ (clean => mcu.mode = "normal")
      BY <2>1 DEF StmInv, FlashFits, ModeFits, CleanRun
    <2>7. CleanRun'
      BY <2>1, <2>6 DEF CleanRun, Whole
    <2> QED
      BY <2>1, <2>4, <2>5, <2>7 DEF StmInv, StmTypes, FlashedIsUp, HubRecovers
  <1>3. CASE Booted
    <2>1. /\ step = "booted" /\ step' = IF sensorhubBooted THEN "mode" ELSE "retry"
          /\ UNCHANGED <<mcu, files, command, versioncheck, emode, position>>
          /\ UNCHANGED <<download_retries, boot_check_retries, sensorhubBooted, ret, clean>>
      BY <1>3 DEF Booted, startVars, retryVars
    <2> QED
      BY <2>1
      DEF StmInv, StmTypes, StmTypeOK, UpIsWhole, ModeFits, FlashFits, RetriesLeft, BootedIsUp,
          CleanRun, FlashedIsUp, HubRecovers, Whole, Image, Downloading, Steps
  <1> QED
    BY <1>1, <1>2, <1>3

(* Another attempt, or none is left                                        *)
LEMMA RetryingKeeps ==
    ASSUME StmInv, Retry \/ DownloadFailed
    PROVE  StmInv'
  <1>1. CASE Retry
    <2>1. /\ step = "retry" /\ download_retries' = download_retries + 1
          /\ \/ /\ download_retries' < STM_DOWNLOADRETRIES
                /\ position' = 0 /\ step' = "bootloader"
             \/ step' = "failed" /\ UNCHANGED position
          /\ UNCHANGED <<mcu, files, command, versioncheck, emode>>
          /\ UNCHANGED <<boot_check_retries, sensorhubBooted, ret, clean>>
      BY <1>1 DEF Retry, startVars
    <2>2. download_retries' \in 0 .. STM_DOWNLOADRETRIES /\ position' \in 0 .. Packets
      BY <2>1, Stml0xxAssumption DEF StmInv, StmTypes, StmTypeOK, RetriesLeft, Downloading
    <2> QED
      BY <2>1, <2>2
      DEF StmInv, StmTypes, StmTypeOK, UpIsWhole, ModeFits, FlashFits, RetriesLeft, BootedIsUp,
          CleanRun, FlashedIsUp, HubRecovers, Whole, Downloading, Steps
  <1>2. CASE DownloadFailed
    <2>1. /\ step = "failed" /\ step' = "mode" /\ ret' = -1
          /\ \/ mcu' = Into("normal") /\ UNCHANGED clean
             \/ mcu' = mcu /\ clean' = FALSE
          /\ UNCHANGED <<files, command, versioncheck, emode, position>>
          /\ UNCHANGED <<download_retries, boot_check_retries, sensorhubBooted>>
      BY <1>2 DEF DownloadFailed, startVars, retryVars
    <2>2. /\ mcu' \in Hubs /\ mcu'.packets = mcu.packets
          /\ mcu'.up => mcu' = mcu
          /\ clean' => mcu'.mode = "normal" /\ clean
      BY <2>1, HubOperations DEF StmInv, StmTypes
    <2>3. StmTypes'
      BY <2>1, <2>2 DEF StmInv, StmTypes, StmTypeOK, Steps
    <2>4. UpIsWhole' /\ ModeFits' /\ FlashFits' /\ RetriesLeft' /\ BootedIsUp'
      BY <2>1, <2>2 DEF StmInv, UpIsWhole, ModeFits, FlashFits, RetriesLeft, BootedIsUp,
         Downloading, Whole
    <2>5. CleanRun'
      BY <2>1, <2>2 DEF StmInv, CleanRun, ModeFits, Downloading, Whole, Image
    <2> QED
      BY <2>1, <2>3, <2>4, <2>5 DEF StmInv, StmTypes, FlashedIsUp, HubRecovers
  <1> QED
    BY <1>1, <1>2

(* What is left to do for the mode                                         *)
LEMMA EndingKeeps ==
    ASSUME StmInv, EraseMode \/ EraseFlash \/ LastCall
    PROVE  StmInv'
  <1>1. CASE EraseMode \/ EraseFlash
    <2>1. /\ emode = "ERASE" /\ step' \in {"flash", "off"} /\ ret' \in {0, -1}
          /\ \/ EraseMode /\ mcu' = Into("bootloader") /\ step' = "flash" /\ UNCHANGED clean
             \/ EraseFlash /\ mcu' = Erased /\ step = "flash" /\ step' = "off" /\ UNCHANGED clean
             \/ mcu' = mcu /\ clean' = FALSE /\ step' = "off"
          /\ UNCHANGED <<files, command, versioncheck, position, emode>>
          /\ UNCHANGED <<download_retries, boot_check_retries, sensorhubBooted>>
      BY <1>1 DEF EraseMode, EraseFlash, Calls, startVars, retryVars, StmInv, ModeFits
    <2>2. command = "erase" /\ mcu \in Hubs
      BY <2>1 DEF StmInv, ModeFits, StmTypes
    <2>3. ~sensorhubBooted \/ step' = "off"
      BY <2>1 DEF StmInv, BootedIsUp, EraseMode
    <2>4. /\ mcu' \in Hubs
          /\ step' = "flash" => mcu'.mode = "bootloader"
          /\ mcu'.up => mcu' = mcu
      BY <2>1, <2>2, HubOperations DEF StmInv, FlashFits, UpIsWhole
    <2>5. mcu'.packets \in 0 .. Packets
      BY <2>4 DEF Hubs
    <2> QED
      BY <2>1, <2>2, <2>3, <2>4, <2>5
      DEF StmInv, StmTypes, StmTypeOK, UpIsWhole, ModeFits, FlashFits, RetriesLeft, BootedIsUp,
          CleanRun, FlashedIsUp, HubRecovers, Downloading, Steps
  <1>2. CASE LastCall
    <2>1. /\ step = "mode" /\ step' = "off" /\ emode # "ERASE"
          /\ UNCHANGED <<files, command, versioncheck, position, emode>>
          /\ UNCHANGED <<download_retries, boot_check_retries, sensorhubBooted>>
          /\ \/ emode \in {"BOOTLOADER", "BOOTFACTORY"} /\ UNCHANGED <<mcu, ret, clean>>
             \/ /\ emode \notin {"BOOTLOADER", "BOOTFACTORY"} /\ ret' \in {0, -1}
                /\ \/ mcu' = Into("normal") /\ emode = "NORMAL" /\ UNCHANGED clean
                   \/ mcu' = Into("factory") /\ emode = "FACTORY" /\ UNCHANGED clean
                   \/ /\ mcu' = Into("bootloader") /\ emode \notin {"NORMAL", "FACTORY"}
                      /\ UNCHANGED clean
                   \/ mcu' = mcu /\ clean' = FALSE
      BY <1>2 DEF LastCall, Calls, startVars, retryVars
    <2>2. /\ mcu' \in Hubs /\ mcu'.packets = mcu.packets
          /\ mcu'.up => mcu' = mcu
          /\ clean' => clean
          /\ clean' /\ emode = "NORMAL" => mcu'.mode = "normal"
          /\ clean' /\ emode = "FACTORY" => mcu'.mode = "factory"
          /\ emode \in {"BOOTLOADER", "BOOTFACTORY"} => mcu' = mcu
      BY <2>1, HubOperations DEF StmInv, StmTypes
    <2>3. /\ clean' /\ command = "boot" /\ "new" \in files =>
               Whole(mcu) /\ mcu'.mode = "normal"
          /\ clean' /\ command = "bootfactory" /\ "factory" \in files =>
               Whole(mcu) /\ mcu'.mode = "factory"
      BY <2>1, <2>2 DEF StmInv, CleanRun, ModeFits, Image
    <2>4. command = "boot" /\ emode = "BOOTLOADER" /\ ret' = 0 => Whole(mcu) /\ mcu.up
      BY <2>1 DEF StmInv, FlashedIsUp
    <2> QED
      BY <2>1, <2>2, <2>3, <2>4
      DEF StmInv, StmTypes, StmTypeOK, UpIsWhole, ModeFits, FlashFits, RetriesLeft, BootedIsUp,
          CleanRun, FlashedIsUp, HubRecovers, Whole, Downloading, Steps
  <1> QED
    BY <1>1, <1>2

(* For any number of packets, attempts and looks at the hub, and whatever   *)
(* state an earlier run or a loss of power left the hub in: a run of the    *)
(* tool that meets no failure leaves the hub usable, and one that says it   *)
(* flashed the hub left a firmware that came up (main(),                   *)
(* stm_downloadFirmware(), stm_getpacket())                                *)
THEOREM RunsRecoverTheHub == StmSpec => []HubRecovers
  <1>1. StmInv /\ [StmNext]_stmVars => StmInv'
    <2> SUFFICES ASSUME StmInv, [StmNext]_stmVars
                 PROVE  StmInv'
      OBVIOUS
    <2>1. CASE UNCHANGED stmVars
      <3>1. /\ UNCHANGED <<files, command, versioncheck, emode, step, position>>
            /\ UNCHANGED <<download_retries, boot_check_retries, sensorhubBooted, ret>>
            /\ UNCHANGED <<mcu, clean>>
        BY <2>1 DEF stmVars, startVars, retryVars
      <3> QED
        BY <3>1
        DEF StmInv, StmTypes, StmTypeOK, UpIsWhole, ModeFits, FlashFits, RetriesLeft,
            BootedIsUp, CleanRun, FlashedIsUp, HubRecovers, Whole, Image
    <2> QED
      BY <2>1, ComingUpKeeps, StartToolKeeps, PowerLossKeeps, OpeningKeeps, DownloadingKeeps,
         DownloadedKeeps, BootingKeeps, RetryingKeeps, EndingKeeps
      DEF StmNext, ToolCall
  <1> QED
    BY <1>1, StmBegins, StmInvRecovers, PTL DEF StmSpec

-----------------------------------------------------------------------------
(* The sensors HAL and the daemon of the compass                           *)

Reported == Akm \cup Hub \cup {"FLUSH"}
Switches == {"enable_mag", "enable_fusion"}
HalCalls == [op : {"enable", "delay"}, handle : Akm \cap used, arg : BOOLEAN \cup Delays,
          pointed : BOOLEAN, writes : Seq(Writes)]
Records == {"ACCEL", "FLUSH", "GLANCE"}
HubStates == [delay : Delays \cup {Default}, records : Seq(Records), sent : Nat]
Compasses ==
    [enable_mag : {0, 1}, enable_fusion : {0, 1},
     delay_mag : Delays \cup {NoDelay}, delay_fusion : Delays \cup {NoDelay}]

(* The types, by what the actions share *)
HubTypes ==
    /\ mFusionEnabled \subseteq Fusion
    /\ mFusionDelay \in [Fusion -> Delays \cup {Default}]
    /\ mEnabled \subseteq {"ACCEL", "ALS"} /\ mWakeEnabled \subseteq {"P", "GLANCE"}
    /\ mEnabledHandles \subseteq used
    /\ hub \in HubStates
AkmTypes ==
    /\ akmEnabled \subseteq Akm \cap used
    /\ mDelay \in [Akm -> Delays \cup {NoDelay}]
CallTypes ==
    /\ used \in Handles /\ on \subseteq used /\ lost \subseteq Attributes
    /\ call # Idle => call \in HalCalls /\ (call.op = "delay" => call.arg \in Delays)
PollTypes ==
    /\ mPendingMask \subseteq Akm
    /\ mInputReader \in Seq(SUBSET Akm) /\ Len(mInputReader) <= NumEvents
    /\ poller \in {"poll", "hub", "accel", "akm", "events", "return"}
    /\ data \in Seq(Reported) /\ Len(data) <= Count
InputTypes == inputs \in Seq(SUBSET Akm) /\ Len(inputs) <= MaxInputs
DaemonTypes ==
    /\ main \in {"dead", "open", "close", "join", "save", "write"}
    /\ thread \in {"off", "init", "loop", "done"}
    /\ prms \in 0 .. MaxFound /\ file \in Seq(0 .. MaxFound) /\ found \in 0 .. MaxFound
    /\ faults \in Nat

(* A write brings the value its sensors want, and only the last may fail   *)
(* the call                                                                *)
Brings(w, enabled, delays) ==
    /\ w.attr \in Switches => w.value \in {0, 1}
    /\ w.attr \notin Switches => w.value \in Delays \cup {NoDelay}
    /\ w.attr = "enable_mag" => w.value = Digit(enabled \cap Mag)
    /\ w.attr = "enable_fusion" => w.value = Digit(enabled \cap Ori)
    /\ w.attr = "delay_mag" => \A h \in enabled \cap Mag : w.value <= delays[h]
WritesFit ==
    call # Idle =>
        \A i \in 1 .. Len(call.writes) :
            /\ Brings(call.writes[i], akmEnabled, mDelay)
            /\ call.writes[i].must => i = Len(call.writes)

(* An attribute is not about to be written, and was not written astray     *)
Settled(attr) ==
    /\ attr \notin lost
    /\ call # Idle => \A i \in 1 .. Len(call.writes) : call.writes[i].attr # attr

CompassFits ==
    /\ Settled("enable_mag") => compass.enable_mag = Digit(akmEnabled \cap Mag)
    /\ Settled("enable_fusion") => compass.enable_fusion = Digit(akmEnabled \cap Ori)
    /\ Settled("delay_mag") => \A h \in akmEnabled \cap Mag : compass.delay_mag <= mDelay[h]

(* What the framework knows to be on, both classes have enabled            *)
AkmKnows ==
    /\ on \cap Akm \subseteq akmEnabled
    /\ call # Idle /\ call.op = "enable" /\ call.arg = TRUE => call.handle \in akmEnabled
HubKnows ==
    /\ on \cap Fusion \subseteq mFusionEnabled
    /\ on \cap Glances = mEnabledHandles \cap Glances

HubFits ==
    /\ mWakeEnabled = (on \cap {"P"}) \cup {"GLANCE" : h \in on \cap Glances}
    /\ mFusionEnabled # {} => "ACCEL" \in mEnabled
    /\ \A h \in mFusionEnabled : hub.delay <= mFusionDelay[h]

(* Where the calibration found last is, as long as nothing fails           *)
CalibrationFits ==
    faults = 0 =>
        /\ ~g_mainQuit /\ main # "dead"
        /\ main = "open" => thread = "off" /\ (file = <<found>> \/ (file = NoData /\ found = 0))
        /\ main # "open" => prms = found
        /\ main \in {"save", "write"} => thread = "off"

(* The calls of the framework, and all *)
ServingInv ==
    /\ HubTypes /\ AkmTypes /\ CallTypes /\ compass \in Compasses
    /\ WritesFit /\ CompassFits /\ AkmKnows /\ HubKnows /\ HubFits
SensorInv ==
    /\ ServingInv /\ PollTypes /\ InputTypes /\ DaemonTypes /\ CalibrationFits

USE SensorAssumption, AkmdAssumption, CallsAssumption

LEMMA SensorInvImplies == SensorInv => RoomRespected /\ SensorsServed /\ CalibrationKept
  <1> SUFFICES ASSUME SensorInv PROVE RoomRespected /\ SensorsServed /\ CalibrationKept
    OBVIOUS
  <1> USE DEF SensorInv, ServingInv
  <1>2. call = Idle \/ call.writes \in Seq(Writes)
    BY DEF CallTypes, HalCalls
  <1>3. RoomRespected
    BY <1>2 DEF HubTypes, AkmTypes, CallTypes, PollTypes, InputTypes, DaemonTypes, Compasses,
       RoomRespected, TypeOK
  <1>4. HubServes
    BY DEF SensorInv, HubKnows, HubFits, HubServes
  <1>5. CompassServes
    <2> SUFFICES ASSUME call = Idle PROVE CompassServes
      BY DEF CompassServes
    <2>1. \A attr : Settled(attr) <=> attr \notin lost
      BY DEF Settled
    <2>2. \A h \in on \cap Akm : h \in akmEnabled
      BY DEF SensorInv, AkmKnows
    <2>3. ASSUME NEW h \in on \cap Mag
          PROVE  /\ "enable_mag" \notin lost => compass.enable_mag = 1
                 /\ "delay_mag" \notin lost => compass.delay_mag <= mDelay[h]
      <3>1. h \in akmEnabled \cap Mag
        BY <2>2, <2>3 DEF Akm
      <3> QED
        BY <2>1, <3>1 DEF SensorInv, CompassFits, Digit
    <2>4. ASSUME on \cap Ori # {}, "enable_fusion" \notin lost PROVE compass.enable_fusion = 1
      <3>1. akmEnabled \cap Ori # {}
        BY <2>2, <2>4 DEF Akm
      <3> QED
        BY <2>1, <2>4, <3>1 DEF SensorInv, CompassFits, Digit
    <2> QED
      BY <2>3, <2>4 DEF CompassServes
  <1>6. CalibrationKept
    BY DEF CalibrationFits, CalibrationKept, DaemonTypes, NoData
  <1> QED
    BY <1>3, <1>4, <1>5, <1>6 DEF SensorsServed

-----------------------------------------------------------------------------
(* The shortest of a few delays                                            *)

LEMMA DelaysAreNat == Delays \subseteq Nat \ {0} /\ Default \in Nat
  BY SensorAssumption DEF Default

LEMMA LeastOfThree ==
    ASSUME NEW a \in Nat, NEW b \in Nat, NEW c \in Nat, NEW S, S = {a, b, c}
    PROVE  Min(S) \in S /\ \A x \in S : Min(S) <= x
  <1>1. \E x \in S : \A y \in S : x <= y
    <2>1. CASE a <= b /\ a <= c
      BY <2>1
    <2>2. CASE b <= a /\ b <= c
      BY <2>2
    <2>3. CASE c <= a /\ c <= b
      BY <2>3
    <2> QED
      BY <2>1, <2>2, <2>3
  <1> QED
    BY <1>1 DEF Min

LEMMA LowestIsLeast ==
    ASSUME NEW a, NEW b, NEW users \in SUBSET {a, b}, NEW delays,
           \A h \in users : delays[h] \in Nat, NEW otherwise \in Nat
    PROVE  /\ \/ LowestOf(users, delays, otherwise) = otherwise
              \/ \E h \in users : LowestOf(users, delays, otherwise) = delays[h]
           /\ LowestOf(users, delays, otherwise) <= otherwise
           /\ \A h \in users : LowestOf(users, delays, otherwise) <= delays[h]
  <1> DEFINE S == {delays[h] : h \in users} \cup {otherwise}
  <1>1. S = {delays[h] : h \in users} \cup {otherwise}
    OBVIOUS
  <1>2. LowestOf(users, delays, otherwise) = Min(S)
    BY DEF LowestOf
  <1> HIDE DEF S
  <1>3. Min(S) \in S /\ \A x \in S : Min(S) <= x
    <2>1. CASE users = {}
      <3>1. S = {otherwise, otherwise, otherwise}
        BY <1>1, <2>1
      <3> QED
        BY <3>1, LeastOfThree
    <2>2. CASE users = {a}
      <3>1. S = {delays[a], otherwise, otherwise} /\ delays[a] \in Nat
        BY <1>1, <2>2
      <3> QED
        BY <3>1, LeastOfThree
    <2>3. CASE users = {b}
      <3>1. S = {delays[b], otherwise, otherwise} /\ delays[b] \in Nat
        BY <1>1, <2>3
      <3> QED
        BY <3>1, LeastOfThree
    <2>4. CASE users = {a, b}
      <3>1. S = {delays[a], delays[b], otherwise} /\ delays[a] \in Nat /\ delays[b] \in Nat
        BY <1>1, <2>4
      <3> QED
        BY <3>1, LeastOfThree
    <2> QED
      BY <2>1, <2>2, <2>3, <2>4
  <1> QED
    BY <1>1, <1>2, <1>3

(* The accelerometer is at least as fast as each of its users asked *)
LEMMA FusionDelayServes ==
    ASSUME NEW users \in SUBSET Fusion, NEW delays \in [Fusion -> Delays \cup {Default}],
           NEW otherwise \in Delays \cup {Default}
    PROVE  /\ FusionDelay(users, delays, otherwise) \in Delays \cup {Default}
           /\ \A h \in users : FusionDelay(users, delays, otherwise) <= delays[h]
  <1> DEFINE others == users \ {"A"}
             own == IF "A" \in users THEN delays["A"] ELSE otherwise
  <1>1. \A h \in Fusion : delays[h] \in Delays \cup {Default} /\ delays[h] \in Nat
    BY DelaysAreNat
  <1>2. others \in SUBSET {"OR", "RV"} /\ others \subseteq Fusion
    BY DEF Fusion
  <1>3. own \in Nat /\ own \in Delays \cup {Default}
    BY <1>1 DEF Default, Fusion
  <1>4. \A h \in others : delays[h] \in Nat
    BY <1>1, <1>2
  <1> HIDE DEF others, own
  <1>5. /\ \/ LowestOf(others, delays, own) = own
           \/ \E h \in others : LowestOf(others, delays, own) = delays[h]
        /\ LowestOf(others, delays, own) <= own
        /\ \A h \in others : LowestOf(others, delays, own) <= delays[h]
    BY <1>2, <1>3, <1>4, LowestIsLeast
  <1>6. FusionDelay(users, delays, otherwise) = LowestOf(others, delays, own)
    BY DEF FusionDelay, others, own
  <1>7. FusionDelay(users, delays, otherwise) \in Delays \cup {Default}
    BY <1>1, <1>2, <1>3, <1>5, <1>6
  <1>8. ASSUME NEW h \in users PROVE FusionDelay(users, delays, otherwise) <= delays[h]
    <2>1. CASE h = "A"
      BY <1>5, <1>6, <1>8, <2>1 DEF own
    <2>2. CASE h # "A"
      BY <1>5, <1>6, <1>8, <2>2 DEF others
    <2> QED
      BY <2>1, <2>2
  <1> QED
    BY <1>7, <1>8

-----------------------------------------------------------------------------
(* The hub                                                                 *)

LEMMA HubEnableKeeps ==
    ASSUME HubTypes, HubKnows, HubFits, NEW h \in used, h \in Akm \cup Hub, NEW en,
           HubSetEnable(h, en), on' = Switched(on, h, en), used' = used
    PROVE  HubTypes' /\ HubKnows' /\ HubFits'
  <1> USE DEF Switched
  <1>1. mFusionEnabled' \subseteq Fusion
    BY DEF HubTypes, HubSetEnable
  <1>2. mFusionDelay' \in [Fusion -> Delays \cup {Default}] /\ mFusionDelay' = mFusionDelay
    BY DEF HubTypes, HubSetEnable
  <1>3. mEnabled' \subseteq {"ACCEL", "ALS"}
    BY DEF HubTypes, HubSetEnable
  <1>4. mWakeEnabled' \subseteq {"P", "GLANCE"}
    BY DEF HubTypes, HubSetEnable, Wake
  <1>5. mEnabledHandles' \subseteq used'
    BY DEF HubTypes, HubSetEnable
  <1>6. hub' \in HubStates /\ \A k \in mFusionEnabled' : hub'.delay <= mFusionDelay'[k]
    <2>1. CASE h \in Fusion
      <3> DEFINE delay == FusionDelay(mFusionEnabled', mFusionDelay, Default)
      <3>1. hub' = [hub EXCEPT !.delay = delay]
        BY <2>1 DEF HubSetEnable
      <3>2. delay \in Delays \cup {Default} /\ \A k \in mFusionEnabled' : delay <= mFusionDelay[k]
        <4>1. Default \in Delays \cup {Default} /\ mFusionEnabled' \in SUBSET Fusion
          BY <1>1
        <4>2. mFusionDelay \in [Fusion -> Delays \cup {Default}]
          BY DEF HubTypes
        <4> QED
          BY <4>1, <4>2, FusionDelayServes
      <3> HIDE DEF delay
      <3>3. hub' \in HubStates /\ hub'.delay = delay
        BY <3>1, <3>2 DEF HubTypes, HubStates
      <3> QED
        BY <1>2, <3>2, <3>3
    <2>2. CASE h \notin Fusion
      BY <1>2, <2>2 DEF HubSetEnable, HubTypes, HubFits
    <2> QED
      BY <2>1, <2>2
  <1>7. mFusionEnabled' # {} => "ACCEL" \in mEnabled'
    BY DEF HubSetEnable, HubFits
  <1>8. (on \cap Fusion)' \subseteq mFusionEnabled'
    BY DEF HubSetEnable, HubKnows
  <1>9. (on \cap Glances)' = (mEnabledHandles \cap Glances)'
    BY DEF HubSetEnable, HubKnows
  <1>10. mWakeEnabled' = ((on \cap {"P"}) \cup {"GLANCE" : k \in on \cap Glances})'
    <2>1. CASE h = "P"
      BY <2>1 DEF HubSetEnable, HubFits, Wake, Glances, MayTurn
    <2>2. CASE h \in Glances
      BY <2>2 DEF HubSetEnable, HubFits, HubKnows, Wake, Glances, MayTurn
    <2>3. CASE h \notin Wake
      BY <2>3 DEF HubSetEnable, HubFits, Wake, Glances
    <2> QED
      BY <2>1, <2>2, <2>3 DEF Wake
  <1> QED
    BY <1>1, <1>2, <1>3, <1>4, <1>5, <1>6, <1>7, <1>8, <1>9, <1>10 DEF HubTypes, HubKnows, HubFits

LEMMA HubDelayKeeps ==
    ASSUME HubTypes, HubKnows, HubFits, NEW h, NEW d \in Delays, HubSetDelay(h, d),
           UNCHANGED <<on, used>>
    PROVE  HubTypes' /\ HubKnows' /\ HubFits'
  <1>1. CASE h \in Fusion
    <2> DEFINE delay == FusionDelay(mFusionEnabled, mFusionDelay', d)
    <2>1. /\ mFusionDelay' = [mFusionDelay EXCEPT ![h] = d]
          /\ hub' = [hub EXCEPT !.delay = delay]
          /\ UNCHANGED <<mFusionEnabled, mEnabled, mWakeEnabled, mEnabledHandles>>
      BY <1>1 DEF HubSetDelay
    <2>2. mFusionDelay' \in [Fusion -> Delays \cup {Default}]
      BY <1>1, <2>1 DEF HubTypes
    <2>3. mFusionEnabled \in SUBSET Fusion /\ d \in Delays \cup {Default}
      BY DEF HubTypes
    <2>4. delay \in Delays \cup {Default} /\ \A k \in mFusionEnabled : delay <= mFusionDelay'[k]
      BY <2>2, <2>3, FusionDelayServes
    <2> HIDE DEF delay
    <2>5. hub' \in HubStates /\ hub'.delay = delay
      BY <2>1, <2>4 DEF HubTypes, HubStates
    <2>6. HubTypes'
      BY <2>1, <2>2, <2>5 DEF HubTypes
    <2>7. HubKnows' /\ HubFits'
      BY <2>1, <2>4, <2>5 DEF HubKnows, HubFits
    <2> QED
      BY <2>6, <2>7
  <1>2. CASE h \notin Fusion
    BY <1>2 DEF HubSetDelay, hubVars, HubTypes, HubKnows, HubFits
  <1> QED
    BY <1>1, <1>2

(* A sensor of the compass goes off before the hub is told *)
LEMMA GoingOffKeeps ==
    ASSUME HubTypes, HubKnows, HubFits, NEW h \in Akm,
           on' = on \/ on' = on \ {h}, UNCHANGED <<hubVars, hub, used>>
    PROVE  HubTypes' /\ HubKnows' /\ HubFits'
  <1>1. HubTypes'
    BY DEF HubTypes, hubVars
  <1>2. on' \cap Glances = on \cap Glances /\ on' \cap {"P"} = on \cap {"P"} /\ on' \subseteq on
    BY DEF Akm, Mag, Ori, Glances
  <1> QED
    BY <1>1, <1>2 DEF HubKnows, HubFits, hubVars

-----------------------------------------------------------------------------
(* The compass                                                             *)

LEMMA ShortestOfMag ==
    ASSUME AkmTypes, NEW users, users \subseteq Mag, users # {}
    PROVE  /\ Min({mDelay[h] : h \in users}) \in Delays \cup {NoDelay}
           /\ \A u \in users : Min({mDelay[h] : h \in users}) <= mDelay[u]
  <1> DEFINE S == {mDelay[h] : h \in users}
  <1>1. S = {mDelay[h] : h \in users}
    OBVIOUS
  <1>2. \A h \in Mag : mDelay[h] \in Delays \cup {NoDelay} /\ mDelay[h] \in Nat
    <2>1. \A h \in Mag : mDelay[h] \in Delays \cup {NoDelay}
      BY DEF AkmTypes, Akm
    <2>2. Delays \cup {NoDelay} \subseteq Nat
      BY DelaysAreNat DEF NoDelay
    <2> QED
      BY <2>1, <2>2
  <1>3. Mag = {"M", "UM"}
    BY DEF Mag
  <1> HIDE DEF S
  <1>4. Min(S) \in S /\ \A x \in S : Min(S) <= x
    <2>1. CASE users = {"M"}
      <3>1. S = {mDelay["M"], mDelay["M"], mDelay["M"]} /\ mDelay["M"] \in Nat
        BY <1>1, <1>2, <1>3, <2>1
      <3> QED
        BY <3>1, LeastOfThree
    <2>2. CASE users = {"UM"}
      <3>1. S = {mDelay["UM"], mDelay["UM"], mDelay["UM"]} /\ mDelay["UM"] \in Nat
        BY <1>1, <1>2, <1>3, <2>2
      <3> QED
        BY <3>1, LeastOfThree
    <2>3. CASE users = {"M", "UM"}
      <3>1. /\ S = {mDelay["M"], mDelay["UM"], mDelay["UM"]}
            /\ mDelay["M"] \in Nat /\ mDelay["UM"] \in Nat
        BY <1>1, <1>2, <1>3, <2>3
      <3> QED
        BY <3>1, LeastOfThree
    <2> QED
      BY <1>3, <2>1, <2>2, <2>3
  <1>5. \A h \in users : mDelay[h] \in S
    BY <1>1
  <1>6. \A x \in S : x \in Delays \cup {NoDelay}
    BY <1>1, <1>2
  <1>7. Min(S) \in Delays \cup {NoDelay} /\ \A h \in users : Min(S) <= mDelay[h]
    BY <1>4, <1>5, <1>6
  <1> QED
    BY <1>1, <1>7

(* What a write of the switches brings *)
LEMMA SwitchFits ==
    ASSUME NEW enabled, NEW delays, NEW attribute \in Switches,
           NEW users, users = enabled \cap (IF attribute = "enable_mag" THEN Mag ELSE Ori),
           NEW w, w = [attr |-> attribute, value |-> Digit(users), must |-> TRUE]
    PROVE  w \in Writes /\ Brings(w, enabled, delays) /\ w.attr = attribute
  <1>1. attribute \in Attributes /\ Digit(users) \in {0, 1} \cup Delays /\ Digit(users) \in {0, 1}
    BY DEF Switches, Attributes, Digit
  <1>2. w.attr = attribute /\ w.value = Digit(users)
    OBVIOUS
  <1>3. w \in Writes
    BY <1>1 DEF Writes
  <1>4. Brings(w, enabled, delays)
    BY <1>1, <1>2 DEF Brings, Switches
  <1> QED
    BY <1>2, <1>3, <1>4

LEMMA DelayFits ==
    ASSUME NEW enabled, NEW delays, NEW attribute \in Attributes \ Switches,
           NEW value \in Delays \cup {NoDelay},
           attribute = "delay_mag" => \A h \in enabled \cap Mag : value <= delays[h],
           NEW w, \/ w = [attr |-> attribute, value |-> value, must |-> FALSE]
                  \/ w = [attr |-> attribute, value |-> value, must |-> TRUE]
    PROVE  w \in Writes /\ Brings(w, enabled, delays) /\ w.attr = attribute
  <1>1. value \in {0, 1} \cup Delays
    BY DEF NoDelay
  <1>2. w.attr = attribute /\ w.value = value
    OBVIOUS
  <1>3. CASE w = [attr |-> attribute, value |-> value, must |-> FALSE]
    BY <1>1, <1>3 DEF Writes, Brings, Switches
  <1>4. CASE w = [attr |-> attribute, value |-> value, must |-> TRUE]
    BY <1>1, <1>4 DEF Writes, Brings, Switches
  <1> QED
    BY <1>2, <1>3, <1>4

LEMMA OneAppended == \A w : Append(<<>>, w) = <<w>>
  OBVIOUS

LEMMA TwoAppended ==
    ASSUME NEW S, NEW v \in S, NEW w \in S, NEW both, both = Append(<<v>>, w)
    PROVE  both \in Seq(S) /\ Len(both) = 2 /\ both[1] = v /\ both[2] = w
  <1>1. <<v>> \in Seq(S) /\ Len(<<v>>) = 1 /\ <<v>>[1] = v
    OBVIOUS
  <1> QED
    BY <1>1

(* A call begins: what it will write is all that is on its way *)
LEMMA BeginningFits ==
    ASSUME call = Idle, CallTypes, CompassFits, UNCHANGED <<compass, lost>>,
           NEW writes \in Seq(Writes), call' # Idle, call'.writes = writes,
           \A i \in 1 .. Len(writes) :
              Brings(writes[i], akmEnabled', mDelay') /\ (writes[i].must => i = Len(writes)),
           \/ akmEnabled' \cap Mag = akmEnabled \cap Mag
           \/ \E i \in 1 .. Len(writes) : writes[i].attr = "enable_mag",
           \/ akmEnabled' \cap Ori = akmEnabled \cap Ori
           \/ \E i \in 1 .. Len(writes) : writes[i].attr = "enable_fusion",
           \/ akmEnabled' \cap Mag = {}
           \/ /\ akmEnabled' \cap Mag = akmEnabled \cap Mag
              /\ \A h \in Mag : mDelay'[h] = mDelay[h]
           \/ \E i \in 1 .. Len(writes) : writes[i].attr = "delay_mag"
    PROVE  WritesFit' /\ CompassFits'
  <1>1. WritesFit'
    BY DEF WritesFit
  <1>2. \A attr : Settled(attr)' <=>
            attr \notin lost /\ \A i \in 1 .. Len(writes) : writes[i].attr # attr
    BY DEF Settled
  <1>3. \A attr : Settled(attr) <=> attr \notin lost
    BY DEF Settled
  <1>4. Settled("enable_mag")' => compass'.enable_mag = Digit(akmEnabled' \cap Mag)
    BY <1>2, <1>3 DEF CompassFits
  <1>5. Settled("enable_fusion")' => compass'.enable_fusion = Digit(akmEnabled' \cap Ori)
    BY <1>2, <1>3 DEF CompassFits
  <1>6. Settled("delay_mag")' =>
            \A h \in akmEnabled' \cap Mag : compass'.delay_mag <= mDelay'[h]
    BY <1>2, <1>3 DEF CompassFits
  <1> QED
    BY <1>1, <1>4, <1>5, <1>6 DEF CompassFits

LEMMA AkmEnableKeeps ==
    ASSUME AkmTypes, CallTypes, CompassFits, AkmKnows, call = Idle,
           NEW h \in Akm \cap used, NEW en \in BOOLEAN, AkmSetEnable(h, en),
           on' = IF en THEN on ELSE on \ {h}, UNCHANGED <<used, lost, compass>>
    PROVE  AkmTypes' /\ CallTypes' /\ WritesFit' /\ CompassFits' /\ AkmKnows'
  <1>1. akmEnabled' = Switched(akmEnabled, h, en) /\ mDelay' = mDelay
    BY DEF AkmSetEnable
  <1>2. AkmTypes' /\ akmEnabled' \subseteq Akm \cap used
    BY <1>1 DEF AkmTypes, Switched
  <1> DEFINE writes == IF h \in Mag
                       THEN Append(MagDelay(akmEnabled'),
                                   To("enable_mag", Digit(akmEnabled' \cap Mag), TRUE))
                       ELSE <<To("enable_fusion", Digit(akmEnabled' \cap Ori), TRUE)>>
  <1>3. call' = [op |-> "enable", handle |-> h, arg |-> en, pointed |-> FALSE, writes |-> writes]
    BY DEF AkmSetEnable
  <1>4. \A enabled : Digit(enabled) \in {0, 1}
    BY DEF Digit
  <1>5. h \in Mag <=> h \notin Ori
    BY DEF Akm, Mag, Ori
  <1>6. CASE h \in Mag /\ akmEnabled' \cap Mag = {}
    <2> DEFINE w == To("enable_mag", Digit(akmEnabled' \cap Mag), TRUE)
    <2>1. writes = <<w>>
      BY <1>6, OneAppended DEF MagDelay
    <2>2. w \in Writes /\ Brings(w, akmEnabled', mDelay') /\ w.attr = "enable_mag"
      BY SwitchFits DEF Switches, To
    <2> HIDE DEF w, writes
    <2>3. writes \in Seq(Writes) /\ Len(writes) = 1 /\ writes[1] = w
      BY <2>1, <2>2
    <2>4. \A i \in 1 .. Len(writes) :
              Brings(writes[i], akmEnabled', mDelay') /\ (writes[i].must => i = Len(writes))
      BY <2>2, <2>3
    <2>5. \E i \in 1 .. Len(writes) : writes[i].attr = "enable_mag"
      BY <2>2, <2>3
    <2>6. akmEnabled' \cap Ori = akmEnabled \cap Ori
      BY <1>1, <1>5, <1>6 DEF Switched
    <2>7. call' # Idle /\ call'.writes = writes /\ call' \in HalCalls'
      BY <1>3, <2>3 DEF Idle, HalCalls
    <2>8. WritesFit' /\ CompassFits'
      BY <1>6, <2>3, <2>4, <2>5, <2>6, <2>7, BeginningFits
    <2> QED
      BY <1>1, <1>2, <1>3, <2>7, <2>8 DEF CallTypes, AkmKnows, Switched
  <1>7. CASE h \in Mag /\ akmEnabled' \cap Mag # {}
    <2> DEFINE shortest == Min({mDelay[k] : k \in akmEnabled' \cap Mag})
               v == To("delay_mag", shortest, FALSE)
               w == To("enable_mag", Digit(akmEnabled' \cap Mag), TRUE)
    <2>1. writes = Append(<<v>>, w)
      BY <1>7 DEF MagDelay
    <2>2. w \in Writes /\ Brings(w, akmEnabled', mDelay') /\ w.attr = "enable_mag"
      BY SwitchFits DEF Switches, To
    <2>3. /\ shortest \in Delays \cup {NoDelay}
          /\ \A k \in akmEnabled' \cap Mag : shortest <= mDelay[k]
      BY <1>7, ShortestOfMag
    <2> HIDE DEF shortest
    <2>4. v \in Writes /\ Brings(v, akmEnabled', mDelay') /\ v.attr = "delay_mag" /\ ~v.must
      <3>1. "delay_mag" \in Attributes \ Switches
        BY DEF Attributes, Switches
      <3>2. \A k \in akmEnabled' \cap Mag : shortest <= mDelay'[k]
        BY <1>1, <2>3
      <3>3. v = [attr |-> "delay_mag", value |-> shortest, must |-> FALSE] /\ ~v.must
        BY DEF To
      <3> HIDE DEF v
      <3> QED
        BY <2>3, <3>1, <3>2, <3>3, DelayFits
    <2> HIDE DEF v, w, writes
    <2>5. writes \in Seq(Writes) /\ Len(writes) = 2 /\ writes[1] = v /\ writes[2] = w
      BY <2>1, <2>2, <2>4, TwoAppended
    <2>6. \A i \in 1 .. Len(writes) :
              Brings(writes[i], akmEnabled', mDelay') /\ (writes[i].must => i = Len(writes))
      BY <2>2, <2>4, <2>5
    <2>7. /\ \E i \in 1 .. Len(writes) : writes[i].attr = "enable_mag"
          /\ \E i \in 1 .. Len(writes) : writes[i].attr = "delay_mag"
      BY <2>2, <2>4, <2>5
    <2>8. akmEnabled' \cap Ori = akmEnabled \cap Ori
      BY <1>1, <1>5, <1>7 DEF Switched
    <2>9. call' # Idle /\ call'.writes = writes /\ call' \in HalCalls'
      BY <1>3, <2>5 DEF Idle, HalCalls
    <2>10. WritesFit' /\ CompassFits'
      BY <2>5, <2>6, <2>7, <2>8, <2>9, BeginningFits
    <2> QED
      BY <1>1, <1>2, <1>3, <2>9, <2>10 DEF CallTypes, AkmKnows, Switched
  <1>8. CASE h \notin Mag
    <2> DEFINE w == To("enable_fusion", Digit(akmEnabled' \cap Ori), TRUE)
    <2>1. writes = <<w>>
      BY <1>8
    <2>2. w \in Writes /\ Brings(w, akmEnabled', mDelay') /\ w.attr = "enable_fusion"
      BY SwitchFits DEF Switches, To
    <2> HIDE DEF w, writes
    <2>3. writes \in Seq(Writes) /\ Len(writes) = 1 /\ writes[1] = w
      BY <2>1, <2>2
    <2>4. \A i \in 1 .. Len(writes) :
              Brings(writes[i], akmEnabled', mDelay') /\ (writes[i].must => i = Len(writes))
      BY <2>2, <2>3
    <2>5. \E i \in 1 .. Len(writes) : writes[i].attr = "enable_fusion"
      BY <2>2, <2>3
    <2>6. akmEnabled' \cap Mag = akmEnabled \cap Mag
      BY <1>1, <1>8 DEF Switched
    <2>7. call' # Idle /\ call'.writes = writes /\ call' \in HalCalls'
      BY <1>3, <2>3 DEF Idle, HalCalls
    <2>8. WritesFit' /\ CompassFits'
      BY <1>1, <2>3, <2>4, <2>5, <2>6, <2>7, BeginningFits
    <2> QED
      BY <1>1, <1>2, <1>3, <2>7, <2>8 DEF CallTypes, AkmKnows, Switched
  <1> QED
    BY <1>6, <1>7, <1>8

LEMMA AkmDelayKeeps ==
    ASSUME AkmTypes, CallTypes, CompassFits, AkmKnows, call = Idle,
           NEW h \in Akm \cap used, NEW d \in Delays, AkmSetDelay(h, d),
           UNCHANGED <<on, used, lost, compass>>
    PROVE  AkmTypes' /\ CallTypes' /\ WritesFit' /\ CompassFits' /\ AkmKnows'
  <1>1. mDelay' = [mDelay EXCEPT ![h] = d] /\ akmEnabled' = akmEnabled
    BY DEF AkmSetDelay
  <1>2. AkmTypes'
    BY <1>1 DEF AkmTypes
  <1> DEFINE w == IF h \in Mag THEN To("delay_mag", Resolved(h, d), TRUE)
                  ELSE To("delay_fusion", d, TRUE)
             writes == <<w>>
  <1>3. call' = [op |-> "delay", handle |-> h, arg |-> d, pointed |-> FALSE, writes |-> writes]
    BY DEF AkmSetDelay
  <1>4. \A k \in Akm : mDelay'[k] = IF k = h THEN d ELSE mDelay[k]
    BY <1>1 DEF AkmTypes
  <1>5. /\ w \in Writes /\ Brings(w, akmEnabled', mDelay')
        /\ w.attr = IF h \in Mag THEN "delay_mag" ELSE "delay_fusion"
    <2>1. CASE h \in Mag
      <3> DEFINE least == Resolved(h, d)
                 users == (akmEnabled \cap Mag) \ {h}
      <3>1. users \in SUBSET {"M", "UM"}
        BY DEF Mag
      <3>2. (\A k \in users : mDelay[k] \in Nat) /\ d \in Nat
        <4>1. \A k \in users : mDelay[k] \in Delays \cup {NoDelay}
          BY DEF AkmTypes, Akm
        <4>2. Delays \cup {NoDelay} \subseteq Nat
          BY DelaysAreNat DEF NoDelay
        <4> QED
          BY <4>1, <4>2
      <3>3. /\ least = d \/ \E k \in users : least = mDelay[k]
            /\ least <= d
            /\ \A k \in users : least <= mDelay[k]
        <4>1. least = LowestOf(users, mDelay, d)
          BY DEF Resolved
        <4> HIDE DEF least, users
        <4>2. \A k \in users : mDelay[k] \in Nat
          BY <3>2
        <4>3. d \in Nat
          BY <3>2
        <4> QED
          <5>1. /\ \/ LowestOf(users, mDelay, d) = d
                   \/ \E k \in users : LowestOf(users, mDelay, d) = mDelay[k]
                /\ LowestOf(users, mDelay, d) <= d
                /\ \A k \in users : LowestOf(users, mDelay, d) <= mDelay[k]
            BY <3>1, <4>2, <4>3, LowestIsLeast
          <5> QED
            BY <4>1, <5>1
      <3>4. least \in Delays \cup {NoDelay}
        <4> HIDE DEF least
        <4> QED
          BY <3>3 DEF AkmTypes, Akm
      <3>5. \A k \in akmEnabled' \cap Mag : least <= mDelay'[k]
        <4> HIDE DEF least
        <4> QED
          BY <1>1, <1>4, <3>3 DEF Akm
      <3>6. w = [attr |-> "delay_mag", value |-> least, must |-> TRUE]
        BY <2>1 DEF To
      <3>7. "delay_mag" \in Attributes \ Switches
        BY DEF Attributes, Switches
      <3> HIDE DEF w, least
      <3> QED
        BY <2>1, <3>4, <3>5, <3>6, <3>7, DelayFits
    <2>2. CASE h \notin Mag
      <3>1. w = [attr |-> "delay_fusion", value |-> d, must |-> TRUE]
        BY <2>2 DEF To
      <3>2. "delay_fusion" \in Attributes \ Switches
        BY DEF Attributes, Switches
      <3> HIDE DEF w
      <3> QED
        BY <2>2, <3>1, <3>2, DelayFits
    <2> QED
      BY <2>1, <2>2
  <1> HIDE DEF w
  <1>6. writes \in Seq(Writes) /\ Len(writes) = 1 /\ writes[1] = w
    BY <1>5
  <1> HIDE DEF writes
  <1>7. \A i \in 1 .. Len(writes) :
            Brings(writes[i], akmEnabled', mDelay') /\ (writes[i].must => i = Len(writes))
    BY <1>5, <1>6
  <1>8. call' # Idle /\ call'.writes = writes /\ call' \in HalCalls'
    BY <1>3, <1>6 DEF Idle, HalCalls
  <1>9. \/ \A k \in Mag : mDelay'[k] = mDelay[k]
        \/ \E i \in 1 .. Len(writes) : writes[i].attr = "delay_mag"
    <2>1. CASE h \in Mag
      BY <1>5, <1>6, <2>1
    <2>2. CASE h \notin Mag
      BY <1>4, <2>2 DEF Akm
    <2> QED
      BY <2>1, <2>2
  <1>10. WritesFit' /\ CompassFits'
    <2>1. akmEnabled' \cap Mag = akmEnabled \cap Mag /\ akmEnabled' \cap Ori = akmEnabled \cap Ori
      BY <1>1
    <2> QED
      BY <1>6, <1>7, <1>8, <1>9, <2>1, BeginningFits
  <1> QED
    BY <1>1, <1>2, <1>3, <1>8, <1>10 DEF CallTypes, AkmKnows

(* The write of an attribute, which an attribute with its name meets *)
LEMMA WriteKeeps ==
    ASSUME AkmTypes, CallTypes, WritesFit, CompassFits, AkmKnows, compass \in Compasses,
           WriteAttribute
    PROVE  CallTypes' /\ WritesFit' /\ CompassFits' /\ AkmKnows' /\ compass' \in Compasses
  <1> DEFINE w == Head(call.writes)
             rest == Tail(call.writes)
  <1>1. call # Idle /\ call \in HalCalls /\ call.writes \in Seq(Writes) /\ call.writes # <<>>
    BY DEF WriteAttribute, CallTypes, HalCalls
  <1>2. /\ w = call.writes[1] /\ 1 \in 1 .. Len(call.writes) /\ w \in Writes
        /\ rest \in Seq(Writes) /\ Len(rest) = Len(call.writes) - 1
        /\ \A i \in 1 .. Len(rest) : rest[i] = call.writes[i + 1] /\ i + 1 \in 1 .. Len(call.writes)
        /\ \A i \in 1 .. Len(call.writes) : i = 1 \/ (i - 1 \in 1 .. Len(rest) /\ call.writes[i] = rest[i - 1])
    BY <1>1
  <1>3. Brings(w, akmEnabled, mDelay) /\ (w.must => Len(call.writes) = 1) /\ w.attr \in Attributes
    <2>1. Brings(w, akmEnabled, mDelay) /\ (w.must => Len(call.writes) = 1)
      BY <1>1, <1>2 DEF WritesFit
    <2> QED
      BY <1>2, <2>1 DEF Writes
  <1>4. UNCHANGED <<akmEnabled, mDelay, on, used>>
    BY DEF WriteAttribute
  <1> HIDE DEF w, rest
  <1>5. ASSUME NEW i \in 1 .. Len(rest)
        PROVE  Brings(rest[i], akmEnabled, mDelay) /\ (rest[i].must => i = Len(rest))
    <2>1. rest[i] = call.writes[i + 1] /\ i + 1 \in 1 .. Len(call.writes)
      BY <1>2
    <2>2. /\ Brings(call.writes[i + 1], akmEnabled, mDelay)
          /\ call.writes[i + 1].must => i + 1 = Len(call.writes)
      BY <1>1, <2>1 DEF WritesFit
    <2>3. i \in Nat /\ Len(rest) \in Nat /\ Len(rest) = Len(call.writes) - 1
      BY <1>1, <1>2
    <2> QED
      BY <2>1, <2>2, <2>3
  <1>6. ASSUME NEW attr, attr # w.attr, \A i \in 1 .. Len(rest) : rest[i].attr # attr
        PROVE  \A i \in 1 .. Len(call.writes) : call.writes[i].attr # attr
    <2> TAKE i \in 1 .. Len(call.writes)
    <2>1. i = 1 \/ (i - 1 \in 1 .. Len(rest) /\ call.writes[i] = rest[i - 1])
      BY <1>2
    <2> QED
      BY <1>2, <1>6, <2>1
  <1>7. CASE input_sysfs_path = w.attr
    <2>1. /\ compass' = [compass EXCEPT ![w.attr] = w.value]
          /\ lost' = lost \ {w.attr}
          /\ call' = [call EXCEPT !.writes = rest, !.pointed = FALSE]
      BY <1>7 DEF WriteAttribute, w, rest
    <2>2. /\ call' # Idle /\ call' \in HalCalls' /\ call'.writes = rest /\ call'.op = call.op
          /\ call'.arg = call.arg /\ call'.handle = call.handle
      BY <1>1, <1>2, <1>4, <2>1 DEF HalCalls, Idle
    <2>3. compass' \in Compasses
      BY <1>3, <2>1 DEF Compasses, Attributes, Switches, Brings
    <2>4. WritesFit'
      BY <1>4, <1>5, <2>2 DEF WritesFit
    <2>5. \A attr : Settled(attr)' /\ attr # w.attr => Settled(attr)
      <3> SUFFICES ASSUME NEW attr, Settled(attr)', attr # w.attr PROVE Settled(attr)
        OBVIOUS
      <3>1. attr \notin lost' /\ \A i \in 1 .. Len(rest) : rest[i].attr # attr
        BY <2>2 DEF Settled
      <3> QED
        BY <1>6, <2>1, <3>1 DEF Settled
    <2>6. /\ w.attr = "enable_mag" => compass'.enable_mag = w.value
          /\ w.attr # "enable_mag" => compass'.enable_mag = compass.enable_mag
          /\ w.attr = "enable_fusion" => compass'.enable_fusion = w.value
          /\ w.attr # "enable_fusion" => compass'.enable_fusion = compass.enable_fusion
          /\ w.attr = "delay_mag" => compass'.delay_mag = w.value
          /\ w.attr # "delay_mag" => compass'.delay_mag = compass.delay_mag
      BY <2>1 DEF Compasses
    <2>7. CompassFits'
      <3>1. Settled("enable_mag")' => compass'.enable_mag = Digit(akmEnabled \cap Mag)
        BY <1>3, <2>5, <2>6 DEF Brings, CompassFits
      <3>2. Settled("enable_fusion")' => compass'.enable_fusion = Digit(akmEnabled \cap Ori)
        BY <1>3, <2>5, <2>6 DEF Brings, CompassFits
      <3>3. Settled("delay_mag")' => \A h \in akmEnabled \cap Mag : compass'.delay_mag <= mDelay[h]
        BY <1>3, <2>5, <2>6 DEF Brings, CompassFits
      <3> QED
        BY <1>4, <3>1, <3>2, <3>3 DEF CompassFits
    <2>8. CallTypes'
      <3>1. lost' \subseteq Attributes
        BY <2>1 DEF CallTypes
      <3>2. call'.op = "delay" => call'.arg \in Delays
        BY <1>1, <2>2 DEF CallTypes
      <3> QED
        BY <1>4, <2>2, <3>1, <3>2 DEF CallTypes
    <2>9. AkmKnows'
      BY <1>1, <1>4, <2>2 DEF AkmKnows
    <2> QED
      BY <2>3, <2>4, <2>7, <2>8, <2>9
  <1>8. CASE input_sysfs_path # w.attr
    <2>1. /\ compass' = compass
          /\ lost' = lost \cup {w.attr}
          /\ call' = IF w.must THEN Idle ELSE [call EXCEPT !.writes = rest, !.pointed = FALSE]
      BY <1>8 DEF WriteAttribute, w, rest
    <2>2. CASE w.must
      <3>1. call' = Idle
        BY <2>1, <2>2
      <3>2. \A attr : Settled(attr)' => Settled(attr)
        <4> SUFFICES ASSUME NEW attr, Settled(attr)' PROVE Settled(attr)
          OBVIOUS
        <4>1. attr \notin lost' /\ attr # w.attr
          BY <2>1 DEF Settled
        <4>2. Len(rest) = 0
          BY <1>2, <1>3, <2>2
        <4>3. \A i \in 1 .. Len(rest) : rest[i].attr # attr
          BY <4>2
        <4> QED
          BY <1>6, <2>1, <4>1, <4>3 DEF Settled
      <3>3. CompassFits'
        BY <1>4, <2>1, <3>2 DEF CompassFits
      <3> QED
        BY <1>3, <1>4, <2>1, <3>1, <3>3 DEF CallTypes, WritesFit, AkmKnows
    <2>3. CASE ~w.must
      <3>1. call' = [call EXCEPT !.writes = rest, !.pointed = FALSE]
        BY <2>1, <2>3
      <3>2. /\ call' # Idle /\ call' \in HalCalls' /\ call'.writes = rest /\ call'.op = call.op
            /\ call'.arg = call.arg /\ call'.handle = call.handle
        BY <1>1, <1>2, <1>4, <3>1 DEF HalCalls, Idle
      <3>3. WritesFit'
        BY <1>4, <1>5, <3>2 DEF WritesFit
      <3>4. \A attr : Settled(attr)' => Settled(attr)
        <4> SUFFICES ASSUME NEW attr, Settled(attr)' PROVE Settled(attr)
          OBVIOUS
        <4>1. attr \notin lost' /\ attr # w.attr /\ \A i \in 1 .. Len(rest) : rest[i].attr # attr
          BY <2>1, <3>2 DEF Settled
        <4> QED
          BY <1>6, <2>1, <4>1 DEF Settled
      <3>5. CompassFits'
        BY <1>4, <2>1, <3>4 DEF CompassFits
      <3>6. CallTypes'
        <4>1. lost' \subseteq Attributes
          BY <1>3, <2>1 DEF CallTypes
        <4>2. call'.op = "delay" => call'.arg \in Delays
          BY <1>1, <3>2 DEF CallTypes
        <4> QED
          BY <1>4, <3>2, <4>1, <4>2 DEF CallTypes
      <3>7. AkmKnows'
        BY <1>1, <1>4, <3>2 DEF AkmKnows
      <3> QED
        BY <2>1, <3>3, <3>5, <3>6, <3>7
    <2> QED
      BY <2>2, <2>3
  <1> QED
    BY <1>7, <1>8

-----------------------------------------------------------------------------
(* The calls of the framework                                              *)

(* What the hub has to say does not concern them *)
LEMMA ServingRests ==
    ASSUME ServingInv, hub' \in HubStates, hub'.delay = hub.delay,
           UNCHANGED <<hubVars, akmEnabled, mDelay, used, call, on, lost, compass>>
    PROVE  ServingInv'
  <1>1. HubTypes' /\ HubKnows' /\ HubFits'
    BY DEF ServingInv, HubTypes, HubKnows, HubFits, hubVars
  <1>2. AkmTypes' /\ CallTypes' /\ compass' \in Compasses
    BY DEF ServingInv, AkmTypes, CallTypes, HalCalls
  <1>3. WritesFit' /\ CompassFits' /\ AkmKnows'
    BY DEF ServingInv, WritesFit, CompassFits, AkmKnows, Settled
  <1> QED
    BY <1>1, <1>2, <1>3 DEF ServingInv

LEMMA ActivateKeeps ==
    ASSUME ServingInv, NEW h \in used, NEW en \in BOOLEAN, activate(h, en)
    PROVE  ServingInv'
  <1>1. call = Idle /\ UNCHANGED <<used, lost, compass>>
    BY DEF activate, Called, driverVars
  <1>2. h \in Akm \cup Hub
    BY SensorAssumption DEF ServingInv, CallTypes
  <1>3. CASE h \in Akm
    <2>1. /\ AkmSetEnable(h, en)
          /\ on' = IF en THEN on ELSE on \ {h}
          /\ UNCHANGED <<hubVars, hub>>
      BY <1>3 DEF activate
    <2>2. AkmTypes' /\ CallTypes' /\ WritesFit' /\ CompassFits' /\ AkmKnows'
      BY <1>1, <1>3, <2>1, AkmEnableKeeps DEF ServingInv
    <2>3. on' = on \/ on' = on \ {h}
      BY <2>1
    <2>4. HubTypes' /\ HubKnows' /\ HubFits'
      BY <1>1, <1>3, <2>1, <2>3, GoingOffKeeps DEF ServingInv
    <2> QED
      BY <1>1, <2>2, <2>4 DEF ServingInv
  <1>4. CASE h \notin Akm
    <2>1. /\ HubSetEnable(h, en)
          /\ on' = Switched(on, h, en)
          /\ UNCHANGED <<akmEnabled, mDelay, call>>
      BY <1>4 DEF activate, Returned
    <2>2. HubTypes' /\ HubKnows' /\ HubFits'
      BY <1>1, <1>2, <2>1, HubEnableKeeps DEF ServingInv
    <2>3. on' \subseteq used /\ on' \cap Akm = on \cap Akm
      BY <1>4, <2>1 DEF Switched, ServingInv, CallTypes
    <2>4. AkmTypes' /\ CallTypes' /\ AkmKnows' /\ WritesFit' /\ CompassFits'
      BY <1>1, <2>1, <2>3 DEF ServingInv, AkmTypes, CallTypes, HalCalls, AkmKnows, WritesFit,
         CompassFits, Settled
    <2> QED
      BY <1>1, <2>2, <2>4 DEF ServingInv
  <1> QED
    BY <1>3, <1>4

LEMMA SetDelayKeeps ==
    ASSUME ServingInv, NEW h \in used, NEW d \in Delays, setDelay(h, d)
    PROVE  ServingInv'
  <1>1. call = Idle /\ UNCHANGED <<used, on, lost, compass>>
    BY DEF setDelay, Called, driverVars
  <1>2. CASE h \in Akm
    <2>1. AkmSetDelay(h, d) /\ UNCHANGED <<hubVars, hub>>
      BY <1>2 DEF setDelay
    <2>2. AkmTypes' /\ CallTypes' /\ WritesFit' /\ CompassFits' /\ AkmKnows'
      BY <1>1, <1>2, <2>1, AkmDelayKeeps DEF ServingInv
    <2>3. HubTypes' /\ HubKnows' /\ HubFits'
      BY <1>1, <1>2, <2>1, GoingOffKeeps DEF ServingInv
    <2> QED
      BY <1>1, <2>2, <2>3 DEF ServingInv
  <1>3. CASE h \notin Akm
    <2>1. HubSetDelay(h, d) /\ UNCHANGED <<akmEnabled, mDelay, call>>
      BY <1>3 DEF setDelay
    <2>2. HubTypes' /\ HubKnows' /\ HubFits'
      BY <1>1, <2>1, HubDelayKeeps DEF ServingInv
    <2>3. AkmTypes' /\ CallTypes' /\ AkmKnows' /\ WritesFit' /\ CompassFits'
      BY <1>1, <2>1 DEF ServingInv, AkmTypes, CallTypes, HalCalls, AkmKnows, WritesFit,
         CompassFits, Settled
    <2> QED
      BY <1>1, <2>2, <2>3 DEF ServingInv
  <1> QED
    BY <1>2, <1>3

(* The compass has been told, and the hub is *)
LEMMA FinishKeeps ==
    ASSUME ServingInv, Finish
    PROVE  ServingInv'
  <1>1. /\ call # Idle /\ call \in HalCalls /\ call.writes = <<>> /\ call' = Idle
        /\ call.handle \in Akm /\ call.handle \in used
        /\ UNCHANGED <<akmEnabled, mDelay, used, lost, compass>>
    BY DEF Finish, ServingInv, CallTypes, HalCalls, driverVars
  <1>2. \A attr : Settled(attr)' => Settled(attr)
    BY <1>1 DEF Settled
  <1>3. AkmTypes' /\ WritesFit' /\ CompassFits'
    BY <1>1, <1>2 DEF ServingInv, AkmTypes, WritesFit, CompassFits
  <1>4. on' \subseteq used /\ on' \cap Akm \subseteq akmEnabled
    BY <1>1 DEF Finish, Returned, Switched, ServingInv, CallTypes, AkmKnows
  <1>5. CallTypes' /\ AkmKnows'
    BY <1>1, <1>4 DEF ServingInv, CallTypes, AkmKnows
  <1>6. HubTypes' /\ HubKnows' /\ HubFits'
    <2>1. CASE call.op = "enable"
      <3>1. on' = Switched(on, call.handle, call.arg)
        BY <2>1 DEF Finish, Returned
      <3>2. CASE call.handle \in Ori
        BY <1>1, <2>1, <3>1, <3>2, HubEnableKeeps DEF Finish, ServingInv
      <3>3. CASE call.handle \notin Ori
        <4>1. UNCHANGED <<hubVars, hub>>
          BY <2>1, <3>3 DEF Finish
        <4>2. call.handle \in Mag
          BY <1>1, <3>3 DEF Akm
        <4>3. /\ on' \cap Glances = on \cap Glances /\ on' \cap {"P"} = on \cap {"P"}
              /\ on' \cap Fusion = on \cap Fusion
          BY <3>1, <4>2 DEF Switched, Mag, Glances, Fusion
        <4> QED
          BY <1>1, <4>1, <4>3 DEF ServingInv, HubTypes, HubKnows, HubFits, hubVars
      <3> QED
        BY <3>2, <3>3
    <2>2. CASE call.op # "enable"
      <3>1. on' = on
        BY <2>2 DEF Finish
      <3>2. CASE call.handle \in Ori
        <4>1. HubSetDelay(call.handle, call.arg)
          BY <2>2, <3>2 DEF Finish
        <4>2. call.arg \in Delays
          BY <1>1, <2>2 DEF HalCalls, ServingInv, CallTypes
        <4> QED
          BY <1>1, <3>1, <4>1, <4>2, HubDelayKeeps DEF ServingInv
      <3>3. CASE call.handle \notin Ori
        <4>1. UNCHANGED <<hubVars, hub>>
          BY <2>2, <3>3 DEF Finish
        <4> QED
          BY <1>1, <3>1, <4>1, GoingOffKeeps DEF ServingInv
      <3> QED
        BY <3>2, <3>3
    <2> QED
      BY <2>1, <2>2
  <1> QED
    BY <1>1, <1>3, <1>5, <1>6 DEF ServingInv

LEMMA PointKeeps ==
    ASSUME ServingInv, Point
    PROVE  ServingInv'
  <1>1. /\ call # Idle /\ call \in HalCalls
        /\ call' = [call EXCEPT !.pointed = TRUE]
        /\ UNCHANGED <<hubVars, akmEnabled, mDelay, used, on, lost, hub, compass>>
    BY DEF Point, ServingInv, CallTypes, driverVars
  <1>2. /\ call' # Idle /\ call' \in HalCalls' /\ call'.writes = call.writes
        /\ call'.op = call.op /\ call'.arg = call.arg /\ call'.handle = call.handle
    BY <1>1 DEF HalCalls, Idle
  <1>3. \A attr : Settled(attr)' <=> Settled(attr)
    BY <1>1, <1>2 DEF Settled
  <1>4. WritesFit' /\ CompassFits' /\ AkmKnows'
    BY <1>1, <1>2, <1>3 DEF ServingInv, WritesFit, CompassFits, AkmKnows
  <1>5. HubTypes' /\ HubKnows' /\ HubFits' /\ AkmTypes' /\ CallTypes'
    BY <1>1, <1>2 DEF ServingInv, HubTypes, HubKnows, HubFits, AkmTypes, CallTypes, hubVars
  <1> QED
    BY <1>1, <1>4, <1>5 DEF ServingInv

-----------------------------------------------------------------------------
(* The buffer of poll()                                                    *)

LEMMA OnlyIsShort ==
    ASSUME NEW S, NEW h \in S, NEW sensors
    PROVE  Only(h, sensors) \in Seq(S) /\ Len(Only(h, sensors)) <= 1
  BY DEF Only

LEMMA EventsFit ==
    ASSUME NEW record
    PROVE  Events(record) \in Seq(Reported) /\ Len(Events(record)) <= 2
  <1>1. {"A", "FLUSH", "GLANCE", "MOTO_GLANCE"} \subseteq Reported
    BY DEF Reported, Hub, Wake, Glances
  <1>2. CASE record = "ACCEL"
    BY <1>1, <1>2 DEF Events
  <1>3. CASE record = "FLUSH"
    BY <1>1, <1>3 DEF Events
  <1>4. CASE record = "GLANCE"
    <2> DEFINE moved == Only("MOTO_GLANCE", mEnabledHandles)
               glanced == Only("GLANCE", mEnabledHandles)
    <2>1. moved \in Seq(Reported) /\ Len(moved) <= 1
      BY <1>1, OnlyIsShort
    <2>2. glanced \in Seq(Reported) /\ Len(glanced) <= 1
      BY <1>1, OnlyIsShort
    <2>3. Events(record) = moved \o glanced
      BY <1>4 DEF Events
    <2> HIDE DEF moved, glanced
    <2> QED
      BY <2>1, <2>2, <2>3
  <1>5. CASE record \notin {"ACCEL", "FLUSH", "GLANCE"}
    BY <1>5 DEF Events
  <1> QED
    BY <1>2, <1>3, <1>4, <1>5

LEMMA SmallerOfTwo ==
    ASSUME NEW a \in Nat, NEW b \in Nat
    PROVE  Min({a, b}) \in Nat /\ Min({a, b}) <= a /\ Min({a, b}) <= b
  <1> DEFINE S == {a, b}
  <1>1. S = {a, b, b}
    OBVIOUS
  <1>2. Min(S) \in S /\ \A x \in S : Min(S) <= x
    <2> HIDE DEF S
    <2> QED
      BY <1>1, LeastOfThree
  <1> QED
    BY <1>2

(* The events of AkmSensor are no more than there is room for *)
LEMMA PassedFits ==
    ASSUME NEW pending, Unread \in Nat
    PROVE  Passed(pending) \in Seq(Akm) /\ Len(Passed(pending)) <= Unread
  <1> DEFINE sensors == pending \cap akmEnabled
             enabled == InOrder(sensors)
             n == Min({Unread, Len(enabled)})
  <1>1. enabled \in Seq(Akm)
    <2>1. Order[1] \in Akm /\ Order[2] \in Akm /\ Order[3] \in Akm /\ Order[4] \in Akm
      BY DEF Order, Akm, Mag, Ori
    <2>2. /\ Only(Order[1], sensors) \in Seq(Akm) /\ Only(Order[2], sensors) \in Seq(Akm)
          /\ Only(Order[3], sensors) \in Seq(Akm) /\ Only(Order[4], sensors) \in Seq(Akm)
      BY <2>1, OnlyIsShort
    <2> HIDE DEF sensors
    <2> QED
      BY <2>2 DEF InOrder
  <1>2. Passed(pending) = SubSeq(enabled, 1, n)
    BY DEF Passed
  <1> HIDE DEF enabled
  <1>3. Len(enabled) \in Nat
    BY <1>1
  <1>4. n \in Nat /\ n <= Unread /\ n <= Len(enabled)
    BY <1>3, SmallerOfTwo
  <1> HIDE DEF n
  <1>5. SubSeq(enabled, 1, n) \in Seq(Akm) /\ Len(SubSeq(enabled, 1, n)) = n
    BY <1>1, <1>4
  <1> QED
    BY <1>2, <1>4, <1>5

LEMMA FillFits ==
    ASSUME PollTypes, InputTypes
    PROVE  /\ fill.reader \in Seq(SUBSET Akm) /\ Len(fill.reader) <= NumEvents
           /\ fill.unread \in Seq(SUBSET Akm) /\ Len(fill.unread) <= MaxInputs
  <1> DEFINE space == NumEvents - Len(mInputReader)
             n == Min({space, Len(inputs)})
  <1>1. /\ mInputReader \in Seq(SUBSET Akm) /\ inputs \in Seq(SUBSET Akm)
        /\ Len(mInputReader) <= NumEvents /\ Len(inputs) <= MaxInputs
        /\ NumEvents \in Nat
    BY SensorAssumption DEF PollTypes, InputTypes
  <1>2. space \in Nat /\ Len(inputs) \in Nat
    BY <1>1
  <1>3. n \in Nat /\ n <= space /\ n <= Len(inputs)
    <2> HIDE DEF space
    <2> QED
      BY <1>2, SmallerOfTwo
  <1>4. /\ fill.reader = mInputReader \o SubSeq(inputs, 1, n)
        /\ fill.unread = SubSeq(inputs, n + 1, Len(inputs))
    BY DEF fill
  <1> HIDE DEF n
  <1>5. SubSeq(inputs, 1, n) \in Seq(SUBSET Akm) /\ Len(SubSeq(inputs, 1, n)) = n
    BY <1>1, <1>3
  <1>6. /\ SubSeq(inputs, n + 1, Len(inputs)) \in Seq(SUBSET Akm)
        /\ Len(SubSeq(inputs, n + 1, Len(inputs))) <= Len(inputs)
    BY <1>1, <1>3
  <1>7. fill.reader \in Seq(SUBSET Akm) /\ Len(fill.reader) = Len(mInputReader) + n
    BY <1>1, <1>4, <1>5
  <1>8. Len(fill.reader) <= NumEvents
    BY <1>1, <1>3, <1>7
  <1>9. Len(fill.unread) <= MaxInputs
    <2>1. fill.unread \in Seq(SUBSET Akm) /\ MaxInputs \in Nat
      BY <1>4, <1>6, AkmdAssumption
    <2>2. Len(fill.unread) <= Len(inputs)
      BY <1>4, <1>6
    <2>3. Len(fill.unread) \in Nat
      BY <2>1
    <2> QED
      BY <1>1, <1>2, <2>1, <2>2, <2>3
  <1> QED
    BY <1>4, <1>6, <1>7, <1>8, <1>9

LEMMA ReadingKeeps ==
    ASSUME PollTypes, InputTypes, hub \in HubStates,
           poll \/ HubReadEvents \/ setAccel \/ AkmReadEvents \/ pollReturns
    PROVE  PollTypes' /\ InputTypes' /\ hub' \in HubStates /\ hub'.delay = hub.delay
  <1>1. Count \in Nat /\ Count >= 2
    BY SensorAssumption
  <1>2. CASE poll \/ setAccel \/ pollReturns
    <2>1. /\ UNCHANGED <<mPendingMask, mInputReader, inputs, hub>>
          /\ data' = <<>> \/ data' = data
          /\ poller' \in {"poll", "hub", "accel", "akm", "events", "return"}
      BY <1>2 DEF poll, setAccel, pollReturns, readVars, driverVars
    <2>2. <<>> \in Seq(Reported) /\ Len(<<>>) = 0
      OBVIOUS
    <2>3. data' \in Seq(Reported) /\ Len(data') <= Count
      <3>1. CASE data' = <<>>
        BY <1>1, <2>2, <3>1
      <3>2. CASE data' = data
        BY <3>2 DEF PollTypes
      <3> QED
        BY <2>1, <3>1, <3>2
    <2> QED
      BY <2>1, <2>3 DEF PollTypes, InputTypes
  <1>3. CASE HubReadEvents
    <2>1. UNCHANGED <<mPendingMask, mInputReader, inputs>>
      BY <1>3 DEF HubReadEvents, readVars, driverVars
    <2>2. CASE hub.records # <<>> /\ HasRoom
      <3> DEFINE events == Events(Head(hub.records))
      <3>1. data' = data \o events /\ hub' = [hub EXCEPT !.records = Tail(@)] /\ poller' = poller
        BY <1>3, <2>2 DEF HubReadEvents
      <3>2. events \in Seq(Reported) /\ Len(events) <= 2
        BY EventsFit
      <3> HIDE DEF events
      <3>3. data' \in Seq(Reported) /\ Len(data') <= Count
        BY <1>1, <2>2, <3>1, <3>2 DEF PollTypes, HasRoom, Unread
      <3>4. Tail(hub.records) \in Seq(Records)
        BY <2>2 DEF HubStates
      <3>5. hub' \in HubStates /\ hub'.delay = hub.delay
        BY <3>1, <3>4 DEF HubStates
      <3> QED
        BY <2>1, <3>1, <3>3, <3>5 DEF PollTypes, InputTypes
    <2>3. CASE ~(hub.records # <<>> /\ HasRoom)
      BY <1>3, <2>1, <2>3 DEF HubReadEvents, PollTypes, InputTypes
    <2> QED
      BY <2>2, <2>3
  <1>4. CASE AkmReadEvents
    <2> DEFINE filled == IF poller = "akm" THEN fill.reader ELSE mInputReader
               pending == mPendingMask \cup Head(filled)
    <2>1. hub' = hub
      BY <1>4 DEF AkmReadEvents
    <2>2. CASE Unread > 0 /\ "akm" \in revents /\ filled # <<>>
      <3>1. /\ data' = data \o Passed(pending)
            /\ mPendingMask' = Left(pending)
            /\ mInputReader' = IF Left(pending) = {} THEN Tail(filled) ELSE <<{}>> \o Tail(filled)
            /\ inputs' = IF poller = "akm" THEN fill.unread ELSE inputs
            /\ poller' = "events"
        BY <1>4, <2>2 DEF AkmReadEvents
      <3>2. filled \in Seq(SUBSET Akm) /\ Len(filled) <= NumEvents
        BY FillFits DEF PollTypes
      <3>3. inputs' \in Seq(SUBSET Akm) /\ Len(inputs') <= MaxInputs
        BY <3>1, FillFits DEF InputTypes
      <3> HIDE DEF filled
      <3>4. /\ Head(filled) \in SUBSET Akm /\ Tail(filled) \in Seq(SUBSET Akm)
            /\ Len(Tail(filled)) = Len(filled) - 1 /\ Len(filled) \in Nat
        BY <2>2, <3>2
      <3>5. pending \subseteq Akm
        BY <3>4 DEF PollTypes
      <3> HIDE DEF pending
      <3>6. mPendingMask' \subseteq Akm
        BY <3>1, <3>5 DEF Left
      <3>7. mInputReader' \in Seq(SUBSET Akm) /\ Len(mInputReader') <= NumEvents
        <4> DEFINE rest == Tail(filled)
                   held == <<{}>> \o rest
        <4>1. <<{}>> \in Seq(SUBSET Akm) /\ Len(<<{}>>) = 1
          OBVIOUS
        <4> HIDE DEF rest
        <4>2. rest \in Seq(SUBSET Akm) /\ Len(rest) = Len(filled) - 1
          BY <3>4 DEF rest
        <4>3. held \in Seq(SUBSET Akm) /\ Len(held) = 1 + Len(rest)
          BY <4>1, <4>2
        <4>4. NumEvents \in Nat
          BY SensorAssumption
        <4>5. mInputReader' = rest \/ mInputReader' = held
          BY <3>1 DEF rest
        <4> HIDE DEF held
        <4> QED
          BY <3>2, <3>4, <4>2, <4>3, <4>4, <4>5
      <3>8. data' \in Seq(Reported) /\ Len(data') <= Count
        <4>1. Unread \in Nat /\ Unread = Count - Len(data) /\ data \in Seq(Reported)
          BY <1>1, <2>2 DEF Unread, PollTypes
        <4>2. Passed(pending) \in Seq(Akm) /\ Len(Passed(pending)) <= Unread
          BY <4>1, PassedFits
        <4>3. Passed(pending) \in Seq(Reported)
          BY <4>2 DEF Reported
        <4> QED
          BY <1>1, <3>1, <4>1, <4>2, <4>3
      <3> QED
        BY <2>1, <3>1, <3>3, <3>6, <3>7, <3>8 DEF PollTypes, InputTypes
    <2>3. CASE ~(Unread > 0 /\ "akm" \in revents /\ filled # <<>>)
      BY <1>4, <2>1, <2>3 DEF AkmReadEvents, PollTypes, InputTypes, readVars
    <2> QED
      BY <2>2, <2>3
  <1> QED
    BY <1>2, <1>3, <1>4

-----------------------------------------------------------------------------
(* The daemon                                                              *)

LEMMA DiesFits ==
    ASSUME DaemonTypes, Dies, faults' \in Nat, faults' # 0, UNCHANGED <<file, found>>
    PROVE  DaemonTypes' /\ CalibrationFits'
  <1>1. 0 \in 0 .. MaxFound
    BY AkmdAssumption
  <1> QED
    BY <1>1 DEF DaemonTypes, Dies, CalibrationFits, SetDefaultPRMS

LEMMA FaultCounts ==
    ASSUME DaemonTypes, Fault
    PROVE  faults' \in Nat /\ faults' # 0
  BY DEF DaemonTypes, Fault

LEMMA LoadedFits ==
    ASSUME DaemonTypes
    PROVE  /\ LoadParameters \in 0 .. MaxFound
           /\ file = <<found>> => LoadParameters = found
           /\ file = NoData => LoadParameters = 0
  <1>1. 0 \in 0 .. MaxFound
    BY AkmdAssumption
  <1>2. file # <<>> => Head(file) \in 0 .. MaxFound
    BY DEF DaemonTypes
  <1> QED
    BY <1>1, <1>2 DEF LoadParameters, SetDefaultPRMS, NoData

LEMMA MainKeeps ==
    ASSUME DaemonTypes, CalibrationFits, Main \/ Kill
    PROVE  DaemonTypes' /\ CalibrationFits'
  <1> USE DEF DaemonTypes, CalibrationFits, threadVars, dataVars
  <1>1. CASE Start
    BY <1>1 DEF Start
  <1>2. CASE OpenStatus
    <2>1. CASE Fault /\ Dies
      BY <1>2, <2>1, DiesFits, FaultCounts DEF OpenStatus
    <2>2. CASE ~(Fault /\ Dies)
      BY <1>2, <2>2, LoadedFits DEF OpenStatus
    <2> QED
      BY <2>1, <2>2
  <1>3. CASE CloseStatus
    <2>1. UNCHANGED <<prms, file, found, thread>> /\ main = "close" /\ main' = "join"
      BY <1>3 DEF CloseStatus
    <2>2. CASE Fault
      BY <2>1, <2>2, FaultCounts
    <2>3. CASE ~Fault
      BY <1>3, <2>1, <2>3 DEF CloseStatus
    <2> QED
      BY <2>2, <2>3
  <1>4. CASE Join
    BY <1>4 DEF Join
  <1>5. CASE SaveOpen
    <2>1. CASE file' = NoData /\ main' = "write" /\ UNCHANGED <<thread, g_mainQuit, prms, faults>>
      BY <1>5, <2>1 DEF SaveOpen, NoData
    <2>2. CASE Fault /\ Saved /\ UNCHANGED file
      <3>1. faults' \in Nat /\ faults' # 0 /\ found' = found
        BY <1>5, <2>2, FaultCounts DEF SaveOpen
      <3>2. CASE Dies
        BY <2>2, <3>1, <3>2, DiesFits
      <3>3. CASE ~Dies
        BY <2>2, <3>1, <3>3 DEF Saved
      <3> QED
        BY <3>2, <3>3
    <2> QED
      BY <1>5, <2>1, <2>2 DEF SaveOpen
  <1>6. CASE SaveWrite
    <2>1. /\ file' \in Seq(0 .. MaxFound) /\ found' = found /\ faults' \in Nat
          /\ faults' = 0 => faults = 0 /\ file' = <<prms>>
      <3>1. <<prms>> \in Seq(0 .. MaxFound)
        OBVIOUS
      <3>2. CASE Fault /\ UNCHANGED file
        BY <1>6, <3>2, FaultCounts DEF SaveWrite
      <3>3. CASE file' = <<prms>> /\ UNCHANGED faults
        BY <1>6, <3>1, <3>3 DEF SaveWrite
      <3> QED
        BY <1>6, <3>2, <3>3 DEF SaveWrite
    <2>2. CASE g_mainQuit
      <3>1. Dies /\ faults' # 0
        BY <1>6, <2>1, <2>2 DEF SaveWrite, Saved
      <3>2. 0 \in 0 .. MaxFound
        BY AkmdAssumption
      <3> QED
        BY <2>1, <3>1, <3>2 DEF Dies, SetDefaultPRMS
    <2>3. CASE ~g_mainQuit
      <3>1. main = "write" /\ main' = "open" /\ UNCHANGED <<thread, g_mainQuit, prms>>
        BY <1>6, <2>3 DEF SaveWrite, Saved
      <3> QED
        BY <2>1, <2>3, <3>1
    <2> QED
      BY <2>2, <2>3
  <1>7. CASE Kill
    BY <1>7, DiesFits, FaultCounts DEF Kill
  <1> QED
    BY <1>1, <1>2, <1>3, <1>4, <1>5, <1>6, <1>7 DEF Main

LEMMA MeasuringKeeps ==
    ASSUME DaemonTypes, CalibrationFits,
           \/ MeasureStarts \/ GetMagneticVector \/ GetAccelerationData \/ ReportMag
           \/ ReportFusion \/ Setting \/ LoopEnds
    PROVE  DaemonTypes' /\ CalibrationFits'
  <1>1. UNCHANGED <<main, g_mainQuit, file>>
    BY DEF MeasureStarts, GetMagneticVector, GetAccelerationData, ReportMag, ReportFusion,
       Report, Setting, LoopEnds, mainVars, dataVars
  <1>2. CASE GetMagneticVector
    <2>1. /\ thread = "loop" /\ thread' = thread /\ faults' = faults
          /\ found' = found + 1 /\ prms' = found + 1 /\ found < MaxFound
      BY <1>2 DEF GetMagneticVector, Looping, Estimate, threadVars
    <2>2. found' \in 0 .. MaxFound /\ prms' \in 0 .. MaxFound
      BY <2>1, AkmdAssumption DEF DaemonTypes
    <2>3. DaemonTypes'
      BY <1>1, <2>1, <2>2 DEF DaemonTypes
    <2>4. faults = 0 => main \in {"close", "join"}
      BY <2>1 DEF CalibrationFits, DaemonTypes
    <2> QED
      BY <1>1, <2>1, <2>3, <2>4 DEF CalibrationFits
  <1>3. CASE ~GetMagneticVector
    <2>1. /\ UNCHANGED <<prms, found>> /\ thread \in {"init", "loop"}
          /\ thread' \in {"off", "init", "loop", "done"}
          /\ faults' = faults \/ Fault
      BY <1>3 DEF MeasureStarts, GetAccelerationData, ReportMag, ReportFusion,
         Report, Setting, LoopEnds, Ends, Looping, threadVars, dataVars
    <2>2. faults' \in Nat /\ (faults' = 0 => faults = 0)
      BY <2>1, FaultCounts DEF DaemonTypes
    <2> QED
      BY <1>1, <2>1, <2>2 DEF DaemonTypes, CalibrationFits
  <1> QED
    BY <1>2, <1>3

LEMMA ReportsFit ==
    ASSUME InputTypes, NEW valid \in SUBSET Akm, Report(valid)
    PROVE  InputTypes'
  <1>1. MaxInputs \in Nat
    BY AkmdAssumption
  <1> QED
    BY <1>1 DEF InputTypes, Report

-----------------------------------------------------------------------------
(* All of it                                                               *)

LEMMA SensorsBegin == Init => SensorInv
  <1> SUFFICES ASSUME Init PROVE SensorInv
    OBVIOUS
  <1>1. used \in Handles /\ on = {} /\ call = Idle /\ lost = {} /\ akmEnabled = {}
    BY DEF Init, HalInit
  <1>2. PICK delays \in [used -> Delays], last \in used :
         /\ mFusionDelay = [h \in Fusion |-> IF h \in used THEN delays[h] ELSE Default]
         /\ mDelay = [h \in Akm |-> IF h \in used THEN delays[h] ELSE NoDelay]
         /\ \E mag \in Shared(used \cap Mag, delays, last, NoDelay),
              ori \in Shared(used \cap Ori, delays, last, NoDelay),
              accel \in Shared(used \cap Fusion, delays, last, Default) :
              /\ compass = [enable_mag |-> 0, enable_fusion |-> 0,
                            delay_mag |-> mag, delay_fusion |-> ori]
              /\ hub = [delay |-> accel, records |-> <<>>, sent |-> 0]
    BY DEF Init, HalInit
  <1>3. ASSUME NEW users \in SUBSET used, NEW otherwise
        PROVE  Shared(users, delays, last, otherwise) \subseteq Delays \cup {otherwise}
    BY DEF Shared
  <1>4. compass \in Compasses
    <2>1. /\ Shared(used \cap Mag, delays, last, NoDelay) \subseteq Delays \cup {NoDelay}
          /\ Shared(used \cap Ori, delays, last, NoDelay) \subseteq Delays \cup {NoDelay}
      BY <1>3
    <2>2. PICK mag \in Delays \cup {NoDelay}, ori \in Delays \cup {NoDelay} :
             compass = [enable_mag |-> 0, enable_fusion |-> 0,
                        delay_mag |-> mag, delay_fusion |-> ori]
      BY <1>2, <2>1
    <2> QED
      BY <2>2 DEF Compasses
  <1>5. hub \in HubStates
    <2>1. Shared(used \cap Fusion, delays, last, Default) \subseteq Delays \cup {Default}
      BY <1>3
    <2>2. PICK accel \in Delays \cup {Default} :
             hub = [delay |-> accel, records |-> <<>>, sent |-> 0]
      BY <1>2, <2>1
    <2>3. <<>> \in Seq(Records)
      OBVIOUS
    <2> QED
      BY <2>2, <2>3 DEF HubStates
  <1>6. HubTypes /\ AkmTypes /\ CallTypes
    BY <1>1, <1>2, <1>5 DEF Init, HalInit, HubTypes, AkmTypes, CallTypes
  <1>7. compass.enable_mag = 0 /\ compass.enable_fusion = 0
    BY <1>2
  <1>8. WritesFit /\ CompassFits /\ AkmKnows
    BY <1>1, <1>7 DEF WritesFit, CompassFits, AkmKnows, Digit
  <1>9. HubKnows /\ HubFits
    BY <1>1 DEF Init, HalInit, HubKnows, HubFits
  <1>10. PollTypes /\ InputTypes
    <2>1. NumEvents \in Nat /\ MaxInputs \in Nat /\ Count \in Nat
      BY SensorAssumption, AkmdAssumption
    <2>2. <<>> \in Seq(SUBSET Akm) /\ <<>> \in Seq(Reported) /\ Len(<<>>) = 0
      OBVIOUS
    <2>3. /\ mPendingMask = {} /\ mInputReader = <<>> /\ inputs = <<>> /\ data = <<>>
          /\ poller = "poll"
      BY DEF Init, HalInit
    <2> QED
      BY <2>1, <2>2, <2>3 DEF PollTypes, InputTypes
  <1>11. DaemonTypes /\ CalibrationFits
    BY AkmdAssumption DEF Init, AkmdInit, DaemonTypes, CalibrationFits, SetDefaultPRMS, NoData
  <1> QED
    BY <1>4, <1>6, <1>8, <1>9, <1>10, <1>11 DEF SensorInv, ServingInv

LEMMA SensorsKeep == SensorInv /\ [Next]_vars => SensorInv'
  <1> SUFFICES ASSUME SensorInv, [Next]_vars PROVE SensorInv'
    OBVIOUS
  <1> USE DEF SensorInv
  <1>1. ASSUME UNCHANGED akmdVars PROVE DaemonTypes' /\ CalibrationFits'
    BY <1>1 DEF akmdVars, mainVars, threadVars, dataVars, DaemonTypes, CalibrationFits
  <1>2. ASSUME UNCHANGED <<readVars, poller, data, inputs>> PROVE PollTypes' /\ InputTypes'
    BY <1>2 DEF readVars, PollTypes, InputTypes
  <1>3. ASSUME UNCHANGED halVars, UNCHANGED compass PROVE ServingInv' /\ PollTypes'
    <2>1. UNCHANGED <<hubVars, akmEnabled, mDelay, used, call, on, lost, compass, hub>>
      BY <1>3 DEF halVars, callVars
    <2>2. hub' \in HubStates /\ hub'.delay = hub.delay
      BY <2>1 DEF ServingInv, HubTypes
    <2>3. PollTypes'
      BY <1>3 DEF halVars, readVars, pollVars, PollTypes
    <2> QED
      BY <2>1, <2>2, <2>3, ServingRests
  <1>4. CASE \E h \in used, en \in BOOLEAN : OfHal(activate(h, en))
    <2>1. PICK h \in used, en \in BOOLEAN : activate(h, en) /\ UNCHANGED akmdVars
      BY <1>4 DEF OfHal
    <2>2. ServingInv'
      BY <2>1, ActivateKeeps
    <2>3. UNCHANGED <<readVars, poller, data, inputs>>
      BY <2>1 DEF activate, pollVars, driverVars
    <2> QED
      BY <1>1, <1>2, <2>1, <2>2, <2>3
  <1>5. CASE \E h \in used, d \in Delays : OfHal(setDelay(h, d))
    <2>1. PICK h \in used, d \in Delays : setDelay(h, d) /\ UNCHANGED akmdVars
      BY <1>5 DEF OfHal
    <2>2. ServingInv'
      BY <2>1, SetDelayKeeps
    <2>3. UNCHANGED <<readVars, poller, data, inputs>>
      BY <2>1 DEF setDelay, pollVars, driverVars
    <2> QED
      BY <1>1, <1>2, <2>1, <2>2, <2>3
  <1>6. CASE \/ \E h \in used : OfHal(flush(h))
             \/ OfHal(HubMeasures)
    <2>1. (\E h \in used : flush(h)) \/ HubMeasures
      BY <1>6 DEF OfHal
    <2>2. UNCHANGED akmdVars
      BY <1>6 DEF OfHal
    <2>3. /\ UNCHANGED <<hubVars, akmEnabled, mDelay, used, call, on, lost, compass>>
          /\ UNCHANGED <<readVars, poller, data, inputs>>
      BY <2>1 DEF flush, HubMeasures, callVars, pollVars, driverVars
    <2>4. hub' \in HubStates /\ hub'.delay = hub.delay
      <3>1. hub \in HubStates
        BY DEF ServingInv, HubTypes
      <3>2. CASE \E h \in used : flush(h)
        <4>1. hub' = [hub EXCEPT !.records = Append(@, "FLUSH")]
          BY <3>2 DEF flush
        <4>2. Append(hub.records, "FLUSH") \in Seq(Records)
          <5>1. "FLUSH" \in Records /\ hub.records \in Seq(Records)
            BY <3>1 DEF HubStates, Records
          <5> QED
            BY <5>1
        <4> QED
          BY <3>1, <4>1, <4>2 DEF HubStates
      <3>3. CASE HubMeasures
        <4>1. PICK record \in {"ACCEL" : h \in on \cap {"A"}} \cup (mWakeEnabled \cap {"GLANCE"}) :
                 hub' = [hub EXCEPT !.records = Append(@, record), !.sent = @ + 1]
          BY <3>3 DEF HubMeasures
        <4>2. record \in Records
          BY DEF Records
        <4>3. Append(hub.records, record) \in Seq(Records) /\ hub.sent + 1 \in Nat
          BY <3>1, <4>2 DEF HubStates
        <4> QED
          BY <3>1, <4>1, <4>3 DEF HubStates
      <3> QED
        BY <2>1, <3>2, <3>3
    <2> QED
      BY <1>1, <1>2, <2>2, <2>3, <2>4, ServingRests
  <1>7. CASE OfHal(Point) \/ OfHal(Finish) \/ OfHal(WriteAttribute)
    <2>1. Point \/ Finish \/ WriteAttribute
      BY <1>7 DEF OfHal
    <2>2. UNCHANGED akmdVars
      BY <1>7 DEF OfHal
    <2>3. UNCHANGED <<readVars, poller, data, inputs>>
      BY <2>1 DEF Point, Finish, WriteAttribute, pollVars, driverVars
    <2>4. ServingInv'
      <3>1. CASE WriteAttribute
        <4>1. UNCHANGED <<hubVars, hub, akmEnabled, mDelay, used, on>>
          BY <3>1 DEF WriteAttribute
        <4>2. CallTypes' /\ WritesFit' /\ CompassFits' /\ AkmKnows' /\ compass' \in Compasses
          BY <3>1, WriteKeeps DEF ServingInv
        <4> QED
          BY <4>1, <4>2 DEF ServingInv, HubTypes, HubKnows, HubFits, AkmTypes, hubVars
      <3> QED
        BY <2>1, <3>1, PointKeeps, FinishKeeps
    <2> QED
      BY <1>1, <1>2, <2>2, <2>3, <2>4
  <1>8. CASE \/ OfHal(poll) \/ OfHal(HubReadEvents) \/ OfHal(setAccel)
             \/ OfHal(AkmReadEvents) \/ OfHal(pollReturns)
    <2>1. poll \/ HubReadEvents \/ setAccel \/ AkmReadEvents \/ pollReturns
      BY <1>8 DEF OfHal
    <2>2. UNCHANGED akmdVars
      BY <1>8 DEF OfHal
    <2>3. UNCHANGED <<hubVars, akmEnabled, mDelay, used, call, on, lost, compass>>
      BY <2>1 DEF poll, HubReadEvents, setAccel, AkmReadEvents, pollReturns, callVars, driverVars
    <2>4. PollTypes' /\ InputTypes' /\ hub' \in HubStates /\ hub'.delay = hub.delay
      BY <2>1, ReadingKeeps DEF ServingInv, HubTypes
    <2> QED
      BY <1>1, <2>2, <2>3, <2>4, ServingRests
  <1>9. CASE \/ OfDaemon(Start) \/ OfDaemon(OpenStatus) \/ OfDaemon(CloseStatus)
             \/ OfDaemon(Join) \/ OfDaemon(SaveOpen) \/ OfDaemon(SaveWrite) \/ OfDaemon(Kill)
    <2>1. Main \/ Kill
      BY <1>9 DEF OfDaemon, Main
    <2>2. UNCHANGED halVars
      BY <1>9 DEF OfDaemon
    <2>3. UNCHANGED <<compass, inputs>>
      BY <2>1 DEF Main, Start, OpenStatus, CloseStatus, Join, SaveOpen, SaveWrite, Kill
    <2>4. DaemonTypes' /\ CalibrationFits'
      BY <2>1, MainKeeps
    <2> QED
      BY <1>3, <2>2, <2>3, <2>4 DEF InputTypes
  <1>10. CASE \/ OfDaemon(MeasureStarts) \/ OfDaemon(GetMagneticVector)
              \/ OfDaemon(GetAccelerationData) \/ OfDaemon(ReportMag) \/ OfDaemon(ReportFusion)
              \/ OfDaemon(Setting) \/ OfDaemon(LoopEnds)
    <2>1. \/ MeasureStarts \/ GetMagneticVector \/ GetAccelerationData \/ ReportMag
          \/ ReportFusion \/ Setting \/ LoopEnds
      BY <1>10 DEF OfDaemon
    <2>2. UNCHANGED halVars
      BY <1>10 DEF OfDaemon
    <2>3. compass' = compass
      BY <2>1 DEF MeasureStarts, GetMagneticVector, GetAccelerationData, ReportMag, ReportFusion,
         Report, Setting, LoopEnds
    <2>4. DaemonTypes' /\ CalibrationFits'
      BY <2>1, MeasuringKeeps
    <2>5. InputTypes'
      <3>1. CASE ReportMag \/ ReportFusion
        <4>1. {"M", "UM"} \in SUBSET Akm /\ {"OR", "RV"} \in SUBSET Akm
          BY DEF Akm, Mag, Ori
        <4> QED
          BY <3>1, <4>1, ReportsFit DEF ReportMag, ReportFusion
      <3>2. CASE ~(ReportMag \/ ReportFusion)
        BY <2>1, <3>2 DEF MeasureStarts, GetMagneticVector, GetAccelerationData, Setting,
           LoopEnds, InputTypes
      <3> QED
        BY <3>1, <3>2
    <2> QED
      BY <1>3, <2>2, <2>3, <2>4, <2>5
  <1>11. CASE UNCHANGED vars
    <2>1. UNCHANGED halVars /\ UNCHANGED driverVars /\ UNCHANGED akmdVars
      BY <1>11 DEF vars
    <2>2. UNCHANGED <<compass, inputs>>
      BY <2>1 DEF driverVars
    <2> QED
      BY <1>1, <1>3, <2>1, <2>2 DEF InputTypes
  <1> QED
    BY <1>4, <1>5, <1>6, <1>7, <1>8, <1>9, <1>10, <1>11 DEF Next

LEMMA SensorsAlways == Spec => []SensorInv
  BY SensorsBegin, SensorsKeep, PTL DEF Spec

(* For any sets of sensors, delays and capacities: poll() never returns    *)
(* more events than its caller has room for (SensorsPollContext::          *)
(* pollEvents(), HubSensor::readEvents(), AkmSensor::processEvent()).      *)
THEOREM RoomIsRespected == Spec => []RoomRespected
  BY SensorsAlways, SensorInvImplies, PTL

(* Whatever sensors share and in whatever order they come and go, between  *)
(* calls the hub and the compass serve each that is on                     *)
(* (HubSensor::setEnable(), setDelay(), AkmSensor::setEnable(),            *)
(* setDelay()).                                                            *)
THEOREM SensorsAreServed == Spec => []SensorsServed
  BY SensorsAlways, SensorInvImplies, PTL

(* For any number of calibrations: the last one found is saved and loaded  *)
(* again, as long as nothing fails (main() of akmd, MeasureSNGLoop()).     *)
THEOREM CalibrationIsKept == Spec => []CalibrationKept
  BY SensorsAlways, SensorInvImplies, PTL
-----------------------------------------------------------------------------
(* The satellites and NMEA: induction, then the places of a set's numbers  *)

(* Every set of numbers that has any has a least.                          *)
LEMMA Least ==
    ASSUME NEW S, S \subseteq Nat, S # {}
    PROVE  \E n \in S : \A m \in S : n <= m
  <1> DEFINE R == OpToRel(<, Nat)
  <1>1. IsWellFoundedOn(R, Nat)
    BY NatLessThanWellFounded
  <1>2. \E n \in S : \A m \in S : ~(<<m, n>> \in R)
    <2> HIDE DEF R
    <2> QED BY <1>1, WFMin
  <1>3. PICK n \in S : \A m \in S : ~(<<m, n>> \in R)
    BY <1>2
  <1>4. \A m \in S : ~(m < n)
    BY <1>3 DEF OpToRel
  <1>5. \A m \in S : m \in Nat /\ n \in Nat
    OBVIOUS
  <1>6. \A m \in S : n <= m
    BY <1>4, <1>5
  <1> QED BY <1>6

(* What holds of 0 and of the next of each holds of all: induction over a   *)
(* set instead of a predicate, which a lemma could not take.               *)
LEMMA SetInduction ==
    ASSUME NEW S, S \subseteq Nat, 0 \in S, \A n \in S : n + 1 \in S
    PROVE  S = Nat
  <1> SUFFICES ASSUME Nat \ S # {} PROVE FALSE
    OBVIOUS
  <1>1. PICK n \in Nat \ S : \A m \in Nat \ S : n <= m
    <2> DEFINE T == Nat \ S
    <2>1. T \subseteq Nat /\ T # {}
      OBVIOUS
    <2> HIDE DEF T
    <2>2. \E n \in T : \A m \in T : n <= m
      BY <2>1, Least
    <2> QED BY <2>2 DEF T
  <1>2. n # 0 /\ n - 1 \in Nat /\ n - 1 \notin Nat \ S
    BY <1>1
  <1> QED BY <1>1, <1>2

UpTo(S, i) == {j \in S : j <= i}

(* As many numbers of a set lie up to each as its place in it, and more up *)
(* to a greater one                                                        *)
LEMMA UpToGrows ==
    ASSUME NEW S, S \subseteq Nat, IsFiniteSet(S), NEW i \in S
    PROVE  /\ Cardinality(UpTo(S, i)) \in 1 .. Cardinality(S)
           /\ \A j \in S : i < j => Cardinality(UpTo(S, i)) < Cardinality(UpTo(S, j))
  <1>1. ASSUME NEW k \in S PROVE IsFiniteSet(UpTo(S, k)) /\ Cardinality(UpTo(S, k)) \in Nat
                                 /\ Cardinality(UpTo(S, k)) <= Cardinality(S)
    <2>1. UpTo(S, k) \in SUBSET S
      BY DEF UpTo
    <2>2. IsFiniteSet(UpTo(S, k)) /\ Cardinality(UpTo(S, k)) <= Cardinality(S)
      BY <2>1, FS_Subset
    <2> QED BY <2>2, FS_CardinalityType
  <1>2. Cardinality(UpTo(S, i)) # 0
    <2>1. i \in UpTo(S, i)
      BY DEF UpTo
    <2> QED BY <1>1, <2>1, FS_EmptySet
  <1>3. ASSUME NEW j \in S, i < j PROVE Cardinality(UpTo(S, i)) < Cardinality(UpTo(S, j))
    <2>1. UpTo(S, i) \in SUBSET UpTo(S, j) /\ j \in UpTo(S, j) /\ j \notin UpTo(S, i)
      <3>1. i \in Nat /\ j \in Nat /\ \A k \in S : k \in Nat
        OBVIOUS
      <3>2. \A k \in S : k <= i => k <= j
        BY <1>3, <3>1
      <3>3. j <= j /\ ~(j <= i)
        BY <1>3, <3>1
      <3> QED BY <3>2, <3>3 DEF UpTo
    <2>2. /\ Cardinality(UpTo(S, i)) <= Cardinality(UpTo(S, j))
          /\ Cardinality(UpTo(S, j)) = Cardinality(UpTo(S, i)) => UpTo(S, j) = UpTo(S, i)
      BY <1>1, <2>1, FS_Subset
    <2>3. Cardinality(UpTo(S, j)) # Cardinality(UpTo(S, i))
      BY <2>1, <2>2
    <2> QED BY <1>1, <2>2, <2>3
  <1>4. Cardinality(S) \in Nat
    BY FS_CardinalityType
  <1> QED BY <1>1, <1>2, <1>3, <1>4

(* No two numbers have the same place                                      *)
LEMMA NthOnly ==
    ASSUME NEW S, S \subseteq Nat, IsFiniteSet(S), NEW i \in S
    PROVE  Nth(S, Cardinality(UpTo(S, i))) = i
  <1> DEFINE n == Cardinality(UpTo(S, i))
             k == Nth(S, n)
  <1>0. Cardinality(UpTo(S, i)) \in Nat
    <2>1. Cardinality(S) \in Nat
      BY FS_CardinalityType
    <2>2. Cardinality(UpTo(S, i)) \in 1 .. Cardinality(S)
      BY UpToGrows
    <2> QED BY <2>1, <2>2
  <1>1. k \in S /\ Cardinality(UpTo(S, k)) = n
    BY DEF Nth, UpTo
  <1> HIDE DEF n, k
  <1>2. ~(i < k)
    <2>1. \A j \in S : i < j => Cardinality(UpTo(S, i)) < Cardinality(UpTo(S, j))
      BY UpToGrows
    <2>2. n \in Nat
      BY <1>0 DEF n
    <2> QED BY <1>1, <2>1, <2>2 DEF n
  <1>3. ~(k < i)
    <2>1. \A j \in S : k < j => Cardinality(UpTo(S, k)) < Cardinality(UpTo(S, j))
      BY <1>1, UpToGrows
    <2>2. n \in Nat
      BY <1>0 DEF n
    <2> QED BY <1>1, <2>1, <2>2 DEF n
  <1>4. k = i
    <2>1. k \in Nat /\ i \in Nat
      BY <1>1
    <2> QED BY <1>2, <1>3, <2>1
  <1> QED BY <1>4 DEF n, k

(* Every place is some number's                                            *)
LEMMA NthIs ==
    ASSUME NEW S, S \subseteq Nat, IsFiniteSet(S), NEW n \in 1 .. Cardinality(S)
    PROVE  Nth(S, n) \in S /\ Cardinality(UpTo(S, Nth(S, n))) = n
  <1> DEFINE rank == [i \in S |-> Cardinality(UpTo(S, i))]
             T == 1 .. Cardinality(S)
  <1>1. Cardinality(S) \in Nat
    BY FS_CardinalityType
  <1>2. IsFiniteSet(T) /\ Cardinality(T) = Cardinality(S)
    BY <1>1, FS_Interval
  <1>3. rank \in [S -> T]
    BY UpToGrows
  <1>4. ASSUME NEW i \in S, NEW j \in S, rank[i] = rank[j] PROVE i = j
    <2>1. Nth(S, rank[i]) = i
      BY NthOnly
    <2>2. Nth(S, rank[j]) = j
      BY NthOnly
    <2> QED BY <1>4, <2>1, <2>2
  <1> HIDE DEF T, rank
  <1>5. rank \in Injection(S, T)
    BY <1>3, <1>4 DEF Injection, IsInjective
  <1>6. rank \in Surjection(S, T)
    BY <1>2, <1>5, FS_Injection
  <1>7. PICK i \in S : rank[i] = n
    BY <1>6 DEF Surjection, T
  <1>8. i \in S /\ Cardinality({j \in S : j <= i}) = n
    BY <1>7 DEF rank, UpTo
  <1> QED BY <1>8 DEF Nth, UpTo

(* What is beyond a number keeps its order, and its places less those      *)
LEMMA NthBeyond ==
    ASSUME NEW S, S \subseteq Nat, IsFiniteSet(S), NEW p \in Nat
    PROVE  LET m == Cardinality(UpTo(S, p))
               beyond == {i \in S : i > p}
           IN /\ m \in Nat /\ IsFiniteSet(beyond) /\ Cardinality(beyond) = Cardinality(S) - m
              /\ Cardinality(beyond) \in Nat
              /\ \A n \in 1 .. Cardinality(beyond) : Nth(beyond, n) = Nth(S, m + n)
  <1> DEFINE m == Cardinality(UpTo(S, p))
             beyond == {i \in S : i > p}
  <1>1. UpTo(S, p) \in SUBSET S /\ beyond \in SUBSET S
    BY DEF UpTo
  <1>2. /\ IsFiniteSet(UpTo(S, p)) /\ m \in Nat
        /\ IsFiniteSet(beyond) /\ Cardinality(beyond) \in Nat
    BY <1>1, FS_Subset, FS_CardinalityType
  <1>3. ASSUME NEW A, NEW B, IsFiniteSet(A), IsFiniteSet(B), A \cap B = {}
        PROVE  Cardinality(A \cup B) = Cardinality(A) + Cardinality(B)
    <2>1. Cardinality(A \cup B) = Cardinality(A) + Cardinality(B) - Cardinality({})
      BY <1>3, FS_Union
    <2>2. Cardinality({}) = 0 /\ Cardinality(A) \in Nat /\ Cardinality(B) \in Nat
      BY <1>3, FS_EmptySet, FS_CardinalityType
    <2> QED BY <2>1, <2>2
  <1>4. Cardinality(beyond) = Cardinality(S) - m
    <2>1. S = UpTo(S, p) \cup beyond /\ UpTo(S, p) \cap beyond = {}
      <3>1. \A i \in S : i <= p <=> ~(i > p)
        <4>1. \A i \in S : i \in Nat
          OBVIOUS
        <4> QED BY <4>1
      <3> QED BY <3>1 DEF UpTo
    <2>2. Cardinality(S) = m + Cardinality(beyond)
      <3> HIDE DEF beyond
      <3> QED BY <1>2, <1>3, <2>1
    <2> QED BY <1>2, <2>2
  <1>5. ASSUME NEW n \in 1 .. Cardinality(beyond) PROVE Nth(beyond, n) = Nth(S, m + n)
    <2> DEFINE i == Nth(beyond, n)
    <2>1. beyond \subseteq Nat
      BY <1>1
    <2>2. i \in beyond /\ Cardinality(UpTo(beyond, i)) = n
      <3> HIDE DEF beyond
      <3> QED BY <1>2, <2>1, NthIs
    <2>3. i \in S /\ UpTo(S, i) = UpTo(S, p) \cup UpTo(beyond, i)
          /\ UpTo(S, p) \cap UpTo(beyond, i) = {} /\ UpTo(beyond, i) \in SUBSET beyond
      <3> HIDE DEF i
      <3>1. i \in S /\ i > p /\ i \in Nat /\ \A j \in S : j \in Nat
        BY <2>2
      <3>2. \A j \in S : (j <= i <=> (j <= p \/ (j > p /\ j <= i))) /\ ~(j <= p /\ j > p)
        BY <3>1
      <3>3. \A j : /\ j \in UpTo(S, i) <=> j \in S /\ j <= i
                   /\ j \in UpTo(S, p) <=> j \in S /\ j <= p
                   /\ j \in UpTo(beyond, i) <=> j \in S /\ j > p /\ j <= i
        BY DEF UpTo
      <3>4. UpTo(S, i) = UpTo(S, p) \cup UpTo(beyond, i)
        <4>1. \A j : j \in UpTo(S, i) <=> j \in UpTo(S, p) \/ j \in UpTo(beyond, i)
          <5> HIDE DEF beyond
          <5> QED BY <3>2, <3>3
        <4> HIDE DEF beyond
        <4> QED BY <4>1
      <3>5. UpTo(S, p) \cap UpTo(beyond, i) = {}
        <4>1. \A j : ~(j \in UpTo(S, p) /\ j \in UpTo(beyond, i))
          <5> HIDE DEF beyond
          <5> QED BY <3>2, <3>3
        <4> HIDE DEF beyond
        <4> QED BY <4>1
      <3>6. UpTo(beyond, i) \in SUBSET beyond
        BY <3>3
      <3> QED BY <3>1, <3>4, <3>5, <3>6
    <2>4. IsFiniteSet(UpTo(beyond, i))
      <3> HIDE DEF beyond, i
      <3> QED BY <1>2, <2>3, FS_Subset
    <2>5. Cardinality(UpTo(S, i)) = m + n
      <3> HIDE DEF beyond, i
      <3>1. Cardinality(UpTo(S, p) \cup UpTo(beyond, i)) = m + Cardinality(UpTo(beyond, i))
        BY <1>2, <1>3, <2>3, <2>4
      <3> QED BY <2>2, <2>3, <3>1
    <2>6. Nth(S, Cardinality(UpTo(S, i))) = i
      <3> HIDE DEF i
      <3> QED BY <2>3, NthOnly
    <2> QED BY <2>5, <2>6
  <1> QED BY <1>2, <1>4, <1>5

(* The places of an interval                                               *)
LEMMA NthInterval ==
    ASSUME NEW a \in Nat, NEW n \in Nat, NEW k \in 1 .. n
    PROVE  Nth(a + 1 .. a + n, k) = a + k
  <1> DEFINE S == a + 1 .. a + n
  <1>1. IsFiniteSet(S) /\ S \subseteq Nat /\ a + k \in S
    BY FS_Interval
  <1>2. UpTo(S, a + k) = a + 1 .. a + k
    BY DEF UpTo
  <1>3. Cardinality(UpTo(S, a + k)) = k
    BY <1>2, FS_Interval
  <1>4. Nth(S, Cardinality(UpTo(S, a + k))) = a + k
    <2> HIDE DEF S
    <2> QED BY <1>1, NthOnly
  <1> QED BY <1>3, <1>4

-----------------------------------------------------------------------------
(* A report of satellites                                                  *)

(* As many sentences as their satellites fill                              *)
LEMMA Sentences ==
    ASSUME NEW n \in Nat
    PROVE  /\ SentenceCount(n) \in Nat /\ n <= 4 * SentenceCount(n)
           /\ \A number \in 0 .. SentenceCount(n) - 1 : 4 * number < n
           /\ n # 0 => SentenceCount(n) # 0
           /\ n = 0 => SentenceCount(n) = 0
  <1> DEFINE d == n \div 4
             r == n % 4
  <1>1. d \in Nat /\ r \in 0 .. 3 /\ n = 4 * d + r
    OBVIOUS
  <1>2. SentenceCount(n) = d + IF r # 0 THEN 1 ELSE 0
    BY DEF SentenceCount, PerSentence
  <1> HIDE DEF d, r
  <1> QED BY <1>1, <1>2

(* What NmeaAssumption says of the satellites of a report                  *)
Sky(svs) == svs \in Seq(Satellites)

LEMMA SkySatellites ==
    ASSUME NEW svs, Sky(svs)
    PROVE  /\ Len(svs) \in Nat /\ DOMAIN svs = 1 .. Len(svs)
           /\ \A i \in DOMAIN svs : /\ svs[i].constellation \in Constellations
                                    /\ svs[i].svid \in SvIds(svs[i].constellation)
                                    /\ svs[i].used \in BOOLEAN
  BY DEF Sky, Satellites

LEMMA PlacesFinite ==
    ASSUME NEW svs, Sky(svs), NEW c
    PROVE  /\ PlacesOf(svs, c) \subseteq Nat /\ IsFiniteSet(PlacesOf(svs, c))
           /\ PlacesOf(svs, c) \subseteq 1 .. Len(svs)
           /\ Cardinality(PlacesOf(svs, c)) \in Nat
           /\ Len(Of(svs, c)) = Cardinality(PlacesOf(svs, c))
           /\ \A n \in 1 .. Cardinality(PlacesOf(svs, c)) :
                Of(svs, c)[n] = svs[Nth(PlacesOf(svs, c), n)]
  <1>1. Len(svs) \in Nat /\ PlacesOf(svs, c) \in SUBSET (1 .. Len(svs))
    BY SkySatellites DEF PlacesOf
  <1>2. IsFiniteSet(1 .. Len(svs))
    BY <1>1, FS_Interval
  <1>3. IsFiniteSet(PlacesOf(svs, c))
    BY <1>1, <1>2, FS_Subset
  <1>4. Cardinality(PlacesOf(svs, c)) \in Nat
    BY <1>3, FS_CardinalityType
  <1> QED BY <1>1, <1>3, <1>4 DEF Of, Select

(* A sentence that begins after the first 4 * k satellites ends after the  *)
(* first 4 * (k + 1), or all                                               *)
StopsAt(svs, c, stop, k) ==
    /\ stop \in Nat
    /\ Cardinality(UpTo(PlacesOf(svs, c), stop)) = AtMost(Cardinality(PlacesOf(svs, c)), 4 * k)

LEMMA StopNext ==
    ASSUME NEW svs, Sky(svs), NEW c, NEW stop, NEW k \in Nat, StopsAt(svs, c, stop, k)
    PROVE  StopsAt(svs, c, StopAfter(svs, c, stop), k + 1)
  <1> DEFINE P == PlacesOf(svs, c)
             m == Cardinality(UpTo(P, stop))
             left == {i \in P : i > stop}
  <1>1. /\ P \subseteq Nat /\ IsFiniteSet(P) /\ P \subseteq 1 .. Len(svs)
        /\ Cardinality(P) \in Nat /\ Len(svs) \in Nat
    BY PlacesFinite, SkySatellites
  <1>2. stop \in Nat /\ m = AtMost(Cardinality(P), 4 * k)
    BY DEF StopsAt
  <1>3. /\ m \in Nat /\ Cardinality(left) = Cardinality(P) - m /\ Cardinality(left) \in Nat
        /\ \A n \in 1 .. Cardinality(left) : Nth(left, n) = Nth(P, m + n)
    <2> HIDE DEF P
    <2> QED BY <1>1, <1>2, NthBeyond
  <1>4. StopAfter(svs, c, stop) = IF Cardinality(left) < 4 THEN Len(svs) ELSE Nth(left, 4)
    BY DEF StopAfter, Unlisted, PerSentence
  <1> HIDE DEF left, m
  <1>5. CASE Cardinality(left) < 4
    <2>1. UpTo(P, Len(svs)) = P
      BY <1>1 DEF UpTo
    <2>2. Cardinality(P) <= 4 * (k + 1)
      <3> HIDE DEF P
      <3> QED BY <1>1, <1>2, <1>3, <1>5 DEF AtMost
    <2>3. AtMost(Cardinality(P), 4 * (k + 1)) = Cardinality(P)
      <3> HIDE DEF P
      <3> QED BY <1>1, <2>2 DEF AtMost
    <2> QED BY <1>1, <1>4, <1>5, <2>1, <2>3 DEF StopsAt
  <1>6. CASE ~(Cardinality(left) < 4)
    <2> HIDE DEF P
    <2>1. m = 4 * k /\ m + 4 = 4 * (k + 1) /\ m + 4 \in 1 .. Cardinality(P)
      BY <1>1, <1>2, <1>3, <1>6 DEF AtMost
    <2>2. StopAfter(svs, c, stop) = Nth(P, m + 4)
      BY <1>3, <1>4, <1>6
    <2>3. Nth(P, m + 4) \in P /\ Cardinality(UpTo(P, Nth(P, m + 4))) = m + 4
      BY <1>1, <2>1, NthIs
    <2>4. AtMost(Cardinality(P), 4 * (k + 1)) = m + 4
      BY <1>1, <2>1 DEF AtMost
    <2>5. StopAfter(svs, c, stop) \in Nat
      BY <1>1, <2>2, <2>3
    <2> QED BY <2>2, <2>3, <2>4, <2>5 DEF StopsAt, P
  <1> QED BY <1>5, <1>6

(* A recursive function is what its definition says once some function is: *)
(* one for a sentence more is made of one for those before it              *)
LEMMA StopsDef ==
    ASSUME NEW svs, NEW c, SentenceCount(Len(Of(svs, c))) \in Nat
    PROVE  Stops(svs, c) = [number \in 0 .. SentenceCount(Len(Of(svs, c))) |->
                IF number = 0 THEN 0 ELSE StopAfter(svs, c, Stops(svs, c)[number - 1])]
  <1> DEFINE count == SentenceCount(Len(Of(svs, c)))
             S == {m \in Nat : \E f : f = [n \in 0 .. m |->
                     IF n = 0 THEN 0 ELSE StopAfter(svs, c, f[n - 1])]}
  <1>1. 0 \in S
    <2> DEFINE f == [n \in 0 .. 0 |-> 0]
    <2>1. f = [n \in 0 .. 0 |-> IF n = 0 THEN 0 ELSE StopAfter(svs, c, f[n - 1])]
      OBVIOUS
    <2> QED BY <2>1
  <1>2. ASSUME NEW m \in S PROVE m + 1 \in S
    <2>1. PICK f : f = [n \in 0 .. m |-> IF n = 0 THEN 0 ELSE StopAfter(svs, c, f[n - 1])]
      OBVIOUS
    <2>a. m \in Nat
      OBVIOUS
    <2>b. \A n \in 0 .. m : f[n] = IF n = 0 THEN 0 ELSE StopAfter(svs, c, f[n - 1])
      BY <2>1
    <2> DEFINE g == [n \in 0 .. m + 1 |-> IF n = 0 THEN 0 ELSE StopAfter(svs, c, f[n - 1])]
    <2>2. \A n \in 0 .. m : g[n] = f[n]
      BY <2>a, <2>b
    <2>3. \A n \in 0 .. m + 1 : n # 0 => g[n - 1] = f[n - 1]
      <3> HIDE DEF g
      <3> QED BY <2>2, <2>a
    <2>4. g = [n \in 0 .. m + 1 |-> IF n = 0 THEN 0 ELSE StopAfter(svs, c, g[n - 1])]
      BY <2>3
    <2> HIDE DEF g
    <2> QED BY <2>4
  <1> HIDE DEF S
  <1>3. S \subseteq Nat
    BY DEF S
  <1>4. S = Nat
    BY <1>1, <1>2, <1>3, SetInduction
  <1>5. count \in S
    BY <1>4
  <1>6. \E f : f = [n \in 0 .. count |-> IF n = 0 THEN 0 ELSE StopAfter(svs, c, f[n - 1])]
    BY <1>5 DEF S
  <1> HIDE DEF count
  <1>7. Stops(svs, c) = CHOOSE f : f = [n \in 0 .. count |->
                          IF n = 0 THEN 0 ELSE StopAfter(svs, c, f[n - 1])]
    BY DEF Stops, count
  <1> QED BY <1>6, <1>7 DEF count

(* Where each sentence stops                                               *)
LEMMA StopsAreAt ==
    ASSUME NEW svs, Sky(svs), NEW c, NEW number \in 0 .. SentenceCount(Len(Of(svs, c)))
    PROVE  StopsAt(svs, c, Stops(svs, c)[number], number)
  <1> DEFINE count == SentenceCount(Len(Of(svs, c)))
             stops == Stops(svs, c)
             S == {m \in Nat : m <= count => StopsAt(svs, c, stops[m], m)}
  <1>1. count \in Nat
    BY PlacesFinite, Sentences
  <1>2. \A n \in 0 .. count : stops[n] = IF n = 0 THEN 0 ELSE StopAfter(svs, c, stops[n - 1])
    BY <1>1, StopsDef
  <1> HIDE DEF count, stops
  <1>3. 0 \in S
    <2>1. stops[0] = 0
      BY <1>1, <1>2
    <2>2. UpTo(PlacesOf(svs, c), 0) = {}
      <3>1. \A i \in PlacesOf(svs, c) : ~(i <= 0)
        BY PlacesFinite, SkySatellites
      <3> QED BY <3>1 DEF UpTo
    <2>3. AtMost(Cardinality(PlacesOf(svs, c)), 4 * 0) = 0
      BY PlacesFinite DEF AtMost
    <2>4. Cardinality({}) = 0
      BY FS_EmptySet
    <2>5. StopsAt(svs, c, 0, 0)
      BY <2>2, <2>3, <2>4 DEF StopsAt
    <2> QED BY <2>1, <2>5
  <1>4. ASSUME NEW m \in S PROVE m + 1 \in S
    <2>1. SUFFICES ASSUME m + 1 <= count PROVE StopsAt(svs, c, stops[m + 1], m + 1)
      OBVIOUS
    <2>2. m \in Nat /\ StopsAt(svs, c, stops[m], m)
      BY <1>1, <2>1
    <2>3. stops[m + 1] = StopAfter(svs, c, stops[m])
      BY <1>1, <1>2, <2>1, <2>2
    <2> QED BY <2>2, <2>3, StopNext
  <1>5. S \subseteq Nat
    OBVIOUS
  <1> HIDE DEF S
  <1>6. S = Nat
    BY <1>3, <1>4, <1>5, SetInduction
  <1>7. number \in Nat /\ number <= count
    BY <1>1 DEF count
  <1> QED BY <1>6, <1>7 DEF S, stops

(* The sentences of a constellation, each with the satellites that are its *)
(* own by their places                                                     *)
GsvIs(gsv, svs, c) ==
    /\ Lists(gsv, Of(svs, c))
    /\ Len(gsv) \in Nat /\ DOMAIN gsv = 1 .. Len(gsv)
    /\ \A i \in 1 .. Len(gsv) : gsv[i].name = "GSV" /\ gsv[i].of = c

LEMMA GsvSentences ==
    ASSUME NEW svs, Sky(svs), NEW c, NEW count \in Nat, NEW number \in 1 .. count,
           LET total == Len(Of(svs, c))
           IN count = IF total = 0 THEN 1 ELSE SentenceCount(total)
    PROVE  LET own == Of(svs, c)
               before == 4 * (number - 1)
               sentence == GsvSentence(svs, c, number, count, Len(own))
           IN /\ Len(sentence.svs) = AtMost(4, Len(own) - before)
              /\ DOMAIN sentence.svs = 1 .. Len(sentence.svs)
              /\ Len(sentence.svs) = 0 => Len(own) = 0
              /\ \A n \in DOMAIN sentence.svs : sentence.svs[n] = own[before + n].svid
  <1> DEFINE P == PlacesOf(svs, c)
             own == Of(svs, c)
             total == Len(own)
             before == 4 * (number - 1)
             stop == Stops(svs, c)[number - 1]
             left == {i \in P : i > stop}
             sentence == GsvSentence(svs, c, number, count, total)
  <1>1. /\ P \subseteq Nat /\ IsFiniteSet(P) /\ P \subseteq 1 .. Len(svs)
        /\ Cardinality(P) \in Nat /\ total = Cardinality(P) /\ Len(svs) \in Nat
        /\ \A n \in 1 .. Cardinality(P) : own[n] = svs[Nth(P, n)]
    BY PlacesFinite, SkySatellites
  <1> HIDE DEF own, total
  <1>2. number - 1 \in 0 .. SentenceCount(total) /\ before \in Nat
        /\ IF total = 0 THEN before = 0 ELSE before < total
    <2>1. /\ SentenceCount(total) \in Nat
          /\ \A k \in 0 .. SentenceCount(total) - 1 : 4 * k < total
      BY <1>1, Sentences
    <2>2. count = IF total = 0 THEN 1 ELSE SentenceCount(total)
      BY DEF total, own
    <2> QED BY <2>1, <2>2
  <1>3. StopsAt(svs, c, stop, number - 1)
    BY <1>2, StopsAreAt DEF total, own
  <1>4. stop \in Nat /\ Cardinality(UpTo(P, stop)) = before
    BY <1>1, <1>2, <1>3 DEF StopsAt, AtMost
  <1>5. /\ Cardinality(left) = total - before /\ Cardinality(left) \in Nat
        /\ \A n \in 1 .. Cardinality(left) : Nth(left, n) = Nth(P, before + n)
    <2> HIDE DEF P, stop, before
    <2> QED BY <1>1, <1>4, NthBeyond
  <1>6. sentence.svs = [n \in 1 .. AtMost(4, Cardinality(left)) |-> svs[Nth(left, n)].svid]
    BY DEF GsvSentence, Unlisted, PerSentence, total, own
  <1> HIDE DEF left, sentence, P, stop, before
  <1> DEFINE listed == AtMost(4, total - before)
  <1>7. listed \in Nat /\ listed <= total - before /\ (listed = 0 => total = 0)
    BY <1>1, <1>2, <1>5 DEF AtMost
  <1>8. sentence.svs = [n \in 1 .. listed |-> svs[Nth(left, n)].svid]
    BY <1>5, <1>6
  <1> HIDE DEF listed
  <1>9. Len(sentence.svs) = listed /\ DOMAIN sentence.svs = 1 .. listed
    BY <1>7, <1>8
  <1>10. ASSUME NEW n \in 1 .. listed PROVE sentence.svs[n] = own[before + n].svid
    <2>1. n \in 1 .. Cardinality(left)
      BY <1>5, <1>7
    <2>2. before + n \in 1 .. Cardinality(P)
      BY <1>1, <1>2, <1>5, <1>7
    <2>3. sentence.svs[n] = svs[Nth(left, n)].svid
      BY <1>8
    <2>4. own[before + n] = svs[Nth(P, before + n)]
      BY <1>1, <2>2
    <2> QED BY <1>5, <2>1, <2>3, <2>4
  <1>11. /\ Len(sentence.svs) = listed
         /\ DOMAIN sentence.svs = 1 .. Len(sentence.svs)
         /\ Len(sentence.svs) = 0 => total = 0
         /\ \A n \in DOMAIN sentence.svs : sentence.svs[n] = own[before + n].svid
    BY <1>7, <1>9, <1>10
  <1> QED BY <1>11 DEF sentence, own, total, before, listed

LEMMA GsvComplies == ASSUME NEW svs, Sky(svs), NEW c PROVE GsvIs(Gsv(svs, c), svs, c)
  <1> DEFINE own == Of(svs, c)
             total == Len(own)
             count == IF total = 0 THEN 1 ELSE SentenceCount(total)
             gsv == Gsv(svs, c)
  <1>1. total \in Nat /\ count \in Nat /\ count # 0 /\ total <= 4 * count
    <2>1. total \in Nat
      BY PlacesFinite
    <2> HIDE DEF total
    <2> QED BY <2>1, Sentences
  <1>2. total = 0 => own = <<>>
    <2>1. own = [n \in 1 .. Cardinality(PlacesOf(svs, c)) |-> svs[Nth(PlacesOf(svs, c), n)]]
          /\ total = Cardinality(PlacesOf(svs, c))
      BY PlacesFinite DEF Of, Select
    <2> HIDE DEF own
    <2> QED BY <2>1
  <1>3. gsv = [number \in 1 .. count |-> GsvSentence(svs, c, number, count, total)]
    BY DEF Gsv
  <1>4. ASSUME NEW i \in 1 .. count
        PROVE  /\ Len(gsv[i].svs) = AtMost(4, total - 4 * (i - 1))
               /\ gsv[i].svs = <<>> => total = 0
               /\ \A n \in DOMAIN gsv[i].svs : gsv[i].svs[n] = own[4 * (i - 1) + n].svid
               /\ gsv[i].number = i /\ gsv[i].count = count
               /\ gsv[i].name = "GSV" /\ gsv[i].of = c /\ gsv[i].total = total
    <2> DEFINE sentence == GsvSentence(svs, c, i, count, total)
    <2>1. gsv[i] = sentence
      BY <1>3
    <2>2. /\ Len(sentence.svs) = AtMost(4, total - 4 * (i - 1))
          /\ DOMAIN sentence.svs = 1 .. Len(sentence.svs)
          /\ Len(sentence.svs) = 0 => total = 0
          /\ \A n \in DOMAIN sentence.svs : sentence.svs[n] = own[4 * (i - 1) + n].svid
      BY <1>1, GsvSentences
    <2>3. /\ sentence.number = i /\ sentence.count = count
          /\ sentence.name = "GSV" /\ sentence.of = c /\ sentence.total = total
      BY DEF GsvSentence
    <2>4. sentence.svs = <<>> => Len(sentence.svs) = 0
      <3> HIDE DEF sentence
      <3> QED OBVIOUS
    <2> HIDE DEF sentence
    <2> QED BY <2>1, <2>2, <2>3, <2>4
  <1> HIDE DEF own, total, count
  <1>5. Len(gsv) = count /\ DOMAIN gsv = 1 .. count /\ gsv # <<>>
    BY <1>1, <1>3
  <1> HIDE DEF gsv
  <1>6. Lists(gsv, own)
    BY <1>1, <1>2, <1>4, <1>5 DEF Lists, PerSentence, total
  <1> QED BY <1>1, <1>4, <1>5, <1>6 DEF GsvIs, gsv, own

(* Those of GPS come first, and none is lost or taken for another's        *)
LEMMA Selected ==
    ASSUME NEW svs, Sky(svs)
    PROVE  LET gps == Gsv(svs, "GPS")
               glo == Gsv(svs, "GLONASS")
               all == gps \o glo
           IN /\ Select(all, {i \in DOMAIN all : all[i].of = "GPS"}) = gps
              /\ Select(all, {i \in DOMAIN all : all[i].of = "GLONASS"}) = glo
              /\ all # <<>> /\ all[1].name = "GSV"
  <1> DEFINE gps == Gsv(svs, "GPS")
             glo == Gsv(svs, "GLONASS")
             all == gps \o glo
             m == Len(gps)
             n == Len(glo)
  <1>1. /\ GsvIs(gps, svs, "GPS") /\ GsvIs(glo, svs, "GLONASS")
        /\ gps = [i \in 1 .. m |-> gps[i]] /\ glo = [i \in 1 .. n |-> glo[i]]
    <2>1. GsvIs(gps, svs, "GPS") /\ GsvIs(glo, svs, "GLONASS")
      BY GsvComplies
    <2>2. gps = [i \in DOMAIN gps |-> gps[i]] /\ glo = [i \in DOMAIN glo |-> glo[i]]
      BY DEF Gsv
    <2> HIDE DEF gps, glo
    <2> QED BY <2>1, <2>2 DEF GsvIs
  <1>2. /\ m \in Nat /\ n \in Nat /\ m # 0 /\ DOMAIN gps = 1 .. m /\ DOMAIN glo = 1 .. n
        /\ \A i \in 1 .. m : gps[i].of = "GPS" /\ gps[i].name = "GSV"
        /\ \A i \in 1 .. n : glo[i].of = "GLONASS"
    <2> HIDE DEF gps, glo
    <2> QED BY <1>1 DEF GsvIs, Lists
  <1> HIDE DEF gps, glo
  <1>4. /\ DOMAIN all = 1 .. m + n
        /\ \A i \in 1 .. m : all[i] = gps[i]
        /\ \A i \in 1 .. n : all[m + i] = glo[i]
    <2> DEFINE U == {gps[i] : i \in 1 .. m} \cup {glo[i] : i \in 1 .. n}
    <2>1. gps \in [1 .. m -> U] /\ glo \in [1 .. n -> U]
      BY <1>1
    <2> HIDE DEF U
    <2>2. gps \in Seq(U) /\ glo \in Seq(U)
      BY <1>2, <2>1
    <2> HIDE DEF m, n
    <2>3. all \in Seq(U) /\ Len(all) = m + n
      BY <2>2 DEF m, n
    <2>4. \A i \in 1 .. m + n : all[i] = IF i <= m THEN gps[i] ELSE glo[i - m]
      BY <2>2 DEF m, n
    <2>5. \A i \in 1 .. n : m + i \in 1 .. m + n /\ ~(m + i <= m) /\ m + i - m = i
      BY <1>2
    <2>6. \A i \in 1 .. m : i \in 1 .. m + n
      BY <1>2
    <2> QED BY <1>2, <2>3, <2>4, <2>5, <2>6
  <1> HIDE DEF m, n, all
  <1>5. {i \in DOMAIN all : all[i].of = "GPS"} = 0 + 1 .. 0 + m
        /\ {i \in DOMAIN all : all[i].of = "GLONASS"} = m + 1 .. m + n
    <2>a. ASSUME NEW i \in 1 .. m + n
          PROVE  IF i <= m THEN all[i].of = "GPS" ELSE all[i].of = "GLONASS"
      <3>1. CASE i <= m
        <4>1. i \in 1 .. m
          BY <1>2, <3>1
        <4> QED BY <1>2, <1>4, <3>1, <4>1
      <3>2. CASE ~(i <= m)
        <4>1. PICK k \in 1 .. n : k = i - m
          BY <1>2, <3>2
        <4>2. m + k = i
          BY <1>2, <4>1
        <4>3. all[m + k] = glo[k] /\ glo[k].of = "GLONASS"
          BY <1>2, <1>4
        <4> QED BY <3>2, <4>2, <4>3
      <3> QED BY <3>1, <3>2
    <2>1. ASSUME NEW i \in 1 .. m + n
          PROVE  all[i].of = "GPS" <=> i <= m
      BY <2>a
    <2>2. ASSUME NEW i \in 1 .. m + n
          PROVE  all[i].of = "GLONASS" <=> ~(i <= m)
      BY <2>a
    <2>3. {i \in DOMAIN all : all[i].of = "GPS"} = {i \in 1 .. m + n : i <= m}
      BY <1>4, <2>1
    <2>4. {i \in DOMAIN all : all[i].of = "GLONASS"} = {i \in 1 .. m + n : ~(i <= m)}
      BY <1>4, <2>2
    <2>5. {i \in 1 .. m + n : i <= m} = 0 + 1 .. 0 + m /\ {i \in 1 .. m + n : ~(i <= m)} = m + 1 .. m + n
      BY <1>2
    <2> QED BY <2>3, <2>4, <2>5
  <1>6. Select(all, 0 + 1 .. 0 + m) = gps
    <2>1. Cardinality(0 + 1 .. 0 + m) = m
      BY <1>2, FS_Interval
    <2>2. \A i \in 1 .. m : Nth(0 + 1 .. 0 + m, i) = 0 + i
      BY <1>2, NthInterval
    <2>3. \A i \in 1 .. m : all[Nth(0 + 1 .. 0 + m, i)] = gps[i]
      BY <1>2, <1>4, <2>2
    <2> QED BY <1>1, <2>1, <2>3 DEF Select, m
  <1>7. Select(all, m + 1 .. m + n) = glo
    <2>1. Cardinality(m + 1 .. m + n) = n
      BY <1>2, FS_Interval
    <2>2. \A i \in 1 .. n : Nth(m + 1 .. m + n, i) = m + i
      BY <1>2, NthInterval
    <2>3. \A i \in 1 .. n : all[Nth(m + 1 .. m + n, i)] = glo[i]
      BY <1>2, <1>4, <2>2
    <2> QED BY <1>1, <2>1, <2>3 DEF Select, n
  <1>8. all # <<>> /\ all[1].name = "GSV"
    <2>1. 1 \in 1 .. m + n /\ 1 \in 1 .. m
      BY <1>2
    <2> QED BY <1>2, <1>4, <2>1
  <1> QED BY <1>5, <1>6, <1>7, <1>8 DEF all, gps, glo

LEMMA AllListed ==
    ASSUME NEW svs, Sky(svs), NEW c \in {"GPS", "GLONASS"}
    PROVE  LET all == Gsv(svs, "GPS") \o Gsv(svs, "GLONASS")
           IN Lists(Select(all, {i \in DOMAIN all : all[i].of = c}), Of(svs, c))
  <1> DEFINE all == Gsv(svs, "GPS") \o Gsv(svs, "GLONASS")
  <1>1. Select(all, {i \in DOMAIN all : all[i].of = c}) = Gsv(svs, c)
    BY Selected
  <1>2. Lists(Gsv(svs, c), Of(svs, c))
    BY GsvComplies DEF GsvIs
  <1> QED BY <1>1, <1>2

-----------------------------------------------------------------------------
(* A report of a position                                                  *)

(* The satellites of a mask                                                *)
Bits == 1 .. 32

LEMMA BitsFinite == IsFiniteSet(Bits)
  <1> DEFINE n == 32
  <1>1. n \in Int
    OBVIOUS
  <1>2. IsFiniteSet(1 .. n)
    <2> HIDE DEF n
    <2> QED BY <1>1, FS_Interval
  <1> QED BY <1>2 DEF Bits

(* A sentence of active satellites                                         *)
LEMMA GsaLists ==
    ASSUME NEW name, NEW ids, ids \subseteq Bits, NEW offset \in Nat, NEW dops
    PROVE  LET gsa == Gsa(name, ids, offset, dops)
           IN /\ gsa.name = name /\ gsa.dop = dops
              /\ Len(gsa.svs) = AtMost(Active, Cardinality(ids))
              /\ gsa.fix = 1 <=> gsa.svs = <<>>
              /\ \A i \in DOMAIN gsa.svs : gsa.svs[i] \in offset + 1 .. offset + 32
  <1> DEFINE gsa == Gsa(name, ids, offset, dops)
             n == Cardinality(ids)
             listed == AtMost(Active, n)
  <1>1. IsFiniteSet(ids) /\ ids \subseteq Nat
    <2>1. ids \in SUBSET Bits
      OBVIOUS
    <2>2. IsFiniteSet(ids)
      BY <2>1, BitsFinite, FS_Subset
    <2> QED BY <2>2 DEF Bits
  <1>2. n \in Nat
    BY <1>1, FS_CardinalityType
  <1>3. gsa.svs = [i \in 1 .. listed |-> Nth(ids, i) + offset]
        /\ gsa.name = name /\ gsa.dop = dops /\ gsa.fix = FixType(n)
    BY DEF Gsa
  <1> HIDE DEF n, gsa
  <1>4. listed \in Nat /\ listed <= n /\ (listed = 0 <=> n = 0)
    BY <1>2 DEF AtMost, Active
  <1>5. FixType(n) = 1 <=> n = 0
    BY <1>2 DEF FixType
  <1> HIDE DEF listed
  <1>6. Len(gsa.svs) = listed /\ DOMAIN gsa.svs = 1 .. listed
        /\ (listed = 0 <=> gsa.svs = <<>>)
    BY <1>3, <1>4
  <1>7. ASSUME NEW i \in 1 .. listed PROVE gsa.svs[i] \in offset + 1 .. offset + 32
    <2>1. i \in 1 .. n
      BY <1>2, <1>4
    <2>2. Nth(ids, i) \in ids
      BY <1>1, <2>1, NthIs DEF n
    <2>a. \A k \in ids : k \in 1 .. 32
      BY DEF Bits
    <2>3. gsa.svs[i] = Nth(ids, i) + offset /\ Nth(ids, i) \in 1 .. 32
      BY <1>3, <2>2, <2>a
    <2> QED BY <2>3
  <1> QED BY <1>3, <1>4, <1>5, <1>6, <1>7 DEF gsa, listed, n

Agree(list) ==
    LET gsa == list[1]
        glo == list[2]
        gga == list[5]
    IN /\ list[3].mode = list[4].mode
       /\ gga.quality = CASE list[4].mode = "N" -> 0
                          [] list[4].mode = "A" -> 1
                          [] OTHER -> 2
       /\ Len(gsa.svs) = AtMost(Active, gga.used)
       /\ gga.dop = gsa.dop /\ glo.dop = gsa.dop
       /\ \A s \in {gsa, glo} : s.fix = 1 <=> s.svs = <<>>
       /\ \A i \in DOMAIN gsa.svs, j \in DOMAIN glo.svs : gsa.svs[i] < glo.svs[j]

LEMMA PositionsAgree ==
    ASSUME NEW gps, gps \subseteq Bits, NEW glo, glo \subseteq Bits,
           NEW latlong \in BOOLEAN, NEW dops, NEW vtg, NEW rmc,
           vtg.mode = Indicator(latlong), rmc.mode = Indicator(latlong),
           NEW offset \in {0, 64}, glo # {} => offset = 64
    PROVE  Agree(<<Gsa("GPGSA", gps, 0, dops), Gsa("GNGSA", glo, offset, dops), vtg, rmc,
                   Gga(latlong, gps, dops)>>)
  <1> DEFINE a == Gsa("GPGSA", gps, 0, dops)
             b == Gsa("GNGSA", glo, offset, dops)
             gga == Gga(latlong, gps, dops)
  <1>1. /\ a.dop = dops /\ Len(a.svs) = AtMost(Active, Cardinality(gps))
        /\ a.fix = 1 <=> a.svs = <<>>
        /\ \A i \in DOMAIN a.svs : a.svs[i] \in 0 + 1 .. 0 + 32
    <2>1. PICK k \in Nat : k = 0
      OBVIOUS
    <2>2. LET gsa == Gsa("GPGSA", gps, k, dops)
          IN /\ gsa.dop = dops
             /\ Len(gsa.svs) = AtMost(Active, Cardinality(gps))
             /\ gsa.fix = 1 <=> gsa.svs = <<>>
             /\ \A i \in DOMAIN gsa.svs : gsa.svs[i] \in k + 1 .. k + 32
      BY GsaLists
    <2> QED BY <2>1, <2>2
  <1>2. /\ b.dop = dops /\ Len(b.svs) = AtMost(Active, Cardinality(glo))
        /\ b.fix = 1 <=> b.svs = <<>>
        /\ \A i \in DOMAIN b.svs : b.svs[i] \in offset + 1 .. offset + 32
    <2>1. PICK k \in Nat : k = offset
      OBVIOUS
    <2>2. LET gsa == Gsa("GNGSA", glo, k, dops)
          IN /\ gsa.dop = dops
             /\ Len(gsa.svs) = AtMost(Active, Cardinality(glo))
             /\ gsa.fix = 1 <=> gsa.svs = <<>>
             /\ \A i \in DOMAIN gsa.svs : gsa.svs[i] \in k + 1 .. k + 32
      BY GsaLists
    <2> QED BY <2>1, <2>2
  <1>3. \A j \in DOMAIN b.svs : glo # {}
    <2>1. ASSUME NEW j \in DOMAIN b.svs, glo = {} PROVE FALSE
      <3>1. Cardinality(glo) = 0
        BY <2>1, FS_EmptySet
      <3>2. AtMost(Active, Cardinality(glo)) = 0
        BY <3>1 DEF AtMost, Active
      <3>3. DOMAIN b.svs = 1 .. AtMost(Active, Cardinality(glo))
        BY DEF Gsa
      <3> QED BY <2>1, <3>2, <3>3
    <2> QED BY <2>1
  <1>4. /\ gga.quality = IF ~latlong THEN 0 ELSE IF mode = "STANDALONE" THEN 1 ELSE 2
        /\ gga.used = Cardinality(gps) /\ gga.dop = dops
    BY DEF Gga
  <1> HIDE DEF a, b, gga
  <1>5. \A i \in DOMAIN a.svs, j \in DOMAIN b.svs : a.svs[i] < b.svs[j]
    <2> SUFFICES ASSUME NEW i \in DOMAIN a.svs, NEW j \in DOMAIN b.svs PROVE a.svs[i] < b.svs[j]
      OBVIOUS
    <2>1. offset = 64
      BY <1>3
    <2>2. a.svs[i] \in 1 .. 32 /\ b.svs[j] \in 65 .. 96
      BY <1>1, <1>2, <2>1
    <2> QED BY <2>2
  <1>6. gga.quality = CASE rmc.mode = "N" -> 0 [] rmc.mode = "A" -> 1 [] OTHER -> 2
    <2>1. rmc.mode = IF ~latlong THEN "N" ELSE IF mode = "STANDALONE" THEN "A" ELSE "D"
      BY DEF Indicator
    <2> QED BY <1>4, <2>1
  <1> DEFINE list == <<a, b, vtg, rmc, gga>>
  <1>7. list[1] = a /\ list[2] = b /\ list[3] = vtg /\ list[4] = rmc /\ list[5] = gga
    OBVIOUS
  <1> HIDE DEF list
  <1>8. Agree(list)
    BY <1>1, <1>2, <1>4, <1>5, <1>6, <1>7 DEF Agree
  <1> QED BY <1>8 DEF list, a, b, gga

(* Both kinds of positions *)
LEMMA WithFixAgrees ==
    ASSUME gps_used_mask \subseteq Bits, glo_used_mask \subseteq Bits,
           NEW latlong \in BOOLEAN, NEW dops
    PROVE  Agree(WithFix(latlong, dops))
  <1>1. Vtg(latlong).mode = Indicator(latlong) /\ Rmc(latlong).mode = Indicator(latlong)
    BY DEF Vtg, Rmc
  <1> QED BY <1>1, PositionsAgree DEF WithFix, GLONASS_SV_ID_OFFSET

LEMMA WithoutFixAgrees == Agree(WithoutFix)
  <1> DEFINE rmc == [Rmc(FALSE) EXCEPT !.status = "V"]
  <1>1. Vtg(FALSE).mode = Indicator(FALSE) /\ rmc.mode = Indicator(FALSE)
    BY DEF Vtg, Rmc
  <1> HIDE DEF rmc
  <1>2. Agree(<<Gsa("GPGSA", {}, 0, FALSE), Gsa("GNGSA", {}, 0, FALSE), Vtg(FALSE), rmc,
                Gga(FALSE, {}, FALSE)>>)
    BY <1>1, PositionsAgree
  <1> QED BY <1>2 DEF WithoutFix, rmc

(* A satellite whose flag is set anew                                      *)
LEMMA Flagged ==
    ASSUME NEW sv \in Satellites, NEW b \in BOOLEAN
    PROVE  LET new == [sv EXCEPT !.used = b]
           IN /\ new \in Satellites
              /\ new.svid = sv.svid /\ new.constellation = sv.constellation /\ new.used = b
  <1>1. PICK c \in Constellations : sv \in [constellation : {c}, svid : SvIds(c), used : BOOLEAN]
    BY DEF Satellites
  <1>2. [sv EXCEPT !.used = b] \in [constellation : {c}, svid : SvIds(c), used : BOOLEAN]
    BY <1>1
  <1> QED BY <1>1, <1>2 DEF Satellites

(* The mask of 64 bits has the bit of a satellite of GPS or GLONASS        *)
LEMMA BitIsSv ==
    ASSUME NEW ids \in Fixes, NEW c \in {"GPS", "GLONASS"}, NEW svid \in Bits, NEW gone \in BOOLEAN
    PROVE  ids[c] \cap Tested(svid, gone) # {} <=> svid \in ids[c]
  <1>1. ids[c] \subseteq 1 .. 32 /\ svid \in 1 .. 32
    BY NmeaAssumption DEF SvIds, Constellations, Bits
  <1>2. Tested(svid, gone) = IF svid = 32 THEN 32 .. 64 ELSE {svid}
    BY <1>1 DEF Tested, Bit
  <1>3. \A e \in ids[c] : e \in Tested(svid, gone) <=> e = svid
    BY <1>1, <1>2
  <1>4. svid \in ids[c] => svid \in ids[c] \cap Tested(svid, gone)
    BY <1>3
  <1>5. \A e \in ids[c] \cap Tested(svid, gone) : e = svid
    BY <1>3
  <1> QED BY <1>4, <1>5

(* What a report of satellites shows: the list, and the flags of the fix   *)
LEMMA FlagsFollow ==
    ASSUME NEW sky \in Skies, NEW svs \in UsedFlags(sky), mGnssSvIdUsedInPosAvail \in BOOLEAN
    PROVE  /\ Sky(svs)
           /\ ~mGnssSvIdUsedInPosAvail => svs = sky
           /\ mGnssSvIdUsedInPosAvail /\ mGnssSvIdUsedInPosition \in Fixes =>
                \A i \in DOMAIN svs : svs[i].constellation # "GALILEO" =>
                    (svs[i].used <=> svs[i].svid \in mGnssSvIdUsedInPosition[svs[i].constellation])
  <1>1. sky \in Seq(Satellites)
    BY NmeaAssumption
  <1>2. CASE ~mGnssSvIdUsedInPosAvail
    BY <1>1, <1>2 DEF UsedFlags, Sky
  <1>3. CASE mGnssSvIdUsedInPosAvail
    <2> DEFINE ids == mGnssSvIdUsedInPosition
               flag(i, gone) == ids[sky[i].constellation] \cap Tested(sky[i].svid, i \in gone) # {}
    <2>1. PICK gone \in SUBSET {i \in DOMAIN sky : sky[i].svid > 32} :
             svs = [i \in DOMAIN sky |-> [sky[i] EXCEPT !.used = flag(i, gone)]]
      BY <1>3 DEF UsedFlags
    <2>2. Len(sky) \in Nat /\ DOMAIN sky = 1 .. Len(sky) /\ \A i \in DOMAIN sky : sky[i] \in Satellites
      BY <1>1
    <2> DEFINE set == [i \in DOMAIN sky |-> flag(i, gone)]
    <2>3. \A i \in DOMAIN sky : set[i] \in BOOLEAN /\ (set[i] <=> flag(i, gone))
      OBVIOUS
    <2>4. svs = [i \in DOMAIN sky |-> [sky[i] EXCEPT !.used = set[i]]]
      BY <2>1
    <2> HIDE DEF set, flag
    <2>5. ASSUME NEW i \in DOMAIN sky
          PROVE  /\ svs[i] \in Satellites
                 /\ svs[i].svid = sky[i].svid /\ svs[i].constellation = sky[i].constellation
                 /\ svs[i].used = set[i]
      <3>1. svs[i] = [sky[i] EXCEPT !.used = set[i]]
        BY <2>4
      <3>2. sky[i] \in Satellites /\ set[i] \in BOOLEAN
        BY <2>2, <2>3
      <3> QED BY <3>1, <3>2, Flagged
    <2>6. DOMAIN svs = DOMAIN sky
      BY <2>4
    <2>7. svs = [i \in 1 .. Len(sky) |-> svs[i]]
      BY <2>2, <2>4, <2>6
    <2>8. svs \in [1 .. Len(sky) -> Satellites]
      BY <2>2, <2>5, <2>7
    <2>9. svs \in Seq(Satellites)
      BY <2>2, <2>8
    <2>10. ASSUME ids \in Fixes, NEW i \in DOMAIN svs, svs[i].constellation # "GALILEO"
           PROVE  svs[i].used <=> svs[i].svid \in ids[svs[i].constellation]
      <3>1. sky[i].constellation \in {"GPS", "GLONASS"} /\ sky[i].svid \in Bits
        BY <2>2, <2>5, <2>6, <2>10 DEF Satellites, Constellations, SvIds, Bits
      <3>2. flag(i, gone) <=> sky[i].svid \in ids[sky[i].constellation]
        <4>1. (i \in gone) \in BOOLEAN
          OBVIOUS
        <4>2. PICK l \in BOOLEAN : l = (i \in gone)
          BY <4>1
        <4>3. ids[sky[i].constellation] \cap Tested(sky[i].svid, l) # {}
                <=> sky[i].svid \in ids[sky[i].constellation]
          BY <2>10, <3>1, BitIsSv
        <4> QED BY <4>2, <4>3 DEF flag
      <3> QED BY <2>3, <2>5, <2>6, <3>2
    <2> QED BY <1>3, <2>9, <2>10 DEF Sky
  <1> QED BY <1>2, <1>3

-----------------------------------------------------------------------------
(* The satellites of the last fix are kept as long as it, up to a stop       *)
Kept ==
    /\ started \in BOOLEAN /\ mNavigating \in BOOLEAN /\ mGnssSvIdUsedInPosAvail \in BOOLEAN
    /\ mGnssSvIdUsedInPosAvail <=> fix # Nothing
    /\ mGnssSvIdUsedInPosAvail => /\ mGnssSvIdUsedInPosition \in Fixes
                                  /\ Head(fix) = mGnssSvIdUsedInPosition

Masks == gps_used_mask \subseteq Bits /\ glo_used_mask \subseteq Bits

NmeaInv == Kept /\ Masks /\ UsedFollowsFix /\ SentencesComplete

LEMMA InitNmeaInv == NmeaInit => NmeaInv
  <1> SUFFICES ASSUME NmeaInit PROVE NmeaInv
    OBVIOUS
  <1>1. Kept /\ Masks
    BY DEF NmeaInit, Kept, Masks, Nothing
  <1>2. shown = <<>> /\ sentences = <<>>
    BY DEF NmeaInit
  <1>3. UsedFollowsFix /\ SentencesComplete
    BY <1>2 DEF UsedFollowsFix, SentencesComplete, GsvComplete, SentencesAgree
  <1> QED BY <1>1, <1>3 DEF NmeaInv

(* Nothing is said of a session that starts or ends                        *)
LEMMA QuietKeeps ==
    ASSUME shown' = <<>>, sentences' = <<>>
    PROVE  UsedFollowsFix' /\ SentencesComplete'
  BY DEF UsedFollowsFix, SentencesComplete, GsvComplete, SentencesAgree

LEMMA ReportSvKeeps ==
    ASSUME NmeaInv, NEW sky \in Skies, NEW extended \in BOOLEAN,
           LocEngReportSv(sky, extended)
    PROVE  NmeaInv'
  <1>1. Kept /\ mGnssSvIdUsedInPosAvail \in BOOLEAN
    BY DEF NmeaInv, Kept
  <1>2. shown' \in UsedFlags(sky) /\ UNCHANGED <<sessionVars, usedVars, fix>>
    BY DEF LocEngReportSv
  <1>3. /\ Sky(shown')
        /\ ~mGnssSvIdUsedInPosAvail => shown' = sky
        /\ mGnssSvIdUsedInPosAvail /\ mGnssSvIdUsedInPosition \in Fixes =>
             \A i \in DOMAIN shown' : shown'[i].constellation # "GALILEO" =>
               (shown'[i].used <=> shown'[i].svid \in mGnssSvIdUsedInPosition[shown'[i].constellation])
    BY <1>1, <1>2, FlagsFollow
  <1>4. Kept'
    BY <1>1, <1>2 DEF Kept, sessionVars, usedVars
  <1>5. UsedFollowsFix'
    BY <1>1, <1>2, <1>3 DEF Kept, UsedFollowsFix
  <1>6. Masks'
    <2>1. gps_used_mask' = UsedMask(shown', "GPS") /\ glo_used_mask' = UsedMask(shown', "GLONASS")
      BY DEF LocEngReportSv, generate_sv
    <2>2. \A c \in {"GPS", "GLONASS"} : UsedMask(shown', c) \subseteq Bits
      <3> SUFFICES ASSUME NEW c \in {"GPS", "GLONASS"}, NEW i \in PlacesOf(shown', c)
                   PROVE  shown'[i].svid \in Bits
        BY DEF UsedMask
      <3>1. i \in DOMAIN shown' /\ shown'[i].constellation = c
        BY DEF PlacesOf
      <3>2. shown'[i].svid \in SvIds(c)
        BY <1>3, <3>1, SkySatellites
      <3> QED BY <3>2 DEF SvIds, Bits
    <2> QED BY <2>1, <2>2 DEF Masks
  <1>7. sentences' = Gsv(shown', "GPS") \o Gsv(shown', "GLONASS")
    BY DEF LocEngReportSv, generate_sv
  <1>8. GsvComplete'
    <2>1. \A c \in {"GPS", "GLONASS"} :
             Lists(Select(sentences', {i \in DOMAIN sentences' : sentences'[i].of = c}),
                   Of(shown', c))
      BY <1>3, <1>7, AllListed
    <2> QED BY <2>1 DEF GsvComplete
  <1>9. SentencesAgree'
    <2>1. (sentences')[1].name = "GSV"
      BY <1>3, <1>7, Selected
    <2> QED BY <2>1 DEF SentencesAgree
  <1> QED BY <1>4, <1>5, <1>6, <1>8, <1>9 DEF NmeaInv, SentencesComplete

LEMMA ReportPositionKeeps ==
    ASSUME NmeaInv, NEW accepted \in BOOLEAN, NEW failed \in BOOLEAN,
           NEW ids \in {<<f>> : f \in Fixes} \cup {Nothing},
           NEW latlong \in BOOLEAN, NEW extended \in BOOLEAN,
           LocEngReportPosition(accepted, failed, ids, latlong, extended)
    PROVE  NmeaInv'
  <1>1. Kept /\ Masks
    BY DEF NmeaInv, Kept
  <1>2. /\ mNavigating' \in BOOLEAN /\ shown' = <<>> /\ UNCHANGED started
        /\ IF accepted /\ ids # Nothing
             THEN setGnssSvUsedListData(Head(ids)) /\ fix' = ids
             ELSE UNCHANGED <<usedVars, fix>>
    BY DEF LocEngReportPosition
  <1>3. Kept'
    <2>1. CASE accepted /\ ids # Nothing
      <3>1. PICK f \in Fixes : ids = <<f>>
        BY <2>1
      <3>2. Head(ids) = f
        BY <3>1
      <3> QED BY <1>1, <1>2, <2>1, <3>1, <3>2 DEF Kept, setGnssSvUsedListData
    <2>2. CASE ~(accepted /\ ids # Nothing)
      BY <1>1, <1>2, <2>2 DEF Kept, usedVars
    <2> QED BY <2>1, <2>2
  <1>4. UsedFollowsFix' /\ GsvComplete'
    BY <1>2 DEF UsedFollowsFix, GsvComplete
  <1>5. Masks' /\ SentencesAgree'
    <2>1. CASE mNavigating'
      <3>1. generate_pos(accepted, latlong, extended)
        BY <2>1 DEF LocEngReportPosition
      <3>2. Masks'
        BY <1>1, <3>1 DEF generate_pos, Masks, maskVars
      <3>3. Agree(sentences')
        <4>1. CASE accepted
          <5>1. sentences' = WithFix(latlong, extended \/ dop)
            BY <3>1, <4>1 DEF generate_pos
          <5> QED BY <1>1, <5>1, WithFixAgrees DEF Masks
        <4>2. CASE ~accepted
          <5>1. sentences' = WithoutFix
            BY <3>1, <4>2 DEF generate_pos
          <5> QED BY <5>1, WithoutFixAgrees
        <4> QED BY <4>1, <4>2
      <3> QED BY <3>2, <3>3 DEF Agree, SentencesAgree
    <2>2. CASE ~mNavigating'
      <3>1. sentences' = <<>> /\ UNCHANGED maskVars
        BY <2>2 DEF LocEngReportPosition
      <3> QED BY <1>1, <3>1 DEF Masks, maskVars, SentencesAgree
    <2> QED BY <2>1, <2>2
  <1> QED BY <1>3, <1>4, <1>5 DEF NmeaInv, SentencesComplete

LEMMA NmeaKeeps == NmeaInv /\ [NmeaNext]_nmeaVars => NmeaInv'
  <1> SUFFICES ASSUME NmeaInv, [NmeaNext]_nmeaVars PROVE NmeaInv'
    OBVIOUS
  <1>1. CASE StartFix
    <2>1. UsedFollowsFix' /\ SentencesComplete'
      BY <1>1, QuietKeeps DEF StartFix
    <2>2. Kept' /\ Masks'
      BY <1>1 DEF StartFix, NmeaInv, Kept, Masks, usedVars, maskVars
    <2> QED BY <2>1, <2>2 DEF NmeaInv
  <1>2. CASE LocEngStopFix
    <2>1. UsedFollowsFix' /\ SentencesComplete'
      BY <1>2, QuietKeeps DEF LocEngStopFix
    <2>2. Kept' /\ Masks'
      BY <1>2 DEF LocEngStopFix, clearGnssSvUsedListData, NmeaInv, Kept, Masks, maskVars
    <2> QED BY <2>1, <2>2 DEF NmeaInv
  <1>3. CASE LocEngUp
    <2>1. UNCHANGED <<started, mNavigating, usedVars, maskVars, sentences, shown, fix>>
      BY <1>3 DEF LocEngUp
    <2> QED BY <2>1 DEF NmeaInv, Kept, Masks, UsedFollowsFix, SentencesComplete, GsvComplete,
                      SentencesAgree, usedVars, maskVars
  <1>4. ASSUME NEW sky \in Skies, NEW extended \in BOOLEAN, LocEngReportSv(sky, extended)
        PROVE  NmeaInv'
    BY <1>4, ReportSvKeeps
  <1>5. ASSUME NEW extended \in BOOLEAN, NEW ids \in {<<f>> : f \in Fixes} \cup {Nothing},
               NEW latlong \in BOOLEAN, NEW accepted \in BOOLEAN, NEW failed \in BOOLEAN,
               LocEngReportPosition(accepted, failed, ids, latlong, extended)
        PROVE  NmeaInv'
    BY <1>5, ReportPositionKeeps
  <1>6. CASE UNCHANGED nmeaVars
    <2>1. UNCHANGED <<started, mNavigating, usedVars, maskVars, sentences, shown, fix>>
      BY <1>6 DEF nmeaVars, sessionVars
    <2> QED BY <2>1 DEF NmeaInv, Kept, Masks, UsedFollowsFix, SentencesComplete, GsvComplete,
                      SentencesAgree, usedVars, maskVars
  <1>7. Nothing \in {<<f>> : f \in Fixes} \cup {Nothing} /\ TRUE \in BOOLEAN /\ FALSE \in BOOLEAN
    OBVIOUS
  <1> QED BY <1>1, <1>2, <1>3, <1>4, <1>5, <1>6, <1>7 DEF NmeaNext

LEMMA NmeaAlways == NmeaSpec => []NmeaInv
  BY InitNmeaInv, NmeaKeeps, PTL DEF NmeaSpec

(* A satellite is flagged as used by the last fix that was handled since   *)
(* the last stop, for any reports and fixes in any order and any number of  *)
(* sessions, restarts and reports outside of a session included            *)
(* (LocEngReportSv::proc(), clearGnssSvUsedListData()).                     *)
THEOREM UsedIsOfFix == NmeaSpec => []UsedFollowsFix
  <1>1. NmeaInv => UsedFollowsFix
    BY DEF NmeaInv
  <1> QED BY <1>1, NmeaAlways, PTL

(* Any report of satellites, however mixed and however many, is listed     *)
(* whole and in order, and the sentences of any position agree             *)
(* (loc_eng_nmea_generate_sv(), loc_eng_nmea_generate_pos()).               *)
THEOREM SentencesAreComplete == NmeaSpec => []SentencesComplete
  <1>1. NmeaInv => SentencesComplete
    BY DEF NmeaInv
  <1> QED BY <1>1, NmeaAlways, PTL
=============================================================================
